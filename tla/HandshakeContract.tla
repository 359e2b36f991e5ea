--------------------------- MODULE HandshakeContract ---------------------------
(***************************************************************************)
(* What NewCamouflageConn (tls-camouflage.go) promises the two that call it *)
(* at the ends of a connection, without a word of flights.  An end that     *)
(* succeeds faces one of the other role, and one of the two roles succeeds  *)
(* only after the other has; the deadline is on the socket exactly while    *)
(* the outcome is open; success and failure are final; and a socket that    *)
(* failed is the caller's to close, though it may find it closed.           *)
(***************************************************************************)
CONSTANT Ends

VARIABLES role,      \* each end's TLS role
          lastRole,  \* the role that succeeds last
          result,    \* what has become of each end's handshake
          sock       \* each end's socket, with and without deadline

vars == <<role, lastRole, result, sock>>

Results == {"open", "agreed", "handedOn", "failed", "givenUp"}

TypeOK ==
    /\ role \in [Ends -> {"client", "server"}]
    /\ lastRole \in {"client", "server"}
    /\ result \in [Ends -> Results]
    /\ sock \in [Ends -> {"plain", "armed", "closed"}]

Init ==
    /\ role \in [Ends -> {"client", "server"}]
    /\ lastRole \in {"client", "server"}
    /\ result = [e \in Ends |-> "open"]
    /\ sock = [e \in Ends |-> "plain"]

Change(e, from, to, sockTo) ==
    /\ result[e] = from
    /\ result' = [result EXCEPT ![e] = to]
    /\ sock' = [sock EXCEPT ![e] = sockTo]
    /\ UNCHANGED <<role, lastRole>>

Arm(e) == sock[e] = "plain" /\ Change(e, "open", "open", "armed")

Agree(e) ==
    /\ sock[e] = "armed"
    /\ \A f \in Ends \ {e} : /\ role[f] # role[e]
                             /\ role[e] = lastRole => result[f] \in {"agreed", "handedOn"}
    /\ Change(e, "open", "agreed", "armed")

HandOn(e) == Change(e, "agreed", "handedOn", "plain")

Fail(e) ==
    /\ sock[e] = "armed"
    /\ \E left \in {"armed", "closed"} : Change(e, "open", "failed", left)

GiveUp(e) == Change(e, "failed", "givenUp", "closed")

Next == \E e \in Ends : Arm(e) \/ Agree(e) \/ HandOn(e) \/ Fail(e) \/ GiveUp(e)

Spec == Init /\ [][Next]_vars
=============================================================================
