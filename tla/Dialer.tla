------------------------------- MODULE Dialer -------------------------------
(***************************************************************************)
(* Dialling (camouflage.go, DialWithUpdates to upgradeDialed): the resource *)
(* manager's scope, the TCP connection, the progress update, the TLS tunnel *)
(* and the upgrade, with every error path.  Several dials share one update  *)
(* channel and its one consumer, which may never read.  The resource        *)
(* manager, the TCP dial, the TLS handshake and the upgrader either succeed *)
(* or fail; a failed upgrade has closed the connection and released the     *)
(* scope, in that order, before it returns.                                 *)
(***************************************************************************)
EXTENDS Naturals, Sequences, FiniteSets

CONSTANTS
    Dials,      \* calls of DialWithUpdates
    Watched,    \* those given an update channel (Dial passes nil)
    ChanSize    \* capacity of the update channel

ASSUME WatchedAssumption == Watched \subseteq Dials
ASSUME ChanSizeAssumption == ChanSize \in Nat

VARIABLES
    pc,         \* where each dial stands
    cancelled,  \* dials whose context is done
    scope,      \* none, held or released
    sock,       \* dials whose TCP connection is open
    updates,    \* the update channel
    reader,     \* the consumer is blocked in a receive
    told        \* dials whose progress the consumer has received

vars == <<pc, cancelled, scope, sock, updates, reader, told>>

Pcs == {"idle", "peer", "connect", "notify", "tls", "closeRaw", "upgrade",
        "upgraderScope", "release", "ok", "err"}

TypeOK ==
    /\ pc \in [Dials -> Pcs]
    /\ cancelled \subseteq Dials
    /\ scope \in [Dials -> {"none", "held", "released"}]
    /\ sock \subseteq Dials
    /\ updates \in Seq(Dials) /\ Len(updates) <= ChanSize
    /\ reader \in BOOLEAN
    /\ told \subseteq Dials

Init ==
    /\ pc = [d \in Dials |-> "idle"]
    /\ cancelled = {}
    /\ scope = [d \in Dials |-> "none"]
    /\ sock = {}
    /\ updates = <<>>
    /\ reader = FALSE
    /\ told = {}

Goto(d, next) == pc' = [pc EXCEPT ![d] = next]

-----------------------------------------------------------------------------
\* rcmgr.OpenConnection gives a scope or refuses.
OpenConnection(d) ==
    /\ pc[d] = "idle"
    /\ \/ Goto(d, "peer") /\ scope' = [scope EXCEPT ![d] = "held"]
       \/ Goto(d, "err") /\ UNCHANGED scope
    /\ UNCHANGED <<cancelled, sock, updates, reader, told>>

\* Fault: progress is reported as soon as the dial begins.
SetPeerNotifies(d) ==
    /\ pc[d] = "peer"
    /\ Goto(d, "connect")
    /\ updates' = IF d \in Watched /\ Len(updates) < ChanSize
                  THEN Append(updates, d) ELSE updates
    /\ UNCHANGED <<cancelled, scope, sock, reader, told>>

SetPeer(d) ==
    /\ pc[d] = "peer"
    /\ Goto(d, "connect") \/ Goto(d, "release")
    /\ UNCHANGED <<cancelled, scope, sock, updates, reader, told>>

\* dialRaw obeys the context and its own connect timeout; a dial already
\* cancelled cannot connect.
DialRaw(d) ==
    /\ pc[d] = "connect"
    /\ \/ /\ d \notin cancelled
          /\ Goto(d, IF d \in Watched THEN "notify" ELSE "tls")
          /\ sock' = sock \cup {d}
       \/ Goto(d, "release") /\ UNCHANGED sock
    /\ UNCHANGED <<cancelled, scope, updates, reader, told>>

\* The channel takes a value: it has room, or a receiver waits at it.
ChanReady == reader \/ Len(updates) < ChanSize

\* Fault: the update is sent without a default case.
NotifyBlocking(d) ==
    /\ pc[d] = "notify"
    /\ ChanReady
    /\ Goto(d, "tls")
    /\ reader' = FALSE
    /\ told' = IF reader THEN told \cup {d} ELSE told
    /\ updates' = IF reader THEN updates ELSE Append(updates, d)
    /\ UNCHANGED <<cancelled, scope, sock>>

\* Fault: the update is put into the channel whether it has room or not.
NotifyUnbounded(d) ==
    /\ pc[d] = "notify"
    /\ Goto(d, "tls")
    /\ updates' = Append(updates, d)
    /\ UNCHANGED <<cancelled, scope, sock, reader, told>>

\* select { case updateChan <- update: default: }
Notify(d) ==
    /\ pc[d] = "notify"
    /\ Goto(d, "tls")
    /\ \/ /\ reader
          /\ reader' = FALSE /\ told' = told \cup {d}
          /\ UNCHANGED updates
       \/ /\ ~reader /\ ChanReady
          /\ updates' = Append(updates, d)
          /\ UNCHANGED <<reader, told>>
       \/ /\ ~ChanReady
          /\ UNCHANGED <<updates, reader, told>>
    /\ UNCHANGED <<cancelled, scope, sock>>

\* Fault: the scope is given back as soon as the handshake has failed.
CamouflageReleases(d) ==
    /\ pc[d] = "tls"
    /\ \/ Goto(d, "upgrade") /\ UNCHANGED <<sock, scope>>
       \/ /\ Goto(d, "closeRaw")
          /\ sock' \in {sock, sock \ {d}}
          /\ scope' = [scope EXCEPT ![d] = "released"]
    /\ UNCHANGED <<cancelled, updates, reader, told>>

\* NewCamouflageConn is given no context: a cancelled dial handshakes on.  On
\* an error the TLS library may have closed the socket already.
Camouflage(d) ==
    /\ pc[d] = "tls"
    /\ \/ Goto(d, "upgrade") /\ UNCHANGED sock
       \/ Goto(d, "closeRaw") /\ sock' \in {sock, sock \ {d}}
    /\ UNCHANGED <<cancelled, scope, updates, reader, told>>

\* Fault: rawConn.Close() is forgotten.
CloseRawForgotten(d) ==
    /\ pc[d] = "closeRaw"
    /\ Goto(d, "release")
    /\ UNCHANGED <<cancelled, scope, sock, updates, reader, told>>

CloseRaw(d) ==
    /\ pc[d] = "closeRaw"
    /\ Goto(d, "release")
    /\ sock' = sock \ {d}
    /\ UNCHANGED <<cancelled, scope, updates, reader, told>>

\* upgrader.Upgrade takes the connection and the scope over, or closes the one
\* and then releases the other.
Upgrade(d) ==
    /\ pc[d] = "upgrade"
    /\ \/ d \notin cancelled /\ Goto(d, "ok") /\ UNCHANGED sock
       \/ Goto(d, "upgraderScope") /\ sock' = sock \ {d}
    /\ UNCHANGED <<cancelled, scope, updates, reader, told>>

UpgraderReleases(d) ==
    /\ pc[d] = "upgraderScope"
    /\ Goto(d, "release")
    /\ scope' = [scope EXCEPT ![d] = "released"]
    /\ UNCHANGED <<cancelled, sock, updates, reader, told>>

\* Fault: the error is returned and the scope kept.
ReleaseScopeForgotten(d) ==
    /\ pc[d] = "release"
    /\ Goto(d, "err")
    /\ UNCHANGED <<cancelled, scope, sock, updates, reader, told>>

\* DialWithUpdates releases the scope on every error (Done may be called twice).
ReleaseScope(d) ==
    /\ pc[d] = "release"
    /\ Goto(d, "err")
    /\ scope' = [scope EXCEPT ![d] = "released"]
    /\ UNCHANGED <<cancelled, sock, updates, reader, told>>

-----------------------------------------------------------------------------
Cancel(d) ==
    /\ pc[d] \notin {"ok", "err"}
    /\ d \notin cancelled
    /\ cancelled' = cancelled \cup {d}
    /\ UNCHANGED <<pc, scope, sock, updates, reader, told>>

\* The consumer takes an update from the buffer or blocks for one.
Receive ==
    /\ ~reader
    /\ \/ /\ updates # <<>>
          /\ told' = told \cup {Head(updates)}
          /\ updates' = Tail(updates)
          /\ UNCHANGED reader
       \/ /\ updates = <<>>
          /\ reader' = TRUE
          /\ UNCHANGED <<updates, told>>
    /\ UNCHANGED <<pc, cancelled, scope, sock>>

Step(d) ==
    \/ OpenConnection(d) \/ SetPeer(d) \/ DialRaw(d) \/ Notify(d)
    \/ Camouflage(d) \/ CloseRaw(d) \/ Upgrade(d) \/ UpgraderReleases(d)
    \/ ReleaseScope(d)

Terminated ==
    /\ \A d \in Dials : pc[d] \in {"ok", "err"}
    /\ reader
    /\ UNCHANGED vars

Next == (\E d \in Dials : Step(d) \/ Cancel(d)) \/ Receive \/ Terminated

Spec == Init /\ [][Next]_vars

\* Every call a dial makes returns; the consumer owes nothing.
FairSpec == Spec /\ \A d \in Dials : WF_vars(Step(d))

-----------------------------------------------------------------------------
\* A dial that failed has left neither a scope nor a socket behind, whichever of
\* its steps failed; one that succeeded hands over both.
NoLeak ==
    \A d \in Dials :
        /\ pc[d] = "err" => scope[d] # "held" /\ d \notin sock
        /\ pc[d] = "ok" => scope[d] = "held" /\ d \in sock

\* Every open socket is accounted for: the scope outlives the connection, on
\* error paths through this package and through the upgrader alike.
ScopeCoversSocket == \A d \in sock : scope[d] = "held"

\* Dials whose update is in the channel or with the consumer.
Reported == told \cup {updates[i] : i \in 1 .. Len(updates)}

Holding(d) ==
    CASE pc[d] = "ok" -> "handed"
      [] scope[d] = "none" -> "nothing"
      [] scope[d] = "released" /\ d \notin sock -> "back"
      [] scope[d] = "held" -> IF d \in sock THEN "both" ELSE "scope"
      [] OTHER -> "socket"

Contract == INSTANCE DialContract
    WITH holds <- [d \in Dials |-> Holding(d)], reported <- Reported

\* Whatever fails, every dial is one of the contract: the connection lies inside
\* the scope, and progress is reported once, while the connection stands.
RefinesDialContract == Contract!Spec

\* An update tells of a dial that has connected, and none is sent twice.
UpdatesAreTrue ==
    \A d \in Dials :
        /\ d \in Reported => pc[d] \notin {"idle", "peer", "connect", "notify"}
        /\ Cardinality({i \in 1 .. Len(updates) : updates[i] = d})
              + (IF d \in told THEN 1 ELSE 0) <= 1

\* TestDialUpdater_SlowConsumerDoesNotBlock (dialupdater_test.go): a dial returns
\* although nobody reads its updates, however many dials share the channel and
\* whatever place in it they find.
DialReturns ==
    \A d \in Dials : pc[d] = "peer" ~> pc[d] \in {"ok", "err"}
=============================================================================
