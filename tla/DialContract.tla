----------------------------- MODULE DialContract -----------------------------
(***************************************************************************)
(* What the resource manager, the operating system and the reader of        *)
(* progress updates see of a dial (camouflage.go, DialWithUpdates): first a *)
(* scope, under it a connection, reported at most once while it stands; in  *)
(* the end both are the caller's, or the connection is closed and then the  *)
(* scope given back.                                                        *)
(***************************************************************************)
CONSTANT Dials

VARIABLES holds,     \* what each dial holds
          reported   \* dials whose progress has been sent

vars == <<holds, reported>>

Holdings == {"nothing", "scope", "both", "handed", "back"}

TypeOK == holds \in [Dials -> Holdings] /\ reported \subseteq Dials

Init ==
    /\ holds = [d \in Dials |-> "nothing"]
    /\ reported = {}

Move(d, from, to) ==
    /\ holds[d] = from
    /\ holds' = [holds EXCEPT ![d] = to]
    /\ UNCHANGED reported

Open(d) == Move(d, "nothing", "scope")
Connect(d) == Move(d, "scope", "both")
Disconnect(d) == Move(d, "both", "scope")
HandOver(d) == Move(d, "both", "handed")
GiveBack(d) == Move(d, "scope", "back")

Report(d) ==
    /\ holds[d] = "both"
    /\ d \notin reported
    /\ reported' = reported \cup {d}
    /\ UNCHANGED holds

Next == \E d \in Dials :
    \/ Open(d) \/ Connect(d) \/ Disconnect(d) \/ HandOver(d) \/ GiveBack(d)
    \/ Report(d)

Spec == Init /\ [][Next]_vars
=============================================================================
