--------------------------- MODULE ListenerContract ---------------------------
(***************************************************************************)
(* What the upgrader relies on when it is given a camouflaged listener      *)
(* (transport.GatedMaListener as camouflage.go implements it): custody of   *)
(* every connection passes from the inner listener to the listener, and     *)
(* from there either to one caller of Accept or to nobody, with the scope   *)
(* and the socket released.  When Close has returned the listener keeps     *)
(* nothing and takes nothing more.                                          *)
(***************************************************************************)
CONSTANT Conns

VARIABLES place,  \* where custody of each connection lies
          phase   \* of the listener's life

vars == <<place, phase>>

TypeOK ==
    /\ place \in [Conns -> {"outside", "inside", "handed", "dropped"}]
    /\ phase \in {"open", "closing", "closed"}

Init ==
    /\ place = [c \in Conns |-> "outside"]
    /\ phase = "open"

Move(c, from, to) ==
    /\ phase # "closed"
    /\ place[c] = from
    /\ place' = [place EXCEPT ![c] = to]
    /\ UNCHANGED phase

Take(c) == Move(c, "outside", "inside")
Hand(c) == Move(c, "inside", "handed")
Drop(c) == Move(c, "inside", "dropped")

BeginClose ==
    /\ phase = "open"
    /\ phase' = "closing"
    /\ UNCHANGED place

EndClose ==
    /\ phase = "closing"
    /\ \A c \in Conns : place[c] # "inside"
    /\ phase' = "closed"
    /\ UNCHANGED place

Next ==
    \/ \E c \in Conns : Take(c) \/ Hand(c) \/ Drop(c)
    \/ BeginClose \/ EndClose

Spec == Init /\ [][Next]_vars

=============================================================================
