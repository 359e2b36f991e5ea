--------------------------- MODULE MCGatedListener ---------------------------
(* GatedListener on small instances. *)
EXTENDS GatedListener, TLC

CONSTANTS c1, c2, c3, a1, k1, k2

TwoConns == {c1, c2}
ThreeConns == {c1, c2, c3}
NoConns == {}
OneSilent == {c1}
OneAcceptor == {a1}
OneCloser == {k1}
TwoClosers == {k1, k2}

\* Sound for the safety runs, in which no connection is silent.
Symmetry == Permutations(ThreeConns) \cup Permutations(TwoClosers)
=============================================================================
