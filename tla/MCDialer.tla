------------------------------ MODULE MCDialer ------------------------------
(* Dialer with three dials, one of them without an update channel. *)
EXTENDS Dialer

CONSTANTS d1, d2, d3

MCDials == {d1, d2, d3}
MCWatched == {d1, d2}
=============================================================================
