------------------------------ MODULE MCNatlab ------------------------------
(* Natlab has no parameters: the relay and the two peers of topology.sh. *)
EXTENDS Natlab
=============================================================================
