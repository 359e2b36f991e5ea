------------------------------ MODULE MCDpilab ------------------------------
(* Dpilab with two rounds: the first takes the reservation, the last ends. *)
EXTENDS Dpilab
=============================================================================
