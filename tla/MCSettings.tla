----------------------------- MODULE MCSettings -----------------------------
(* Settings with up to three options, numbers from -1 to 2 and three names. *)
EXTENDS Settings

MCNames == {"www.googleapis.com", "other", ""}
MCAmounts == -1 .. 2
=============================================================================
