----------------------- MODULE MCCamouflageHandshake -----------------------
(* CamouflageHandshake between two named ends. *)
EXTENDS CamouflageHandshake

CONSTANTS alice, bob

MCEnds == {alice, bob}
=============================================================================
