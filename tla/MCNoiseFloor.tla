---------------------------- MODULE MCNoiseFloor ----------------------------
(* An instance of NoiseFloor for TLC: one prompt and one filler. *)
EXTENDS NoiseFloor
=============================================================================
