------------------------------ MODULE MCGateway ------------------------------
(***************************************************************************)
(* An instance of Gateway for TLC: with the admin, the keys are one        *)
(* principal more than the limiter may track.                              *)
(***************************************************************************)
EXTENDS Gateway, TLC

Principals == Key \cup Client \cup {"admin", "legacy"}

Interchangeable == Permutations(Key) \cup Permutations(Request)
=============================================================================
