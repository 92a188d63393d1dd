----------------------------- MODULE MCPortJobs -----------------------------
(***************************************************************************)
(* Instances of PortJobs for TLC: identifiers and principals are           *)
(* interchangeable, so the safety runs may permute them.                   *)
(***************************************************************************)
EXTENDS PortJobs, TLC

Interchangeable == Permutations(JobId) \cup Permutations(Principal)
=============================================================================
