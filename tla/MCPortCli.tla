------------------------------ MODULE MCPortCli ------------------------------
(***************************************************************************)
(* Instances of PortCli for TLC.  Levels: a prompt with two of a hundred   *)
(* first tokens changed is below the gate of 99, and the mean of 98 and    *)
(* 100 is not.                                                             *)
(***************************************************************************)
EXTENDS PortCli, TLC

Levels == {98, 100}

\* No server is told from another.
Interchangeable == Permutations(Url)
=============================================================================
