----------------------------- MODULE MCCorpora -----------------------------
(***************************************************************************)
(* An instance of Corpora for TLC.  Answers of two positions may part at   *)
(* the first, at the second, or not at all; two probabilities lie on the   *)
(* threshold and beyond it.                                                *)
(***************************************************************************)
EXTENDS Corpora, TLC

Interchangeable == Permutations(Token)
=============================================================================
