---------------------------- MODULE MCTokenMatch ----------------------------
(***************************************************************************)
(* An instance of TokenMatch for TLC: rows in which a token may repeat, a  *)
(* logprob may be positive (level 3) or NaN, and the last rank lies past k.*)
(***************************************************************************)
EXTENDS TokenMatch, TLC

Interchangeable == Permutations(Token)
=============================================================================
