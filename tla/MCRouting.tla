----------------------------- MODULE MCRouting -----------------------------
(***************************************************************************)
(* An instance of Routing for TLC: the two names of lifespan, in the       *)
(* default order.                                                          *)
(***************************************************************************)
EXTENDS Routing

TwoNames == {"cuda", "ascend"}
DefaultPriority == <<"cuda", "ascend">>
=============================================================================
