------------------------- MODULE MCValidateBackend -------------------------
(* An instance of ValidateBackend for TLC. *)
EXTENDS ValidateBackend
=============================================================================
