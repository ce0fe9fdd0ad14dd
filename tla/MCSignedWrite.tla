--------------------------- MODULE MCSignedWrite ---------------------------
(* Model-checking instances of SignedWrite. *)
EXTENDS SignedWrite
=============================================================================
