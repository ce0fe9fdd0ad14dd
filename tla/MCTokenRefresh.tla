-------------------------- MODULE MCTokenRefresh ---------------------------
(* Model-checking instances of TokenRefresh. *)
EXTENDS TokenRefresh
=============================================================================
