----------------------------- MODULE MCPollLoop -----------------------------
(* Model-checking instances of PollLoop. *)
EXTENDS PollLoop
=============================================================================
