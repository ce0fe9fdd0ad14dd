------------------------ MODULE MCPalisadeSubmission ------------------------
(* Model-checking instances of PalisadeSubmission. *)
EXTENDS PalisadeSubmission, TLC

\* Workers are interchangeable: no action tells one from another.
WorkerSymmetry == Permutations(Workers)
=============================================================================
