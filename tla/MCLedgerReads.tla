--------------------------- MODULE MCLedgerReads ---------------------------
(* The model-checking instance of LedgerReads: one text of each kind, and two *)
(* moves of other accounts, so that an obstacle can come and go.              *)
EXTENDS LedgerReads
=============================================================================
