------------------------ MODULE MCCustodySubmission ------------------------
(* The model-checking instance of CustodySubmission: one worker, fee bumps and *)
(* the clock's ticks.  Any number of workers is for CustodySubmissionProofs.   *)
EXTENDS CustodySubmission
=============================================================================
