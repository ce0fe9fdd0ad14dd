SPECIFICATION Spec
CONSTANTS
  Inputs <- MCIssue
  MaxRun = 2
INVARIANT RetryDoesNotDuplicate
CHECK_DEADLOCK FALSE
