SPECIFICATION FairSpec
CONSTANTS
  Workers = {w1}
  MaxKey = 2
  MaxAttempt = 2
  MaxBudget = 2
INVARIANTS AppliedAtMostOnce SuccessIsOnLedger DeadNeverApplies
PROPERTIES ImplementsAtMostOnceWrite CallsReturn RetriesConclude
