SPECIFICATION Spec
CONSTANTS
  Workers = {w1, w2}
  MaxKey = 2
  MaxTx = 2
  MaxBudget = 1
SYMMETRY WorkerSymmetry
INVARIANTS AppliedAtMostOnce EndsAreTrue
PROPERTIES ImplementsAtMostOnceWrite
