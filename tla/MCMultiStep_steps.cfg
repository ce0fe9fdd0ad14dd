SPECIFICATION Spec
CONSTANTS
  Inputs <- MCInputs
  MaxRun = 3
INVARIANTS Barrier AppliedOnce KeyedOnce FormIsWhole
CHECK_DEADLOCK FALSE
