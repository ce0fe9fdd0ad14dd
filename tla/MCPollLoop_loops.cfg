SPECIFICATION LoopSpec
CONSTANTS
  Initial = 1
  MaxDelay = 6
  Budget = 21
  NaN = NaN
  MaxRead = 2
  MaxLate = 2
  Horizon = 30
INVARIANTS SettledInTimeIsReported EndsOnTime ReadsAreSpaced
CHECK_DEADLOCK FALSE
