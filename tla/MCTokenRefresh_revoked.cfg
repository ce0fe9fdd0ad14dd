SPECIFICATION RippleFairSpec
CONSTANTS
  Requests = {r1, r2}
  MaxRefresh = 4
INVARIANTS SharedIsPending ReplayIsFresh
PROPERTY RequestsEnd
CHECK_DEADLOCK FALSE
