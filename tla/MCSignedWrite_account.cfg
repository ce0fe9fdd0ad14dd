SPECIFICATION FairSpec
CONSTANTS
  Workers = {w1}
  MaxKey = 2
  MaxSeq = 2
  MaxLedger = 4
  Window = 1
INVARIANTS WriteAppliedOnce SignatureCovers AnswersAreOwn
PROPERTIES CallsReturn
CHECK_DEADLOCK FALSE
