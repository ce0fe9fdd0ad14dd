SPECIFICATION ReadsSpec
CONSTANTS
  Three = {"USD"}
  Longer = {"TBILL"}
  Shorter = {"US"}
  Binary = {"LP"}
  Issuers = {"r1", "r2"}
  Account = "r1"
  MaxMoves = 2
INVARIANTS ToldIsSo ReplacedAsListed
CHECK_DEADLOCK FALSE
