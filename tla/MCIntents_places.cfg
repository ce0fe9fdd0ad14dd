SPECIFICATION FairSpec
CONSTANTS
  first = first
  second = second
  east = east
  west = west
  south = south
  Callers = {c1}
  Approvers = {a1}
  Signers = {first, second}
  Home <- MCHome
  Reach <- MCReach
  Observer = first
  MaxFresh = 2
  MaxReads = 1
  MaxLate = 1
INVARIANTS AnswersAreTrue ProposedOnce
PROPERTIES AskingConcludes
