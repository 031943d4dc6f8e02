SPECIFICATION RunSpec
CONSTANTS
  Total = 4
  LogEvery = 1
  EvalEvery = 2
  CkptEvery = 2
  MaxKills = 1
  MaxNaNs = 1
  MaxScratches = 1
CHECK_DEADLOCK FALSE
INVARIANTS
  NoDuplicateRows
