SPECIFICATION Spec
CONSTANTS
  e1 = e1
  e2 = e2
  Engines = {e1, e2}
  Token = {1, 2}
  SeqLen = 4
  Prompts <- MCPrompts
  Name <- MCName
  MinPrefix = 1
  Cap = 2
  DiskFull = TRUE
  MaxCalls = 3
  MaxCrashes = 1
  MaxExports = 1
  MidLoad = FALSE
  None = None
SYMMETRY MCEngines
CHECK_DEADLOCK FALSE
INVARIANTS
  CacheInv
  WarmIsCold
  UnderCap
