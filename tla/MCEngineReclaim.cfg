SPECIFICATION FairSpec
CONSTANTS
  r1 = r1
  r2 = r2
  r3 = r3
  Requests = {r1, r2}
  Fast = {r2}
  Silent = {r1}
  None = None
  MaxFrames = 2
  PipeCap = 2
  MaxFaults = 0
  MayStall = TRUE
CHECK_DEADLOCK FALSE
INVARIANTS
  StreamInv
  NeverReadsSuccessor
PROPERTIES
  CleanPipe
  NeverWedged
