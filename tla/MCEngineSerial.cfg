SPECIFICATION Spec
CONSTANTS
  r1 = r1
  r2 = r2
  r3 = r3
  Requests = {r1, r2, r3}
  Fast = {r1, r2}
  Silent = {}
  None = None
  MaxFrames = 2
  PipeCap = 2
  MaxFaults = 2
  MayStall = FALSE
CHECK_DEADLOCK FALSE
INVARIANTS
  OwnFrames
