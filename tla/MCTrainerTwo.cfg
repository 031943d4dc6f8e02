SPECIFICATION Spec
CONSTANTS
  a = a
  b = b
  c = c
  s1 = s1
  s2 = s2
  Runs = {a, b}
  Stops = {s1}
  None = None
  MaxRestarts = 0
  Unrecorded = FALSE
  MayRaise = FALSE
INVARIANTS
  OneTrainer
CHECK_DEADLOCK FALSE
