SPECIFICATION FairSpec
CONSTANTS
  a = a
  b = b
  c = c
  s1 = s1
  s2 = s2
  Runs = {a, b}
  Stops = {s1, s2}
  None = None
  MaxRestarts = 1
  Unrecorded = TRUE
  MayRaise = TRUE
PROPERTIES
  NeverStuck
CHECK_DEADLOCK FALSE
