SPECIFICATION FairSpec
CONSTANTS
  n1 = n1
  n2 = n2
  n3 = n3
  j1 = j1
  j2 = j2
  Nodes = {n1, n2}
  Jobs = {j1}
  None = None
  Suits <- MCAllSuit
  Kinds = {"lost", "death"}
  MaxFaults = 2
  Reporting = FALSE
  MidSweep = FALSE
PROPERTIES
  OrphansRequeued
CHECK_DEADLOCK FALSE
