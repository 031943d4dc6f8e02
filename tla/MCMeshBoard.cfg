SPECIFICATION FairSpec
CONSTANTS
  n1 = n1
  n2 = n2
  n3 = n3
  j1 = j1
  j2 = j2
  Nodes = {n1, n2, n3}
  Jobs = {j1}
  None = None
  Suits <- MCAllSuit
  Kinds = {"death", "hub"}
  MaxFaults = 2
  Reporting = TRUE
  MidSweep = FALSE
CHECK_DEADLOCK FALSE
PROPERTIES
  ImplementsBoard
  JobsFinish
