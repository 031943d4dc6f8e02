SPECIFICATION Spec
CONSTANTS
  n1 = n1
  n2 = n2
  n3 = n3
  j1 = j1
  j2 = j2
  Nodes = {n1, n2}
  Jobs = {j1, j2}
  None = None
  Suits <- MCAllSuit
  Kinds = {"lost", "cut", "death", "return", "hub"}
  MaxFaults = 3
  Reporting = FALSE
  MidSweep = FALSE
SYMMETRY MCSym
CHECK_DEADLOCK FALSE
INVARIANTS
  MeshInv
  FaultStrandsOne
PROPERTIES
  RequeuesVanished
