SPECIFICATION FairSpec
CONSTANTS
  PoolN = 2
  mv = mv
  mm = mm
  Fns <- MCFns
  None = None
  Free = Free
  Driver = Driver
INVARIANTS
  IInv
  NoUseAfterReturn
  NoLostWake
PROPERTIES
  ImplementsForkJoin
  CallReturns
