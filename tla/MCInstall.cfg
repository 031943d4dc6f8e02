SPECIFICATION Spec
CONSTANTS
  Focus = {"files", "app", "corpus"}
  SyncFiles = {s1, s2}
  Edits = {u1, u2}
  Gone = Gone
  Torn = Torn
  Unset = Unset
  EditsDuring = FALSE
  MaxReleases = 2
  MaxEdits = 1
  MaxSyncFaults = 1
  AppFiles = {a1, a2}
  NewFiles = {a2}
  Branches = {stable, dev}
  Pullers = {p1, p2}
  Missing = Missing
  Edited = Edited
  NoTag = NoTag
  StaleAt = 2
  MaxVersions = 2
  MaxPulls = 2
  MaxUserSteps = 1
  MaxAppFaults = 1
  MaxCorpusFaults = 2
SYMMETRY Perms
CHECK_DEADLOCK FALSE
INVARIANTS
  
  UntouchedIsClean
  EditsSurvive
  NoMissedUpdate
  
  HashedIsVerified
PROPERTIES
  NeverOverwritesUnadopted
