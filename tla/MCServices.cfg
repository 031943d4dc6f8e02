SPECIFICATION ServicesSpec
CONSTANTS
  Focus = {"trainer", "host", "brain", "beat", "synth", "run", "decode"}
  MaxMishaps = 2
  Runs = {d1, d2, d3}
  Stops = {}
  None = None
  MaxRestarts = 2
  Unrecorded = FALSE
  MayRaise = TRUE
  Callers = {c1, c2}
  HostSessions = {{"build", "stop", "load"}, {"build", "load", "unload"}, {"rebuild", "stop", "chat"}, {"rebuild", "unload", "config"}, {"load", "chat"}}
  OverlapStarts = FALSE
  MaxBuilds = 2
  MaxLoads = 2
  MaxSpawns = 2
  MaxSources = 2
  BrainUsers = {t1, t2, t3}
  Models = {ma, mb}
  Ablations = {n1}
  BrainSessions = {{"load", "generate", "lookup"}, {"load", "unload", "watch"}, {"chat", "lookup"}}
  NoModel = NoModel
  NoAblation = NoAblation
  MaxBrains = 2
  Recorders = {r1}
  PerPing = 1
  OverlapRecords = FALSE
  MaxEvents = 5
  MaxErrors = 1
  MaxSends = 2
  MaxBeatFaults = 1
  MaxRearms = 1
  Posters = {q1}
  Asked = {x, y, z}
  Answers = {A, B, G}
  Gated = {G}
  NoAnswer = NoAnswer
  Workers = 2
  Streak = 1
  FlushEvery = 2
  Warmup = 3
  RateTenths = 9
  OverlapResumes = FALSE
  MaxResumes = 2
  MaxSynthCrashes = 1
  MaxRefusals = 1
  Total = 4
  LogEvery = 1
  EvalEvery = 2
  CkptEvery = 2
  MaxKills = 1
  MaxNaNs = 1
  MaxScratches = 2
  Byte = {0, 1}
  SeqMax = 6
  MaxNew = 3
  NgramLen = 1
  DraftMax = 2
  Heads = 3
  MCModes = {"lookahead", "kv", "verify"}
  MCLengths = {1, 2, 3, 5}
  Model <- MCModel
  Grammar <- MCGrammar
  Best <- MCBest
  Allowed <- MCAllowed
  Complete <- MCComplete
  Requests <- MCRequests
SYMMETRY Perms
CHECK_DEADLOCK FALSE
INVARIANTS
  
  OneTrainer
  AlwaysStoppable
  BuildIsReported
  
  OwnAblation
  TrainingsKept
  OneRowPerPrompt
  NothingForgotten
  ForkHasItsRow
  LockStep
PROPERTIES
  RestartFindsRun
  RowsBeyondCheckpoints
  CanonicalWhenFits
