SPECIFICATION Spec
CONSTANTS
  Sandboxes = {s1, s2}
  Size = 3
  FastSize = 5
  SlowSize = 3
  DemoteFree = 1
  PromoteFree = 2
  SlowReserve = 0
  IdleTime = 1
  Cooldown = 1
  Everything = FALSE
  MaxTime = 2
  SpanIds = {1, 2}
  MaxRss = 3
  Pids = {1, 2, 3}
  Root = 1
  MaxForks = 2
  FewPids = {1, 2}
  MaxTicks = 2
  CpuLimit = 50
  Sustain = 2
  MemoryLimit = 1
  Listed = 3
  TraceLength = 2
  ProfileMaxTurns = 2
  SessionIds = {1, 2}
  TurnIds = {1, 2}
  MaxStart = 2
  MaxLines = 2
  Scale = 2
  MaxPlanned = 3
  Instances = {1, 2}
  Durations = {1, 2, 6, 10}
  Actives = {0, 2}
  MaxTurns = 5
  MaxPrompts = 4
  MinWait = 1
  Quarters = 1
  MaxLeast = 3
  UserTurns = 2
  MaxEvents = 2
  MaxSpans = 1
  TraceIds = {1, 2}
  MaxMessages = 2
  MaxTimings = 2
  MaxCalls = 2
  Cpus = {0, 1, 2, 3, 4}
  PathSpans = 3
  PathTime = 3
INVARIANTS
  PeaksAreSeen
  ProcessesArePaired
  CpuTimeAddsUp
  NearestIsRun
  ResultsAreUsable
  TracesReadAlike
PROPERTIES
  DemotesIdle
CHECK_DEADLOCK FALSE
