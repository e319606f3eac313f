SPECIFICATION ExperimentSpec
CONSTANTS
  i1 = i1
  i2 = i2
  c1 = c1
  c2 = c2
  c3 = c3
  none = none
  SessionIds = {1, 2}
  Commands = {c1, c2, c3}
  Workflows <- MCWorkflows
  Foreign = {}
  NoId = none
  Tags <- MCTags
  Turns = {1, 2}
  MaxRequests = 0
  MaxTurns = 2
  MaxStages = 3
  MaxAttempts = 2
  FaultKinds = {"drop", "late", "restart", "kill", "guard"}
  MaxFaults = 2
  Stages <- Within
  Pool <- MCPool
INVARIANTS
  RunsOwnTrace
PROPERTIES
  EveryStageCompletes
CHECK_DEADLOCK FALSE
