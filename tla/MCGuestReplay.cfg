SPECIFICATION GuestSpec
CONSTANTS
  i1 = i1
  i2 = i2
  c1 = c1
  c2 = c2
  c3 = c3
  c4 = c4
  none = none
  g1 = g1
  g2 = g2
  SessionIds = {g1, g2}
  Commands = {c1, c2, c3, c4}
  Workflows <- MCWorkflows
  Foreign = {}
  NoId = none
  Tags <- MCTags
  Turns = {1, 2}
  MaxRequests = 0
  MaxTurns = 2
  MaxStages = 1
  MaxAttempts = 3
  FaultKinds = {"drop", "late", "busy", "restart", "boot", "tools", "kill"}
  MaxFaults = 2
INVARIANTS
  ServerOneAhead
PROPERTIES
  ReplayIsExact
  GuestsEnd
  RetriesMaskFaults
CHECK_DEADLOCK FALSE
