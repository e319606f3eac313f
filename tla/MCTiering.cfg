SPECIFICATION TieringSpec
CONSTANTS
  N = 3
  Policies = {"lru", "phase", "proactive"}
  Most <- MostVMs
  FastSize = 4
  SlowSize = 4
  MaxPages = 3
  DemoteBelow = 1
  PromoteAbove = 2
  SlowReserve = 1
  SystemLimit = 5
  Cooldown = 3
  WallOffset = 10
  Partial = TRUE
PROPERTIES
  HeadroomKept
  Settles
  FailureDoesNotBlock
CHECK_DEADLOCK FALSE
