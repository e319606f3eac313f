SPECIFICATION TieringSpec
CONSTANTS
  N = 3
  Policies = {"lru"}
  Most <- MostVMs
  FastSize = 5
  SlowSize = 5
  MaxPages = 3
  DemoteBelow = 1
  PromoteAbove = 2
  SlowReserve = 1
  SystemLimit = 7
  Cooldown = 2
  WallOffset = 10
  Partial = FALSE
PROPERTIES
  DemotesWhenLow
CHECK_DEADLOCK FALSE
