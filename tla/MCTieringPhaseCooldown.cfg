SPECIFICATION TieringSpec
CONSTANTS
  N = 2
  Policies = {"phase"}
  Most <- MostVMs
  FastSize = 5
  SlowSize = 5
  MaxPages = 3
  DemoteBelow = 1
  PromoteAbove = 2
  SlowReserve = 1
  SystemLimit = 7
  Cooldown = 2
  WallOffset = 10
  Partial = TRUE
PROPERTIES
  CooldownRespected
CHECK_DEADLOCK FALSE
