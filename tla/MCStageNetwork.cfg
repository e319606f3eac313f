SPECIFICATION Spec
CONSTANTS
  Sessions = 2
  MaxStages = 2
  MaxFaults = 2
INVARIANTS
  HostRestored
CHECK_DEADLOCK FALSE
