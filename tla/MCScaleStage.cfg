SPECIFICATION Spec
CONSTANTS
  N = 2
  FaultKinds <- AllFaults
  MaxFaults = 2
INVARIANTS
  NothingOutlivesStage
  ResultIsComplete
  GuardStopsAdmission
PROPERTIES
  GuardEmptiesStage
  StageEnds
CHECK_DEADLOCK FALSE
