SPECIFICATION SessionSpec
CONSTANTS
  MaxFaults = 2
  MaxSignals = 2
INVARIANTS
  SessionRestores
  RunnerKeepsTiering
PROPERTIES
  FailureRestores
  EnableSucceeds
  SessionEnds
CHECK_DEADLOCK FALSE
