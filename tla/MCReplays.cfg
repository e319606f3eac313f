SPECIFICATION ReplaysSpec
CONSTANTS
  MaxRequests = 4
  MaxFaults = 2
  Tenants = 2
  Jobs = 3
  MaxDeaths = 1
  Sessions = 3
  Batch = 2
  Guests = 3
  GuestBatch = 2
  Turns = 2
  MaxRecoveries = 1
  Page = 5
  Iterations = 2
  Members = 2
  Relays = 2
  Expected = {1, 2}
  Strangers = {9}
INVARIANTS
  ReplyIsOwn
  RunsAccountedFor
  FleetAccountedFor
  NoGuestForgotten
  CaptureIsWhole
  GuestsBeginWhole
  
PROPERTIES
  DriverEnds
CHECK_DEADLOCK FALSE
