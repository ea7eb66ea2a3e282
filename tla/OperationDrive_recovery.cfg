SPECIFICATION FairSpec
CONSTANTS
  Tools = {"safe", "never", "harness"}
  Stops = {"stop", "length", "error"}
  CallStops = {"tooluse"}
  MayAbort = FALSE
  MaxOps = 1
  MaxTurns = 3
  MaxCalls = 2
  MaxFailures = 2
PROPERTY Recovers
CHECK_DEADLOCK FALSE
