SPECIFICATION FairSpec
CONSTANTS
  Tools = {"safe"}
  Stops = {"stop"}
  CallStops = {"tooluse", "length"}
  MayAbort = FALSE
  MaxOps = 1
  MaxTurns = 2
  MaxCalls = 1
  MaxFailures = 1
PROPERTY Recovers
CHECK_DEADLOCK FALSE
