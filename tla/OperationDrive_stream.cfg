SPECIFICATION Spec
CONSTANTS
  Tools = {"safe"}
  Stops = {"stop"}
  CallStops = {"tooluse", "error"}
  MayAbort = FALSE
  MaxOps = 2
  MaxTurns = 3
  MaxCalls = 1
  MaxFailures = 0
INVARIANT ContextStaysPaired
CHECK_DEADLOCK FALSE
