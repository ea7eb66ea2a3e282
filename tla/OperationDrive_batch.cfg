SPECIFICATION Spec
CONSTANTS
  Tools = {"safe", "never"}
  Stops = {"stop"}
  CallStops = {"tooluse"}
  MayAbort = TRUE
  MaxOps = 2
  MaxTurns = 3
  MaxCalls = 2
  MaxFailures = 0
INVARIANT ContextStaysPaired
CHECK_DEADLOCK FALSE
