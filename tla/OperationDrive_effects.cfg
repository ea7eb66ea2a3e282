SPECIFICATION Spec
CONSTANTS
  Tools = {"safe", "never", "harness"}
  Stops = {"tooluse", "stop", "length", "error", "cancelled"}
  CallStops = {"tooluse", "stop", "length", "error", "cancelled"}
  MayAbort = TRUE
  MaxOps = 2
  MaxTurns = 3
  MaxCalls = 2
  MaxFailures = 2
INVARIANTS EffectHasIntent NeverAtMostOnce CompletedIsSettled
PROPERTY IndeterminateBlocks
CHECK_DEADLOCK FALSE
