SPECIFICATION CmpSpec
CONSTANTS
  BatchSizes = {0, 2}
  ParallelTools = TRUE
  MaxCompactions = 1
  MaxOverflowRetries = 1
  MaxQueued = 1
  CmpTurns = 3
  CmpRuns = 2
INVARIANT AlwaysRebuilt
CHECK_DEADLOCK FALSE
