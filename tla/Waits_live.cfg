SPECIFICATION WaitsSpec
CONSTANTS
  Agents = {a1, a2}
  MaxConcurrent = 2
  MaxTotal = 2
  MaxFaults = 0
  MaxCrashes = 1
  NCalls = 2
  MaxUpdates = 1
  Limit = 2
INVARIANT BatchOrdered
PROPERTIES SettlementEnds CancelEndsBatch
CHECK_DEADLOCK FALSE
