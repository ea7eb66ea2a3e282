SPECIFICATION Spec
CONSTANTS
  Agents = {a1}
  MaxConcurrent = 1
  MaxTotal = 1
  MaxFaults = 0
  MaxCrashes = 0
INVARIANT CompleteResult
