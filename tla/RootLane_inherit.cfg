SPECIFICATION Spec
CONSTANTS
  HostCalls = {"submit", "abort"}
  MaxInputs = 2
  MaxOps = 2
  MaxControls = 0
  MaxRevisions = 1
  MaxChanges = 0
  MaxForks = 0
  MaxCrashes = 0
INVARIANT FreshOperationUncancelled
CHECK_DEADLOCK FALSE
