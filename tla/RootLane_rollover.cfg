SPECIFICATION Spec
CONSTANTS
  HostCalls = {"submit", "command"}
  MaxInputs = 1
  MaxOps = 1
  MaxControls = 1
  MaxRevisions = 2
  MaxChanges = 0
  MaxForks = 0
  MaxCrashes = 0
INVARIANT ControlRevisionActive
CHECK_DEADLOCK FALSE
