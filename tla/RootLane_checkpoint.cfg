SPECIFICATION Spec
CONSTANTS
  HostCalls = {"submit", "command"}
  MaxInputs = 2
  MaxOps = 1
  MaxControls = 1
  MaxRevisions = 1
  MaxChanges = 0
  MaxForks = 0
  MaxCrashes = 0
INVARIANT ControlCheckpointable
CHECK_DEADLOCK FALSE
