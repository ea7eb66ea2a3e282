SPECIFICATION Spec
CONSTANTS
  HostCalls = {"submit", "command", "thinking"}
  MaxInputs = 1
  MaxOps = 2
  MaxControls = 2
  MaxRevisions = 2
  MaxChanges = 1
  MaxForks = 0
  MaxCrashes = 1
INVARIANTS TypeOK OneOpenOperation HooksRunOnce
CHECK_DEADLOCK FALSE
