SPECIFICATION Spec
CONSTANTS
  HostCalls = {"submit", "command", "thinking", "fork"}
  MaxInputs = 1
  MaxOps = 2
  MaxControls = 2
  MaxRevisions = 2
  MaxChanges = 1
  MaxForks = 1
  MaxCrashes = 1
INVARIANT CompletedIsForkable
CHECK_DEADLOCK FALSE
PROPERTY ForkFromSettled
