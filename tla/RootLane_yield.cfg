SPECIFICATION Spec
CONSTANTS
  HostCalls = {"submit"}
  MaxInputs = 1
  MaxOps = 1
  MaxControls = 0
  MaxRevisions = 1
  MaxChanges = 0
  MaxForks = 0
  MaxCrashes = 0
PROPERTY ContinuationYields
CHECK_DEADLOCK FALSE
