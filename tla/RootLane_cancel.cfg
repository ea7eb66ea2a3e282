SPECIFICATION FairSpec
CONSTANTS
  HostCalls = {"submit", "abort", "close"}
  MaxInputs = 2
  MaxOps = 2
  MaxControls = 0
  MaxRevisions = 2
  MaxChanges = 0
  MaxForks = 0
  MaxCrashes = 0
INVARIANT NoLostAbort
PROPERTY CloseJoins
CHECK_DEADLOCK FALSE
