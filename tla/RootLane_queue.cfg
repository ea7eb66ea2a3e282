SPECIFICATION Spec
CONSTANTS
  HostCalls = {"submit", "withdraw", "thinking"}
  MaxInputs = 2
  MaxOps = 2
  MaxControls = 0
  MaxRevisions = 1
  MaxChanges = 1
  MaxForks = 0
  MaxCrashes = 1
INVARIANTS CompletionTruthful NoLostCompletion BatchAtomic
PROPERTY DispositionFinal
CHECK_DEADLOCK FALSE
