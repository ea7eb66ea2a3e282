SPECIFICATION Spec
CONSTANTS
  Agents = {a1, a2}
  MaxConcurrent = 2
  MaxTotal = 2
  MaxFaults = 1
  MaxCrashes = 1
SYMMETRY Symmetry
INVARIANTS EditsKept RootSettles NoLostWakeup ApplyTruthful
