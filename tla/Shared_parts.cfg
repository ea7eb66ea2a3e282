SPECIFICATION SharedSpec
CONSTANTS
  Callers = {c1, c2}
  MaxRuns = 2
  MaxQueued = 1
  Clients <- MCClients
  MaxReqs = 3
  MaxCreds = 3
  MaxLost = 1
  MaxAuthCrashes = 1
  Trees = {t1, broken, denied, rejected}
  BrokenTrees = {broken}
  DeniedTrees = {denied}
  RejectedTrees = {rejected}
  HarnessLanes = {main, child}
  Root = main
  RolloverBudget = 1
  MaxHarnessCalls = 3
  MaxHarnessOps = 2
  MaxHarnessCrashes = 1
  Ids = {a, b, c}
  Publishers = {p, q}
  Exclusive = TRUE
INVARIANTS OneOwner IdleWakesWaiter RotationSafe HarnessRecoverable ReferencesDurable CollectionExact
SYMMETRY CallerSymmetry
CHECK_DEADLOCK FALSE
