SPECIFICATION LocalSpec
CONSTANTS
  HubLanes = {l1, l2}
  HubRuns = {r1}
  HubSubjects = {s1, s2}
  HubBuffer = 2
  HubFences = 1
  MaxHubCommits = 2
  MaxHubSeq = 4
  MaxHubDelayed = 1
  BatchSizes = {0, 2}
  ParallelTools = TRUE
  MaxCompactions = 1
  MaxOverflowRetries = 1
  MaxQueued = 1
  CmpTurns = 3
  CmpRuns = 2
  WarmRequests = 3
  WarmRefreshes = 3
  Background = {b1, b2}
  NumbersReused = TRUE
  HttpReqs = {q1, q2}
  InFlight = 1
  Interval = 1
  Timeout = 2
  MaxRetries = 1
  RetryDelay = 1
  RetryAfter = 1
  MaxTime = 2
  Terms = {t1}
  Nobody = nobody
  InputWindow = 2
  MaxTyped = 4
  MaxRuntimes = 3
INVARIANTS SnapshotThenFacts SettledStaysSettled NoLostNotice LiveIsDurable MaintenanceSubordinate ClaimedStopped RouteQuota InputOnce
CHECK_DEADLOCK FALSE
