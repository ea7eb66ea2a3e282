SPECIFICATION StorageSpec
CONSTANTS
  Writers = {w1, w2}
  Strict = TRUE
  RenameDurable = TRUE
  MaxCommits = 3
  Entries = {e1, e2, e3}
  OpIds = {o1, o2}
  Epochs = {p1, p2}
  Steps = {s1, s2}
  Requests = {r1}
  MaxIdxCommits = 4
  Reuse = FALSE
SYMMETRY StorageSymmetry
INVARIANTS LogReadable ReadyHandleIsExact AckedSurvives AcceptedReopens RefusalJustified
PROPERTY ImplementsDurableLog
