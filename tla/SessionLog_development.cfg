SPECIFICATION Spec
CONSTANTS
  Writers = {w1, w2}
  Strict = FALSE
  RenameDurable = FALSE
  MaxCommits = 3
SYMMETRY WriterSymmetry
INVARIANT LogReadable
PROPERTY OnlyPowerLossForgets
