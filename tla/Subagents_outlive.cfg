SPECIFICATION SpecGate
CONSTANTS
  Agents = {a1, a2}
  MaxConcurrent = 2
  MaxTotal = 2
  MaxFaults = 0
  MaxCrashes = 0
INVARIANT EditsKept
