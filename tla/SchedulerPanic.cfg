SPECIFICATION Spec
CONSTANTS
  Issues = {i1}
  Roles = {r1, r2}
  Workers = {w1, w2}
  MaxVersion = 1
  MaxCycles = 1
  MaxRuns = 1
  MaxTime = 0
  Faults = {"github"}
INVARIANTS NeverPanics
SYMMETRY Symmetry
CHECK_DEADLOCK FALSE
