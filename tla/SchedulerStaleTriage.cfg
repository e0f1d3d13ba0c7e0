SPECIFICATION Spec
CONSTANTS
  Issues = {i1}
  Roles = {r1}
  Workers = {w1, w2}
  MaxVersion = 2
  MaxCycles = 2
  MaxRuns = 1
  MaxTime = 0
  Faults = {"crash", "edit"}
INVARIANTS TriagedAsRead
SYMMETRY Symmetry
CHECK_DEADLOCK FALSE
