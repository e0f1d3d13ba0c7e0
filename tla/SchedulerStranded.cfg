SPECIFICATION Spec
CONSTANTS
  Issues = {i1}
  Roles = {r1}
  Workers = {w1, w2}
  MaxVersion = 1
  MaxCycles = 2
  MaxRuns = 4
  MaxTime = 2
  Faults = {"crash", "error", "pause"}
INVARIANTS InProgressWatched
SYMMETRY Symmetry
CHECK_DEADLOCK FALSE
