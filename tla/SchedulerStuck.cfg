SPECIFICATION Spec
CONSTANTS
  Issues = {i1}
  Roles = {}
  Workers = {w1, w2}
  MaxVersion = 1
  MaxCycles = 3
  MaxRuns = 1
  MaxTime = 0
  Faults = {}
INVARIANTS ReconcilingWatched
SYMMETRY Symmetry
CHECK_DEADLOCK FALSE
