SPECIFICATION FairSpec
CONSTANTS
  Issues = {i1}
  Roles = {}
  Workers = {w1, w2}
  MaxVersion = 2
  MaxCycles = 3
  MaxRuns = 2
  MaxTime = 1
  Faults = {"crash", "error", "pause", "github", "edit"}
INVARIANTS InProgressWatched TriageSettled
PROPERTIES CycleEnds
CHECK_DEADLOCK FALSE
