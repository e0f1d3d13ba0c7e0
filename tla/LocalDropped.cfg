SPECIFICATION MCSpec
CONSTANTS
  Procs = {p1, p2}
  None = None
  Detached = {p1}
  Launched = {p1}
  MaxIter = 2
  MaxRounds = 1
  MaxFollowups = 1
  Managed = TRUE
  Policy = "wait"
  Events = 3
  Findings = {f1, f2}
  Files = {n1, n2}
  LastRound = 1
  Attempts = 2
  Parallelism = 2
  Crashes = 1
INVARIANTS CompletedIsTrue
CHECK_DEADLOCK FALSE
