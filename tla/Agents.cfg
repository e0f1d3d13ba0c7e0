SPECIFICATION MCSpec
CONSTANTS
  Procs = {1, 2, 3}
  Sups = {s1}
  None = None
  Managed = TRUE
  Returns = FALSE
  Faults = 1
  Begins = 2
  Names = {a, b}
  Policy = "usage"
  StaleAfter = 1
  Dwell = 1
  Levels = {3, 4}
  MaxNow = 2
  Commands = 1
  MaxRounds = 2
  Troubles = 2
  Workers = {1, 2}
  Found <- FoundDef
INVARIANTS StepsRecoverable AuthFollowsState CompletedProved
PROPERTIES WarmRestart AllSettle ChoosesRoom RevisionTold
CHECK_DEADLOCK FALSE
