SPECIFICATION Spec
CONSTANTS
  None = None
  Procs = {1}
  MaxRev = 2
  MaxRounds = 1
  MaxFollowups = 3
  PromptLimit = 1
  Comments = 0
  Commands = 0
  Faults = 0
INVARIANTS CompletedVerified
CHECK_DEADLOCK FALSE
