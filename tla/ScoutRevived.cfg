SPECIFICATION Spec
CONSTANTS
  None = None
  MaxRuns = 1
  Commands = 1
  Faults = 0
PROPERTIES PurgedIsGone
CHECK_DEADLOCK FALSE
