SPECIFICATION MCSpec
CONSTANTS
  Procs = {1, 2}
  None = None
  Kinds = {"github", "unrouted", "routed"}
  AutoSubmit = TRUE
  Commands = 2
  Faults = 1
  MaxRuns = 2
  ScoutFaults = 2
  MaxRev = 2
  MaxRounds = 1
  MaxFollowups = 2
  PromptLimit = 1
  Comments = 2
  GithubCommands = 4
  Ids = {1, 2}
  Users = {u1, u2}
  Workers = 2
  Events = 4
INVARIANTS ItemTold LaunchedOnce NoStrays PublishedAsVerified FeedbackKept
PROPERTIES Settles
CHECK_DEADLOCK FALSE
