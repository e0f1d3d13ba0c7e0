SPECIFICATION Spec
CONSTANTS
  Owners = {o1, o2}
  Requests = {r1}
  Messages = {}
  Cursors = {}
  None = None
  Execs = {e1}
  MaxEvents = 3
  MaxRecords = 1
  Faults = {"crash", "short"}
INVARIANTS GrantHonoured SoleOwner
PROPERTIES DispatchesAdvance
SYMMETRY Symmetry
CHECK_DEADLOCK FALSE
