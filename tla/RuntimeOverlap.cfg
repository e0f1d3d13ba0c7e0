SPECIFICATION Spec
CONSTANTS
  Owners = {o1, o2}
  Requests = {r1}
  Messages = {}
  Cursors = {}
  None = None
  Execs = {e1, e2}
  MaxEvents = 2
  MaxRecords = 1
  Faults = {"overlap"}
INVARIANTS SoleOwner
SYMMETRY Symmetry
CHECK_DEADLOCK FALSE
