SPECIFICATION Spec
CONSTANTS
  Owners = {o1, o2}
  Requests = {r1, r2}
  Messages = {m1}
  Cursors = {c1}
  None = None
  Execs = {e1}
  MaxEvents = 4
  MaxRecords = 2
  Faults = {}
INVARIANTS ViewsAgree ReplayMatchesDisk
SYMMETRY Symmetry
CHECK_DEADLOCK FALSE
