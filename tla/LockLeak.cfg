SPECIFICATION Spec
CONSTANTS
  Procs = {a, b}
  NoProc = NoProc
  Faults = {}
INVARIANTS NoLeakedWriter
