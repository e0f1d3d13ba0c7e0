SPECIFICATION Spec
CONSTANTS
  Procs = {a, b}
  NoProc = NoProc
  Faults = {"torn"}
INVARIANTS MutualExclusion
