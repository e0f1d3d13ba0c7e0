SPECIFICATION Spec
CONSTANTS
  Procs = {a, b, c}
  NoProc = NoProc
  Faults = {"crash", "io"}
INVARIANTS TypeOK MutualExclusion Recorded
PROPERTIES ImplementsRWLock
SYMMETRY Symmetry
