SPECIFICATION FairSpec
CONSTANTS
  Procs = {a, b}
  NoProc = NoProc
  Faults = {"crash", "lapse", "torn", "swap"}
INVARIANTS NoResidue
PROPERTIES AcquireReturns StaleRecovered
