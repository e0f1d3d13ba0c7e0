SPECIFICATION MCSpec
CONSTANTS
  c1 = c1
  c2 = c2
  s1 = s1
  Clients = {c1, c2}
  Sups = {s1}
  None = None
  Self = Self
  Stale = Stale
  Home <- HomeDef
  Attempts = 2
  MaxLaunches = 2
  Procs = {p, q}
  Sources = {u}
  MaxContent = 2
  Items = {i, j}
  Cands = {c}
  Tasks = 2
  Edits = 4
  a = a
  b = b
  r = r
  Sessions = {a, b}
  Runs = {r}
  Owner <- OwnerDef
  Tokens = {1}
  Earlier <- EarlierDef
  Changes = 1
INVARIANTS OpensComplete FindingsInLine SessionsCounted
PROPERTIES ImplementsAtomicWrites NothingLingers NothingLost DismissalStands
CHECK_DEADLOCK FALSE
