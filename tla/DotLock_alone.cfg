SPECIFICATION LockSpec
CONSTANTS
  Procs = {p1, p2, p3}
  Hosts = {h1, h2}
  None = None
  MaxTries = 2
  MaxStamp = 2
SYMMETRY Sym
INVARIANTS
  Exclusive
PROPERTY
  ImplementsMutex
CHECK_DEADLOCK FALSE
