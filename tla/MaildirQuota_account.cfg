SPECIFICATION Spec
CONSTANTS
  Procs = {p1, p2}
  m1 = m1
  m2 = m2
  m3 = m3
  Msgs = {m1, m2}
  Size <- MCTwoSizes
  Folders <- MCTwoFolders
  Inodes = {i1, i2, i3}
  DevNull = DevNull
  None = None
  Ops = {"pipe", "save", "warn", "delete", "move", "set"}
  Quotas <- MCQuotas
  MaxTries = 2
  MaxLines = 2
  Recheck = 1
  MaxTime = 1
  MaxOps = 2
SYMMETRY MCSymmetries
INVARIANTS
  TypeOK
  Ledger
  QuietRecountIsExact
  RefusalRestsOnRecentCount
CHECK_DEADLOCK FALSE
