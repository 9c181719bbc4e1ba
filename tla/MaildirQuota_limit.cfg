SPECIFICATION LimitedSpec
CONSTANTS
  Procs = {p1, p2}
  m1 = m1
  m2 = m2
  m3 = m3
  Msgs = {m1, m2, m3}
  Size <- MCEqualSizes
  Folders <- MCInbox
  Inodes = {i1, i2, i3}
  DevNull = DevNull
  None = None
  Ops = {"deliver", "delete", "recalculate", "save"}
  Quotas <- MCBothQuotas
  MaxTries = 2
  MaxLines = 1
  Recheck = 1
  MaxTime = 1
  MaxOps = 3
INVARIANTS
  BoundedOvershoot
  FileStaysShort
PROPERTIES
  OperationsEnd
CHECK_DEADLOCK FALSE
