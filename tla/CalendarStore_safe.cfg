SPECIFICATION Spec
CONSTANTS
  Procs = {p1, p2}
  None = None
  Events = {e1, e2, e3}
  MaxSlot = 2
  Times = {{1}, {2}}
  Ops = {"book", "commit", "cancel", "uncancel", "delete", "cleanup", "destroy"}
  MaxOps = 4
SYMMETRY Sym
INVARIANTS
  TypeOK
  NoDoubleBooking
  LinesHaveFiles
  CommittedStays
CHECK_DEADLOCK FALSE
