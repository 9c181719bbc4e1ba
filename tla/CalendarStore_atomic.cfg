SPECIFICATION Spec
CONSTANTS
  Procs = {p1, p2}
  None = None
  Events = {e1, e2, e3}
  MaxSlot = 2
  Times = {{1}, {2}}
  Ops = {"book", "commit", "cancel", "uncancel", "delete", "cleanup", "destroy"}
  MaxOps = 3
SYMMETRY Sym
PROPERTY
  ImplementsCalendar
CHECK_DEADLOCK FALSE
