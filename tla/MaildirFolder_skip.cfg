SPECIFICATION FaultFree
CONSTANTS
  Sessions = {s1, s2}
  Msgs = {m1}
  Folders = {"INBOX", "Trash"}
  Inbox = "INBOX"
  Trash = "Trash"
  Emptied = {"Trash"}
  None = None
  Ops = {"list", "delete"}
  Expire = 0
  MaxTime = 2
  MaxOps = 4
SYMMETRY MCSymmetry
INVARIANTS
  SkipIsSafe
CHECK_DEADLOCK FALSE
