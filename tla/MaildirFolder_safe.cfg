SPECIFICATION RecheckedSpec
CONSTANTS
  Sessions = {s1, s2}
  Msgs = {m1}
  Folders = {"INBOX", "Trash"}
  Inbox = "INBOX"
  Trash = "Trash"
  Emptied = {"Trash"}
  None = None
  Ops = {"list", "read", "delete", "move", "empty", "login"}
  Expire = 1
  MaxTime = 2
  MaxOps = 3
SYMMETRY MCSymmetry
INVARIANTS
  TypeOK
  NoLoss
  MoveIsExact
  SettledCountIsExact
PROPERTIES
  PurgeIsDue
CHECK_DEADLOCK FALSE
