SPECIFICATION MCSpec
CONSTANTS
  Requests = {r1, r2}
  Msgs = {1, 2}
  Inodes = {1, 2, 3}
  None = None
  Ops = {"folder", "readmsg", "fetch", "preview", "attach", "delmsg", "folderdel"}
  Preferred = {"newest"}
  MaxTime = 1
  MaxOps = 3
SYMMETRY MCSymmetry
INVARIANTS
  TypeOK
  CurrentIndexIsRight
  PageIsFresh
  ShowsWhatItNames
CHECK_DEADLOCK FALSE
