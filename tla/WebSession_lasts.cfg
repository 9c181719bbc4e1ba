SPECIFICATION Spec
CONSTANTS
  Requests = {r1, r2}
  Browsers = {b1, b2}
  Ips = {home, work}
  Anywhere = Anywhere
  None = None
  TimeoutSoft = 0
  TimeoutHard = 1
  MaxTime = 2
  MaxTokens = 2
  MaxOps = 4
SYMMETRY MCSymmetry
INVARIANTS
  LogoutIsFinal
  SessionLasts
  CookieFindsCache
CHECK_DEADLOCK FALSE
