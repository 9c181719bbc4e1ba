SPECIFICATION MCFairSpec
CONSTANTS
  MaxCmds = 3
  MaxEdits = 2
  MaxCrashes = 1
  MaxPool = 2
  BadConfigs = {1}
  Daemons <- MCDaemons
  Modules = 2
  Reqs = {r1}
  None = None
INVARIANTS
  TypeOK
  PoolIsWhole
  DaemonIsReachable
  StopMeansStopped
  HeardRestartIsInForce
  AnswersAreGenuine
PROPERTIES
  StartIsHonest
  CommandsEnd
  PoolComesBack
CHECK_DEADLOCK FALSE
