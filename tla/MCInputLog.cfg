SPECIFICATION FairSpec
CONSTANTS
  Events = {e1, e2, e3, e4}
  Viewers = {w1}
  MaxRecent = 2
  BroadcastCapacity = 2
INVARIANTS
  LoggedOnce
  DeliversTheLog
PROPERTIES
  CatchesUp
CHECK_DEADLOCK FALSE
