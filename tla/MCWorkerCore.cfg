SPECIFICATION FairSpec
CONSTANTS
  None = None
  RomGiven = TRUE
  Conns = {k1, k2}
  Requests = {r1, r2}
  Keys = {up}
INVARIANTS
  CoreOnceInOrder
  AnswerIsItsOwn
  KeysReleased
PROPERTIES
  CommandsAnswered
  QueuedIsPerformed
CHECK_DEADLOCK FALSE
