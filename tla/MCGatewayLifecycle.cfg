SPECIFICATION FairSpec
CONSTANTS
  NoId = NoId
  Ids = {i1}
  Capacity = 1
  Destroys = {d1,d2}
  Streams = {s1}
  Commands = {u1,u2}
INVARIANTS
  RefusalExplained
  LeaksExplained
  OneConnection
PROPERTIES CommandsAnswered
CHECK_DEADLOCK FALSE
