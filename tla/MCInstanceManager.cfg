SPECIFICATION FairSpec
CONSTANTS
  Creates = {c1, c2}
  Sweeps = {d1}
  MaxInstances = 1
INVARIANTS
  TypeOK
  CapacityBound
  ReservationAccounting
  ListedWorkerManaged
  OrphansComeFromFailedCreates
PROPERTIES
  NoResurrection
  ImplementsPool
  CallsEnd
CHECK_DEADLOCK FALSE
