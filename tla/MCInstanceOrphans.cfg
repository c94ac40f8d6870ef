SPECIFICATION Spec
CONSTANTS
  Creates = {c1, c2}
  Sweeps = {d1}
  MaxInstances = 1
SYMMETRY Symmetry
INVARIANTS
  LiveWorkersBounded
CHECK_DEADLOCK FALSE
