SPECIFICATION FairSpec
CONSTANTS
  Period = 2
  Tries = 2
  Buffer = 2
  Drawn = {2, 4}
  Oversized = {4}
  MaxFrames = 4
  MaxNow = 7
INVARIANTS
  PaceKept
  PicturesInOrder
  FrozenExplained
PROPERTIES
  PictureArrives
CHECK_DEADLOCK FALSE
