SPECIFICATION PageFairSpec
CONSTANTS
  NoPicture = NoPicture
  Tile = 2
  Urls = 2
  MaxSent = 3
  MaxTasks = 2
  Drawings <- MCDrawings
INVARIANTS
  ScreenShowsDrawn
PROPERTIES
  PageReconnects
CHECK_DEADLOCK FALSE
