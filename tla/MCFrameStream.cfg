SPECIFICATION FairSpec
CONSTANTS
  None = None
  MaxId = 0
  Page = {p1}
  Stream = {s1}
  Tiles = {t1}
  Colours = {0, 1}
  Interval = 2
  CountMod = 2
  MaxFrames = 3
  Ids <- MCIds
  Viewers <- MCViewers
  Dashboards <- Page
  Home <- MCHome
INVARIANTS
  ScreenIsDeltaBase
  KeyframesRecur
PROPERTIES
  NeverBackwards
  NewestFrameTaken
  OrphanedStreamEnds
CHECK_DEADLOCK FALSE
