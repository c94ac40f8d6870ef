SPECIFICATION Spec
CONSTANTS
  None = None
  MaxId = 1
  Page = {p1}
  Stream = {s1}
  Tiles = {t1}
  Colours = {0}
  Interval = 2
  CountMod = 5
  MaxFrames = 2
  Ids <- MCIds
  Viewers <- MCViewers
  Dashboards <- Page
  Home <- MCHome
INVARIANTS
  TileShowsItsInstance
CHECK_DEADLOCK FALSE
