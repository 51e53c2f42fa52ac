SPECIFICATION Spec
CONSTANTS
  p1 = p1
  p2 = p2
  Projects <- OneProject
  Shown <- MovedShown
  First <- MovedFirst
  MaxReplay = 2
  SyncLimit = 1
  PageSize = 2
  MaxDrops = 1
  MaxFailures = 0
INVARIANTS
  CopiesAreInView
CHECK_DEADLOCK FALSE
