SPECIFICATION Spec
CONSTANTS
  p1 = p1
  p2 = p2
  Projects <- OneProject
  Shown <- OneShown
  First <- OneFirst
  MaxReplay = 1
  SyncLimit = 1
  PageSize = 2
  MaxDrops = 1
  MaxFailures = 0
INVARIANTS
  LiveMeansCaughtUp
CHECK_DEADLOCK FALSE
