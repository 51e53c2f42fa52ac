SPECIFICATION FairSpec
CONSTANTS
  p1 = p1
  p2 = p2
  Projects <- MCProjects
  Shown <- LiveShown
  First <- LiveFirst
  MaxReplay = 1
  SyncLimit = 2
  PageSize = 2
  MaxDrops = 1
  MaxFailures = 1
PROPERTIES
  EveryProjectAppears
CHECK_DEADLOCK FALSE
