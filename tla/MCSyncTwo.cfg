SPECIFICATION Spec
CONSTANTS
  p1 = p1
  p2 = p2
  Projects <- MCProjects
  Shown <- TwoShown
  First <- MCFirst
  MaxReplay = 2
  SyncLimit = 2
  PageSize = 2
  MaxDrops = 1
  MaxFailures = 1
INVARIANTS
  TypeOK
  CopyIsExact
PROPERTIES
  NeverBackwards
  RemovedOnlyIfGone
  NoHeldRowFallsBehind
CHECK_DEADLOCK FALSE
