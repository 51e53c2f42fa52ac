SPECIFICATION FairSpec
CONSTANTS
  k1 = k1
  k2 = k2
  k3 = k3
  Keys = {k1, k2, k3}
  Wants <- MCWants
  Admins = {k3}
  Projects = {1, 2, 3}
  Existing = {1}
  Fields = {"f", "g"}
  Values = {"x", "y"}
  Default = "x"
  NoKey = NoKey
  ConflictWindow = 1
  MaxAttempts = 2
  MaxFaults = 2
INVARIANTS
  TypeOK
  RowIsReplay
  ExactlyOnce
  NoLostUpdate
  AnswersHold
  DisjointIsHonest
PROPERTIES
  EveryActionEnds
  ImplementsStore
CHECK_DEADLOCK FALSE
