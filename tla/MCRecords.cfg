SPECIFICATION FairSpec
CONSTANTS
  k1 = k1  k2 = k2  k3 = k3
  u1 = u1  u2 = u2
  s1 = s1  c1 = c1  c2 = c2  r1 = r1  r2 = r2
  g1 = g1  g2 = g2
  None = None
  Registrations = {g1, g2}
  Keys = {k1, k2, k3}
  Users = {u1, u2}
  Slots = {s1}
  Checklists = {c1, c2}
  Reports = {r1, r2}
  Drafts = {c1}
  Subscribers = {u1, u2}
  MaxTries = 2
  Mortal = {k1}
  Chunk = 1
  Wants <- MCWants
  Actor <- MCActor
  Sends <- MCSends
  Projects <- MCProjects
  Existing <- MCExisting
  Spelled <- MCSpelled
  Watchers <- MCWatchers
  Earlier <- MCEarlier
  Rank <- MCRank
  Matches <- MCMatches
INVARIANTS
  TypeOK
  NoDoubleBooking
  SubmissionIsWhole
  UnreadIsExact
  NothingPointsToTheDeleted
  RegisteredOnce
  LinkAndDeleteNeverDeadlock
  NoMeansNo
PROPERTIES
  DecisionsStand
  EveryRequestEnds
CHECK_DEADLOCK FALSE
