SPECIFICATION Spec
CONSTANTS
  s1 = s1
  s2 = s2
  a = a
  b = b
  Streams <- MCStreams
  Channels <- MCChannels
  Routes <- MCRoutes
  MaxQueue = 1
  MaxEvents = 2
  MaxOutages = 1
  MaxRefusals = 1
  MaxLate = 1
SYMMETRY Symmetry
INVARIANTS
  TypeOK
  BarrierHolds
  SubscriptionsFollowInterest
  StreamFollowsFeed
CHECK_DEADLOCK FALSE
