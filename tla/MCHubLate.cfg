SPECIFICATION Spec
CONSTANTS
  s1 = s1
  s2 = s2
  a = a
  b = b
  Streams <- MCStreams
  Channels <- MCChannels
  Routes <- MCRoutes
  MaxQueue = 1
  MaxEvents = 1
  MaxOutages = 1
  MaxRefusals = 0
  MaxLate = 1
INVARIANTS
  NothingPublishedIsMissed
CHECK_DEADLOCK FALSE
