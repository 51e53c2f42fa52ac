SPECIFICATION FairSpec
CONSTANTS
  r1 = r1  r2 = r2  r3 = r3  r4 = r4
  Scopes = {r1, r2, r3, r4}
  Wanted <- MCWanted
  Allowed = {r1, r2, r3}
  InitialLimit = 1
  Batch = 2
  Cap = 2
  MaxStreams = 2
  MaxChanges = 1
  MaxEvents = 1
  MaxFaults = 1
PROPERTIES
  ReconcileEnds
CHECK_DEADLOCK FALSE
