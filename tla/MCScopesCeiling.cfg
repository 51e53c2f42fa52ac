SPECIFICATION Spec
CONSTANTS
  r1 = r1  r2 = r2  r3 = r3  r4 = r4
  Scopes = {r1, r2, r3, r4}
  Wanted <- MCTurned
  Allowed = {r1, r2, r3}
  InitialLimit = 1
  Batch = 1
  Cap = 1
  MaxStreams = 2
  MaxChanges = 2
  MaxEvents = 1
  MaxFaults = 2
INVARIANTS
  CeilingHolds
CHECK_DEADLOCK FALSE
