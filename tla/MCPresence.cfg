SPECIFICATION FairSpec
CONSTANTS
  n1 = n1
  n2 = n2
  a = a
  b = b
  Nodes <- OneNode
  Tabs <- TwoTabs
  Guests <- OneGuest
  MaxVisits = 1
  MaxLates = 1
  MaxCalls = 2
INVARIANTS
  ChangesArePublished
PROPERTIES
  StoreSettles
CHECK_DEADLOCK FALSE
