SPECIFICATION Spec
CONSTANTS
  n1 = n1
  n2 = n2
  a = a
  b = b
  Nodes <- OneNode
  Tabs <- TwoTabs
  Guests <- OneGuest
  MaxVisits = 1
  MaxLates = 0
  MaxCalls = 1
CHECK_DEADLOCK FALSE
INVARIANTS SilentTabsVanish
