SPECIFICATION FairSpec
CONSTANTS
  n1 = n1
  n2 = n2
  a1 = a1
  a2 = a2
  Nodes <- MCNodes
  Aggregates <- MCAggregates
  NoNode = NoNode
  NoAggregate = NoAggregate
  Corrupt = {2}
  MaxId = 3
  Batch = 2
  MaxFaults = 2
INVARIANTS
  TypeOK
  FeedOrder
  FirstDeliveryInOrder
  StampedWasSent
PROPERTIES
  ImplementsFeed
  BacklogDrains
CHECK_DEADLOCK FALSE
