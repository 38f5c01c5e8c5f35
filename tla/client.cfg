SPECIFICATION FairSpec
CONSTANTS
  OutgoingCapacity = 1
  EventsCapacity = 1
  BackoffSteps = 3
  MaxSends = 3
  MaxConnections = 2
  MaxInbound = 2
INVARIANTS
  TypeOK
  WireIsFaithful
  EventsStayInOrder
PROPERTIES
  TaskIsLive
CHECK_DEADLOCK FALSE
