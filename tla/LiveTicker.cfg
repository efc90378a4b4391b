CONSTANTS
  None = None
  c1 = c1
  c2 = c2
  Clients <- MCClients
  ClientQueueCapacity = 1
  RecentEventCapacity = 1
  MaxRows = 2
  MaxEvents = 2
SPECIFICATION Spec
INVARIANTS
  TypeOK
  StoppedIsUnsubscribed
  NewestFirst
  NewestNeverDropped
PROPERTIES
  ImplementsLossyFeed
  PageCatchesUp
  GoneIsForgotten
  HubSubscribes
CHECK_DEADLOCK FALSE
