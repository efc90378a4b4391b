CONSTANTS
  None = None
  s1 = s1
  s2 = s2
  list = list
  trigger = trigger
  Sources <- MCSources
  Children <- MCChildren
  MaxRetryCount = 128
SPECIFICATION Spec
INVARIANTS
  TypeOK
  LiveSourceIsOwned
  SwappedOnce
  DotTellsTheTruth
  EndedStaysEnded
PROPERTIES
  Reconnects
  DetachedIsClosed
CHECK_DEADLOCK FALSE
