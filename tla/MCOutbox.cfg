SPECIFICATION FairSpec
CONSTANTS
  e1 = e1
  d1 = d1
  d2 = d2
  w1 = w1
  w2 = w2
  Events = {e1}
  Dispatchers = {d1, d2}
  Executors = {w1, w2}
  NoOne = NoOne
  NoEvent = NoEvent
  EventType <- MCEventType
  MaxAttempts <- MCMaxAttempts
  MaxRearms = 1
  MaxDefers = 1
INVARIANTS
  LeaseProtects
PROPERTIES
  ImplementsContract
  Settles
CHECK_DEADLOCK FALSE
