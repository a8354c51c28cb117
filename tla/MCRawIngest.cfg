SPECIFICATION FairSpec
CONSTANTS
  p1 = p1
  p2 = p2
  sys = sys
  ops = ops
  None = None
  Pollers = {p1, p2}
  System = {sys}
  Humans = {ops}
  Items = {1, 2}
  MaxAttempts = 2
  MaxRows = 4
  MaxEvents = 2

  
PROPERTIES
  ProcessedIsEarned
  Settles
CHECK_DEADLOCK FALSE
