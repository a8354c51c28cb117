SPECIFICATION HostFairSpec
CONSTANTS
  MaxFaults = 2
  MaxWrites = 1
INVARIANTS
  Fenced
PROPERTIES
  
  StrayStopped
CHECK_DEADLOCK FALSE
