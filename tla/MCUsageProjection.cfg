SPECIFICATION ProjFairSpec
CONSTANTS
  Procs = {rec, p1, p2}
  Reconciler = rec
  DimKeys = {d1, d2}
  Values = {0, 1}
  MaxWrites = 2
  MaxFaults = 1
  None = none

  
PROPERTIES
  PublishCovers
  Converges
CHECK_DEADLOCK FALSE
