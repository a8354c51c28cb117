SPECIFICATION InflightFairSpec
CONSTANTS
  r1 = r1
  r2 = r2
  R = {r1, r2}
  Limits = {2, 4}
  MaxEstimate = 2
  MaxChunks = 3
INVARIANTS
  HeldWhileLive
  OnlyStaleWritesRefused
PROPERTIES
  
  OrphansReclaimed
CHECK_DEADLOCK FALSE
