SPECIFICATION FairSpec
CONSTANTS
  w1 = w1
  w2 = w2
  v1 = v1
  v2 = v2
  NoVendor = NoVendor
  Workers = {w1, w2}
  Registry <- TwoVendors
  RetryLimit = 1
  DelayedLimit = 2
  PhoneCount = 2
  MaxGen = 2
  Legacy = TRUE
INVARIANTS
  AtMostOnce
PROPERTIES
  ImplementsContract
  AbandonedIsClosed
CHECK_DEADLOCK FALSE
