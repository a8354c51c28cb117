SPECIFICATION FairSpec
CONSTANTS
  t1 = t1
  w1 = w1
  w2 = w2
  NoTask = NoTask
  Tasks = {t1}
  Workers = {w1, w2}
  Items = {1, 2}
  Confs = {1, 2}
  MaxRetry = 1
  MaxFaults = 1
  MaxManual = 1
INVARIANTS
  PostAuthorized
  EndsAreEarned
PROPERTIES
  Settles
CHECK_DEADLOCK FALSE
