SPECIFICATION ReportFairSpec
CONSTANTS
  m1 = m1
  m2 = m2
  m3 = m3
  c1 = c1
  c2 = c2
  Messages = {m1, m2, m3}
  Chunks = {c1, c2}
  ChunkOf <- MCChunkOf
  Events <- MCReports
  Drifted = {m3}
  Sweepers = {s1, s2}
  SweepLimit = 1
  MaxFaults = 2
  Null = null
INVARIANTS
  BestReportDecides
  BatchIsExact
PROPERTIES
  EndsStay
  SentSettles
CHECK_DEADLOCK FALSE
