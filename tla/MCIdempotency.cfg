SPECIFICATION Spec
CONSTANTS
  r1 = r1
  r2 = r2
  r3 = r3
  Requests = {r1, r2, r3}
  Hash <- MixedHash
  NoBatch = NoBatch
  MaxGen = 2
SYMMETRY Alike
INVARIANTS
  OneCurrentResult
  
PROPERTIES
  OnlyOwnerCommits
CHECK_DEADLOCK FALSE
