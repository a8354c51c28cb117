SPECIFICATION FairSpec
CONSTANTS
  Releases <- MCReleases
  MaxFaults = 3
INVARIANTS
  EndIsTrue
  SchemaKeepsItsData
PROPERTIES
  ForwardIsQuiet
  Settles
CHECK_DEADLOCK FALSE
