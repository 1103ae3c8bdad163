CONSTANTS
  MemTypes = {0, 1}
  FaultyHosts = {TRUE, FALSE}
SPECIFICATION FairSpec
INVARIANTS
  WalkInv
  PassMeansCleared
  ReadWhenQuiet
  AllocatedTypeFits
  FaultlessPasses
PROPERTIES
  WalkEnds
CHECK_DEADLOCK FALSE
