CONSTANTS
  Modes = {"gl0", "gl1", "gl2", "ring", "clear"}
  ServerVersions = {1, 2, 3, 4}
  CapsetDwords = {0, 2}
  ServerMayDie = TRUE
SPECIFICATION FairSpec
INVARIANTS
  SessionInv
  InSync
  NeverRefused
  HonestRoundTrip
  NoLeak
PROPERTIES
  SessionEnds
CHECK_DEADLOCK FALSE
