CONSTANTS
  MemTypes = {0, 1}
  FaultyHosts = {FALSE}
SPECIFICATION Spec
INVARIANTS
  RepicksType
CHECK_DEADLOCK FALSE
