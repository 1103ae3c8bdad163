CONSTANTS
  Dword = {1, 2, 3}
  Zero = 0
  Batch <- MCBatch
  BufSize = 4
  CursorMod = 16
  MaxStream = 11
  HostMayStall = TRUE
SPECIFICATION FairRingSpec
INVARIANTS
  UnreadIntact
  RingInv
  ReachedMeansRead
PROPERTIES
  ImplementsQueue
  BatchEnds
  Delivered
CHECK_DEADLOCK FALSE
