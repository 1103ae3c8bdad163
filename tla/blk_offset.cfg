CONSTANTS
  ByteBase = 3
  WordBase = 3
  RegionStart = 1
  RegionPages = 5
  Unmapped <- OneBar
  Jobs <- BlkOnly
  QueuePages = 2
  BlkTargets <- Targets
  RngValues <- Values
  RngHits <- Hits
SPECIFICATION Spec
INVARIANT
  OffByOneCaught
