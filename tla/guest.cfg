CONSTANTS
  ByteBase = 3
  WordBase = 3
  RegionStart = 1
  RegionPages = 5
  Unmapped <- OneBar
  Jobs <- AllJobs
  QueuePages = 2
  BlkTargets <- Targets
  RngValues <- Values
  RngHits <- Hits
SPECIFICATION Spec
INVARIANTS
  AccessExact
  PassMeans
PROPERTIES
  HealthyPasses
