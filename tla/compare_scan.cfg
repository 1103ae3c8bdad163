CONSTANTS
  W = 4
  H = 2
  Triangles <- LowerLeft
  Palette <- FourColours
  Fill <- Flat
  BG <- Background
  Shadings <- ScanModes
  EdgeTol = 0
  ColourTol = 2
SPECIFICATION Spec
INVARIANTS
  PassIsAgreement
  CountersAddUp
CHECK_DEADLOCK FALSE
