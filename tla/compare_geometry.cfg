CONSTANTS
  W = 6
  H = 4
  Triangles <- AllTriangles
  Palette <- Blank
  Fill <- Flat
  BG <- Background
  Shadings <- Textured
  EdgeTol = 1
  ColourTol = 1
SPECIFICATION Spec
INVARIANTS
  WindingIrrelevant
  BlendStaysInRange
  NoCrack
  BandHugsEdge
CHECK_DEADLOCK FALSE
