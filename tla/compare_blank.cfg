CONSTANTS
  W = 16
  H = 16
  Triangles <- OnlyFixture
  Palette <- Blank
  Fill <- Flat
  BG <- Background
  Shadings <- OnlyDraw
  EdgeTol = 1
  ColourTol = 2
SPECIFICATION Spec
INVARIANTS
  PassShowsFill
CHECK_DEADLOCK FALSE
