SPECIFICATION Spec
CONSTANTS
  Width = 16
  FetchX = 32
  Border = 1
  LinePixels = 49
  Shown = 3
  VgaLines = 9
  Sprites = 4
  Slots = 2
  Rows = 2
  ChrByte <- Chr
  CiramByte <- Ciram
  Vertical = TRUE
  Scenes <- AllScenes
  MaxAccesses = 2
INVARIANTS ShowsPlayfield ShowsSprites OverflowTells HitTells BlankWithoutFetches BlankToldOnce
