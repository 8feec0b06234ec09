CONSTANTS
  Colour = {1, 2, 3}
  TileArea = 6
  PixelBytes = {1, 4}
  MaxPalette = 3
  MaxPacked = 2
  LongRun = 2
SPECIFICATION Spec
INVARIANT TilesArrive
