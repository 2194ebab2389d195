SPECIFICATION HistorySpec
CONSTANTS
  Width = 5
  Height = 6
  Pitch = 6
  CharW = 2
  CharH = 2
  Char = {"a", "b", "space"}
  Glyph <- MCGlyph
  Bpp = 32
  UintMod = 16
INVARIANT TextIsLostBelow
PROPERTY ImplementsScreen
PROPERTY BackspaceUnprints
