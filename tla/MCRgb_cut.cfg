SPECIFICATION HistorySpec
CONSTANTS
  Width = 5
  Height = 5
  Pitch = 6
  CharW = 2
  CharH = 2
  Char = {"a", "b", "space"}
  Glyph <- MCGlyph
  Bpp = 24
  UintMod = 12
INVARIANT TypeOK
INVARIANT MarginBlank
INVARIANT StripBlank
