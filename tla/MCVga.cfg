SPECIFICATION HistorySpec
CONSTANTS
  VGA_MAX_COLS = 2
  VGA_MAX_ROWS = 3
  a = a
  b = b
  space = space
  Char <- MCChar
INVARIANT TypeOK
INVARIANT HwCursorNotBehind
PROPERTY ImplementsScreen
PROPERTY BackspaceUnprints
