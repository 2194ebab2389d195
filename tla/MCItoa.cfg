SPECIFICATION ItoaSpec
CONSTANTS
  IntBits = 6
  Values <- MCValues
  Bases <- MCBases
INVARIANT ItoaTypeOK
INVARIANT ReturnsNumeral
CHECK_DEADLOCK FALSE
