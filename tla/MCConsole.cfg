SPECIFICATION FairSpec
CONSTANTS
  IntBits = 5
  Calls <- MCCalls
  Strings <- MCStrings
  NUL = NUL
INVARIANT TypeOK
INVARIANT NeverPaintsAtNull
INVARIANT FormattedAsWritten
INVARIANT StaysInFormat
PROPERTY EveryCallReturns
CHECK_DEADLOCK FALSE
