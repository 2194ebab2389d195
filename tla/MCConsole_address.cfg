SPECIFICATION FairSpec
CONSTANTS
  IntBits = 5
  Calls <- MCCalls
  Strings <- MCStrings
  NUL = NUL
INVARIANT WholeAddressIsShown
CHECK_DEADLOCK FALSE
