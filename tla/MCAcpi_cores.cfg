SPECIFICATION FairSpec
CONSTANTS
  Firmware <- MCMadts
  NULL = NULL
  MadtHeader = 2
  IntMod = 6
INVARIANT CoresAreOfMadt
CHECK_DEADLOCK FALSE
