SPECIFICATION FairSpec
CONSTANTS
  Firmware <- MCTables
  NULL = NULL
  MadtHeader = 2
  IntMod = 6
INVARIANT PrefersAcpi20
CHECK_DEADLOCK FALSE
