SPECIFICATION FairSpec
CONSTANTS
  Firmware <- MCFirmware
  NULL = NULL
  MadtHeader = 2
  IntMod = 6
INVARIANT TypeOK
INVARIANT ChosenAreFirst
INVARIANT UsedAreListed
INVARIANT CoresCounted
INVARIANT EndTellsComplete
PROPERTY LoopsRunDown
PROPERTY CompleteIsDone
CHECK_DEADLOCK FALSE
