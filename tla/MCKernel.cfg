SPECIFICATION FairSpec
CONSTANTS
  Firmware <- MCFirmware
  NULL = NULL
  MadtHeader = 2
  IntMod = 6
  BootInfos <- MCBootInfos
  DescSize = 2
  Cols = 3
  Rows = 12
  RowMod = 64
  Width <- MCWidth
  FirmwareScreen <- MCFirmwareScreen
INVARIANT TypeOK
INVARIANT LogIsBootLog
INVARIANT ReadsInsideMap
INVARIANT ScreenShowsLog
PROPERTY BootCompletes
CHECK_DEADLOCK FALSE
