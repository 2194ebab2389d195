SPECIFICATION FairSpec
CONSTANTS
  Devices = {1, 8, 9}
  Irqs = {1, 2, 8, 16}
  Offsets <- MCOffsets
  FirmwareMasks <- MCMasks
INVARIANT TypeOK
INVARIANT MasksAsAsked
INVARIANT ServiceEnds
PROPERTY HalvesWereTrue
PROPERTY MaskedOnlyInWindow
PROPERTY NoStaleVector
PROPERTY PriorityAloneDelays
