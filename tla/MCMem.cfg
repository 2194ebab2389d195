SPECIFICATION FairSpec
CONSTANTS
  MemSize = 4
  ByteMod = 2
  FillArgs <- MCFillArgs
INVARIANT TypeOK
INVARIANT PartialEffect
PROPERTY ImplementsApi
PROPERTY EveryCallReturns
