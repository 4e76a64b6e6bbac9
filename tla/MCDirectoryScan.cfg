SPECIFICATION Spec
CONSTANTS
  Sizes = {0, 2, 3, 4, 7, 9, 15}
  DirectoryBlockSize = 2
  DataSpace = 6
  Capacity = 5
  BlockLimits = {0, 1, 3}
  EntryLimits <- MCEntryLimits
  DefaultMaxBlocks = 2
  DefaultMaxEntries = 2
  MaxRecords = 2
  MaxInt = 7
INVARIANTS DamageCostsItselfOnly EveryLossNoted TruncatedMeansCut NilIsWhole
