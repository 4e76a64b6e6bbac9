SPECIFICATION Spec
CONSTANTS
  Images <- MCImages
  Limits <- MCLimits
  Numbers <- MCNumbers
  MaxNumber = 15
  InodesPerChunk = 2
  MaxDepth = 4
  HeaderSizeV2 = 1
  HeaderSizeV3 = 2
  ShiftUnit = 1
  DeviceSize = 3
  Word = 16
  Second = 10
  MaxInt = 127
INVARIANTS FoundIsRecorded NoneIsMissed FileFollowsVolume InodeInItsPlace ForksApart TimesMeant
