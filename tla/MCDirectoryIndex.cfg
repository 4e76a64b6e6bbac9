SPECIFICATION Spec
CONSTANTS
  Names <- MCNames
  DotNames <- MCDots
  Hash <- MCHash
  Root = 0
  Images <- MCImages
  MaxLeafBlocks = 3
INVARIANTS IndexHidesNothing ConsistentMeansAgree EveryLeafOnce ReadableUnlessDamaged
