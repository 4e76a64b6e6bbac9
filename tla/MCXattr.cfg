SPECIFICATION XattrSpec
CONSTANTS
  Forks <- MCForks
  BlockSize = 3
  BlockHeaderSize = 1
  BlockModulus = 5
  MaxNodeDepth = 2
INVARIANTS WholeOrError
