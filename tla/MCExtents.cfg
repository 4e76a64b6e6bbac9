SPECIFICATION FairSpec
CONSTANTS
  Forks <- MCForks
  geometry <- MCGeometry
  Sizes = {0, 9, 46, 70}
  Reads <- MCReads
  Unreadable = {15}
  CountModulus = 32
  MaxInt = 63
  MaxDepth = 3
INVARIANTS WellFormed DecodedIffSound LayoutDescribed ReadsWhatIsMapped
PROPERTIES ReadReturns
