SPECIFICATION PathSpec
CONSTANTS
  Filesystems <- MCFilesystems
  RootInode = 1
  Paths <- MCPaths
  MaxDepth = 3
INVARIANTS DamageNeverMisleads ReadableNamesResolve ParentUndoesPath
