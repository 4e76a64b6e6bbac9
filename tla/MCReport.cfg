SPECIFICATION FairSpec
CONSTANTS
  Volumes <- MCVolumes
  Modes = {"strict", "best_effort"}
  Caps = {0, 2}
  RootPaths = {"/", "sub"}
INVARIANTS EachInodeOnce WalkComplete EveryFindingKept
PROPERTIES ReportReturns
