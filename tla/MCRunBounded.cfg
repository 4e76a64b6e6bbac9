CONSTANTS
  TaskCounts = {0, 1, 2, 3}
  Settings <- MCSettings
  NumCPU = 4
  MaxAutomaticWorkers = 3
SPECIFICATION FairSpec
INVARIANTS NoneOutlives
PROPERTIES ImplementsParallelFor Terminates
