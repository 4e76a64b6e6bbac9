SPECIFICATION BlockFairSpec
CONSTANTS
  Layouts <- MCLayouts
  Ends <- MCEnds
  PhantomEntries = {8, 16}
  PhantomRuns = {0, 3, 8}
  Align = 4
  TagSize = 2
  Overhead = 6
  AnomalyBudget = 2
INVARIANTS GapsAreNoted DetectedDamageIsLocal EntriesApart RemnantsAreCarved
PROPERTIES ParseReturns
