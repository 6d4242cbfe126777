SPECIFICATION ChainSpec
CONSTANTS
  Goroutines = {"c1", "c2"}
  Batches <- MCBatches
  Resets = {"c1"}
  MaxClosers = 2
INVARIANTS
  RetriesEnd
  
  StatsKept
