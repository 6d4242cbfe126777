SPECIFICATION ChainSpec
CONSTANTS
  Goroutines = {"c1"}
  Batches <- MCReturns
  Resets = {}
  MaxClosers = 2
INVARIANT
  HarmlessReturnsPass
