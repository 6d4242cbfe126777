SPECIFICATION Spec
CONSTANTS
  Paths <- MCPaths
  Fs <- MCFs
  ConfigAt <- MCConfigAt
  Versions <- MCVersions
  ArgSets <- TwiceArgSets
  Rank <- MCRank
  MaxEdits = 0
INVARIANTS
  UnusedMeansUnused
