SPECIFICATION Spec
CONSTANTS
  Paths <- MCPaths
  Fs <- MCFs
  ConfigAt <- MCConfigAt
  Versions <- MCVersions
  ArgSets <- MCArgSets
  Rank <- MCRank
  MaxEdits = 2
INVARIANTS
  TypeOK
  StatusMatchesReport
  OneConfigVersion
  ReportIsContracted
