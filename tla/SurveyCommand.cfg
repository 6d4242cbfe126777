SPECIFICATION FairSpec
CONSTANTS
  Sources <- MCSources
  Limits <- MCLimits
  Messages = {"m", "p"}
  MaxQuadraticUnits = 40
  FlagSets <- MCFlagSets
  DefaultMaxTests = 99
  NumFiles = 2
  Diagnostics = {"d1", "d2"}
INVARIANTS
  TypeOK
  ResultKeepsDefect
  LocallyMinimal
PROPERTIES
  ExitTellsTheFiles
  CommandEnds
