SPECIFICATION FairSpec
CONSTANTS
  Procs <- MCProcs
  Child = "child"
  Group <- MCGroup
  NumCommands = 2
  AllowedSets <- MCAllowed
  Codes <- MCCodes
  MaxBytes = 2
  Capacity = 1
INVARIANTS
  TypeOK
  AcceptedIsComplete
  NothingRunsOn
  EvidenceIsRetained
PROPERTIES
  EveryCommandReturns
