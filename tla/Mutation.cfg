SPECIFICATION FairSpec
CONSTANTS
  NumWorkers = 2
  NumMutants = 3
  Truths <- MCTruths
  Suites <- MCSuites
  SuiteOf <- MCSuiteOf
INVARIANTS
  TypeOK
  VerdictIsOwn
  RootCause
  StagesInOrder
  ExitIsConclusive
PROPERTIES
  CampaignEnds
