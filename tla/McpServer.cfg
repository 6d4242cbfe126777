SPECIFICATION FairSpec
CONSTANTS
  Inputs <- MCInputs
  MaxFrames = 3
  MaxFiles = 2
INVARIANTS
  TypeOK
  LinesAreWhole
  AnsweredOnce
  VerdictsAreReal
PROPERTIES
  EndsIdle
