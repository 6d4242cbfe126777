\* A caller behind the read lock of one that panicked really stops, in Lock.
SPECIFICATION FairSpec
CHECK_DEADLOCK FALSE
CONSTANTS
  Callers = {c1, c2}
  NoCaller = NoCaller
  Sources <- ReducerSources
  MaxCalls = 1
  MaxTrees = 2
INVARIANTS
  TypeOK
  CleanWhenQuiet
  OneReading
PROPERTIES
  ImplementsContract
  OnlyALeakBlocks
