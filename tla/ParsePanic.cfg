\* One caller, as the reducer is: it recovers a panic and parses the next
\* candidate.  It really stops, in Lock.
SPECIFICATION FairSpec
CHECK_DEADLOCK FALSE
CONSTANTS
  Callers = {c1}
  NoCaller = NoCaller
  Sources <- ReducerSources
  MaxCalls = 2
  MaxTrees = 1
PROPERTIES
  EveryCallReturns
