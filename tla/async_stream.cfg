SPECIFICATION FairSpec
CONSTANTS
  N = 2
  Directions = {"RX", "TX"}
  Submitters = {"p"}
  SharedContext = FALSE
  EarlySubmit = FALSE
  JoinFirst = TRUE
  MaxRuns = 2
  MaxSubmits = 1
  MaxFaults = 1
  MaxGen = 2
  MaxFlushes = 1
INVARIANTS
  TypeOK
  SafeFree
  LeaseExact
  FlushBarrier
PROPERTY
  DoneIsFinal
  DeinitEnds
