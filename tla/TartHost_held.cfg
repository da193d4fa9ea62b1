SPECIFICATION FairSpec
CONSTANTS
  N = 2
  MaxMissed = 1
  Faults = TRUE
  Careless = FALSE
INVARIANTS TypeOK NeverHalfDone
PROPERTIES DownOnlyHeld ReleasedReady PromiseSpec UpdateEnds
CHECK_DEADLOCK FALSE
