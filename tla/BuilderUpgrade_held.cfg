SPECIFICATION FairSpec
CONSTANTS
  MaxMissed = 1
  SudoPassword = TRUE
  MaxFaults = 3
INVARIANTS TypeOK NothingIsLeft
PROPERTIES InterruptedIdle ReturnedUpgraded PromiseSpec Resumes
CHECK_DEADLOCK FALSE
