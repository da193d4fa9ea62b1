SPECIFICATION Spec
CONSTANTS
  MaxMissed = 1
  SudoPassword = FALSE
  MaxFaults = 1
INVARIANTS InServiceAsSaid
CHECK_DEADLOCK FALSE
