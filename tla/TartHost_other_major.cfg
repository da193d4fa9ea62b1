SPECIFICATION Spec
CONSTANTS
  N = 2
  MaxMissed = 1
  Faults = TRUE
  Careless = FALSE
PROPERTIES OtherMajorHeld
CHECK_DEADLOCK FALSE
