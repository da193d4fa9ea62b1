SPECIFICATION FairSpec
CONSTANTS
  NoPool = NoPool
  NoTask = NoTask
  staging = staging
  prod26 = prod26
  prod15 = prod15
  unlisted = unlisted
  Candidates <- MCCandidates
  InitHosts <- RecordedOrUnlisted
  Tasks = {t1, t2}
  Commands = {"run", "runUnquarantine", "skipWipe", "quarantine", "drain", "waitReenroll", "mint", "escrowBst", "waitSentinel", "screencaptureGrant"}
  MaxMissed = 2
  StatusMayFail = FALSE
  Restless = {prod26}
  Faults = TRUE
  MaxEnroll = 3
INVARIANTS TypeOK PendingEraseIsHeld
PROPERTIES ReturnedRebuilt NoTaskErased ServiceSpec RunCompletes
CHECK_DEADLOCK FALSE
