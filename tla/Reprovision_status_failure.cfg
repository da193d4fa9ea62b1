SPECIFICATION Spec
CONSTANTS
  NoPool = NoPool
  NoTask = NoTask
  staging = staging
  prod26 = prod26
  prod15 = prod15
  unlisted = unlisted
  Candidates <- MCCandidates
  InitHosts <- Plain
  Tasks = {t1}
  Commands = {"run"}
  MaxMissed = 0
  StatusMayFail = TRUE
  Restless = {}
  Faults = FALSE
  MaxEnroll = 2
PROPERTIES NoTaskErased
CHECK_DEADLOCK FALSE
