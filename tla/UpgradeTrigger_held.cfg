SPECIFICATION FairSpec
CONSTANTS
  Scripts = {s1, s2}
  MaxFaults = 3
INVARIANTS TypeOK NothingLeftBehind CredentialShortLived
PROPERTIES UpgradeArrives PromiseSpec
CHECK_DEADLOCK FALSE
