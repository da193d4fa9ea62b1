SPECIFICATION FairSpec
CONSTANTS
  j1 = j1  j2 = j2  j3 = j3  h1 = h1  h2 = h2
  NoJob = NoJob
  Hosts = {h1, h2}
  Jobs = {j1, j2, j3}
  HostOf <- MCHostOf
  Rejected = {j3}
  MaxConcurrent = 1
  Attempts = 2
  NetFails = TRUE
  Late = {"reset"}
  CertRotates = TRUE
  MayDie = FALSE
  MaxStarts = 2
INVARIANT SuccessIsReal
PROPERTIES StopCompletes JobTerminates
CHECK_DEADLOCK FALSE
