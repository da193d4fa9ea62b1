SPECIFICATION Spec
CONSTANTS
  j1 = j1  j2 = j2  j3 = j3  h1 = h1  h2 = h2
  NoJob = NoJob
  Hosts = {h1, h2}
  Jobs = {j1, j2, j3}
  HostOf <- MCHostOf
  Rejected = {}
  MaxConcurrent = 2
  Attempts = 5
  NetFails = FALSE
  Late = {}
  CertRotates = TRUE
  MayDie = FALSE
  MaxStarts = 1
INVARIANT EventNeverFailsRun
CHECK_DEADLOCK FALSE
