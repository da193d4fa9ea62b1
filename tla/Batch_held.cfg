SPECIFICATION FairSpec
CONSTANTS
  h1 = h1
  h2 = h2
  Hosts = {h1, h2}
  Flaky = {h2}
  Arrivals <- MCArrivals
  Sessions <- MCSessions
  Concurrency = 2
  MdmConcurrency = 1
INVARIANTS TypeOK NoOneForgotten ProvisionedWhole
PROPERTIES CustodySpec BatchEnds BootstrapFinishes
CHECK_DEADLOCK FALSE
