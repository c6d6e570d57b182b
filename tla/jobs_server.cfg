SPECIFICATION FairSpec
CONSTANTS
  Jobs = {j1, j2}
  AttemptLimits <- Limits12
  LeaseTTL = 1
  NoJob = NoJob
  DiskFaults = FALSE
  MalformedInput = FALSE
  AllowStop = FALSE
  MaxRequeues = 1
  MaxRestarts = 1
CHECK_DEADLOCK FALSE
INVARIANTS
  RunsAccounted
PROPERTIES
  LatestRunDecides
  Lifecycle
  JobsMoveOn
