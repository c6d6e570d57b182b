SPECIFICATION Spec
CONSTANTS
  Jobs = {j1}
  AttemptLimits <- Limits2
  LeaseTTL = 1
  NoJob = NoJob
  DiskFaults = TRUE
  MalformedInput = TRUE
  AllowStop = TRUE
  MaxRequeues = 2
  MaxRestarts = 2
CHECK_DEADLOCK FALSE
INVARIANTS
  RecordsCoherent
  DiskNeverAhead
  RunningHasExecution
PROPERTIES
  FinalRecordsKept
