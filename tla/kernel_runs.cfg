SPECIFICATION FairSpec
CONSTANTS
  Runs = {r1, r2}
  Events = {e1, e2}
  StepCount = 2
  MaxAttempts = 2
  RetryTimeouts = TRUE
  DiskFaults = TRUE
  MaxCrashes = 1
CHECK_DEADLOCK FALSE
INVARIANTS
  AnsweredIsRecorded
  CompletedHasOutput
  NeverRunAgain
  IgnoredForAReason
PROPERTIES
  AllSettled
