SPECIFICATION Spec
CONSTANTS
  Runs = {r1, r2}
  Events = {e1}
  StepCount = 1
  MaxAttempts = 1
  RetryTimeouts = FALSE
  DiskFaults = FALSE
  MaxCrashes = 0
INVARIANTS
  ExecutedOnce
CHECK_DEADLOCK FALSE
