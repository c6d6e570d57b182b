SPECIFICATION Spec
CONSTANTS
  MilestoneCount = 2
  MaxSessions = 3
  MaxCommits = 1
  MaxCrashes = 1
  Contents = {0, 1}
CHECK_DEADLOCK FALSE
INVARIANTS
  OneActiveMilestone
  NamedSessionExists
  BlockedNeverShips
