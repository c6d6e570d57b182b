SPECIFICATION FairSpec
CONSTANTS
  Holdable <- FirstObjective
  ObjectiveCount = 2
  MaxIterations = 1
  MaxCorrections = 1
  MaxFailures = 3
  TimeoutRetries = 1
INVARIANTS
  NothingLost
  RecordsAgree
PROPERTIES
  CompletionEarned
  SequencerEnds
