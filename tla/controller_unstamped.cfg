SPECIFICATION FairSpec
CONSTANTS
  Holdable = {}
  ObjectiveCount = 2
  MaxIterations = 1
  MaxCorrections = 1
  MaxFailures = 3
  TimeoutRetries = 1
PROPERTIES
  StaleReviewsRejected
