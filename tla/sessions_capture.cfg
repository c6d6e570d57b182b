SPECIFICATION FairSpec
CONSTANTS
  Objectives = {o1}
  Processors = {tick, post}
  Ticker = tick
  BatchSize = 1
  MaxSessions = 2
  MaxEvents = 1
  MaxUpsets = 1
INVARIANTS
  PointerNamesSession
  CandidateOnce
PROPERTIES
  EndedStaysEnded
  SessionsSettle
CHECK_DEADLOCK FALSE
