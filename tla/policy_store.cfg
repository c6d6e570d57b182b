SPECIFICATION FairSpec
CONSTANTS
  Tracks = {t1}
  Models = {m1}
  NoModel = NoModel
  Clients = {c1, c2}
  NoClient = NoClient
  DiskFaults = TRUE
  MalformedInput = TRUE
  AuditFaults = TRUE
  MaxRevision = 3
  MaxRestarts = 1
  MaxCorruptions = 1
CHECK_DEADLOCK FALSE
INVARIANTS
  EnforcedApproved
  ServedIsDurable
  AuditComplete
PROPERTIES
  EnforceSound
  GatePromise
  RequestsAnswered
