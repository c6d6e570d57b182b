SPECIFICATION FairSpec
CONSTANTS
  a = a
  b = b
  c = c
  role = role
  Ghost = Ghost
  NoNode = NoNode
  Nodes = {n1, n2}
  Seeds <- OneOrTwo
  n1 = n1
  n2 = n2
  Roles = {role}
  StepOrder <- ThreeSteps
  Graphs <- Mixed
  Requests <- DeployedWays
  RoleOf <- TwoModels
  Checked = {a}
  MaxSigns = 1
CHECK_DEADLOCK FALSE
INVARIANTS
  LevelsTight
  OrderRespected
  NothingLeftBehind
  RelayCostsNothing
PROPERTIES
  PlacementBalanced
  FailedNodesRest
  RunsEnd
