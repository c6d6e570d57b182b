SPECIFICATION Spec
CONSTANTS
  c1 = c1
  c2 = c2
  c3 = c3
  c4 = c4
  p1 = p1
  p2 = p2
  Candidates = {c1, c2, c3, c4}
  Pages = {p1, p2}
  Page <- PageOf
  Risk <- RiskOf
  Contradicted <- ContradictedOnes
  MaxRuns = 2
  MaxRollbacks = 2
CHECK_DEADLOCK FALSE
INVARIANTS
  OnlyApprovedWritten
  NamedFilesExist
