CONSTANTS
  s1 = s1
  s2 = s2
  s3 = s3
  a1 = a1
  a2 = a2
  Any = Any
  Sgts = {s1, s2, s3}
  Acls = {a1, a2}
  Values = {1, 2}
  SourceSgts <- MCSourceSgts
  SourceAcls = {a1, a2}
  SourceCells <- MCSourceCells
  TwoRules <- MCTwoRules
  MaxLate = 1
  MaxObjs = 1
  MaxEdits = 1
  MaxFaults = 1
  MaxRuns = 2
SPECIFICATION FairSpec
INVARIANTS TypeOK CellsWhole VerdictsKept MissingIsReported RerunCreatesNothing
PROPERTIES EveryImportEnds
CHECK_DEADLOCK FALSE
