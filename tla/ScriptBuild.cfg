CONSTANTS
  s = s
  t = t
  j1 = j1
  j2 = j2
  j3 = j3
  Jobs = {j1, j2, j3}
  Names = {s, t}
  Requests <- SomeRequests
  SockCnt = 2
  RevBound = 2
  NoJob = NoJob
SPECIFICATION Spec
CHECK_DEADLOCK FALSE
SYMMETRY JobSymmetry
INVARIANTS
  ExecFindsOwnBuild
PROPERTIES
  StaleTakesFailures
