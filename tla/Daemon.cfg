CONSTANTS
  first = first
  second = second
  dps1 = dps1
  Launches = {first, second}
  Uncounted = {}
  Writers = {dps1}
  SemDenied = {second}
  PortCnt = 1
  Values = {0, 1}
SPECIFICATION FairSpec
CHECK_DEADLOCK FALSE
INVARIANTS
  OneDaemon
  DpsReadWhole
PROPERTIES
  MngMissingOnlyAtEnds
  StopHeeded
