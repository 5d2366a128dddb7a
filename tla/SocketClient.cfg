CONSTANTS
  ConnBound = 2
  SendBound = 2
  FirstBound = 1
  ConnectTries = 2
  BufMax = 2
SPECIFICATION FairSpec
CHECK_DEADLOCK FALSE
INVARIANTS
  InOrder
  OneBadPerReconnect
PROPERTIES
  LossIsNoticed
  Heard
  StopReturns
