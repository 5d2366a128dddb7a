CONSTANTS
  script = script
  long = long
  Clients = {script, long}
  Pieces <- ClientPieces
  SendBound <- ClientSends
  StartBound = 1
  BufMax = 2
SPECIFICATION FairSpec
CHECK_DEADLOCK FALSE
INVARIANTS
  InOrder
  GarbageOnlyFromLong
  NothingLost
PROPERTIES
  Heard
  ClosedIsNoticed
  StopReturns
