CONSTANTS
  MsgBound = 4
  HeaderRange = 4
  Faults = {"crash", "torn", "reset"}
  FaultBound = 2
SPECIFICATION FairSpec
CHECK_DEADLOCK FALSE
INVARIANTS
  NotLost
  InOrderOnce
PROPERTIES
  WriteRepairs
  Arrives
