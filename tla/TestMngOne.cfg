CONSTANTS
  msgq = msgq
  sock = sock
  v1 = v1
  v2 = v2
  t1 = t1
  t2 = t2
  t3 = t3
  MsgqHandlers = {msgq}
  SockHandlers = {sock}
  Starters = {sock}
  Versions = {v1, v2}
  Threads = {t1, t2, t3}
  NoThread = NoThread
  NoVersion = NoVersion
  ZeroPid = ZeroPid
  Garbage = Garbage
  Faults = {"fork", "create", "copy"}
SPECIFICATION Spec
CHECK_DEADLOCK FALSE
SYMMETRY SlotSymmetry
INVARIANTS
  TypeOK
  KillTargetsOwnVersion
  HandoffExact
  LogListedWhileRunning
PROPERTIES
  AbortOkMeansDead
  LogNotLost
  SlotsHold
