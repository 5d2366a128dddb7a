CONSTANTS
  msgq = msgq
  sock = sock
  v1 = v1
  t1 = t1
  t2 = t2
  MsgqHandlers = {msgq}
  SockHandlers = {sock}
  Starters = {msgq, sock}
  Versions = {v1}
  Threads = {t1, t2}
  NoThread = NoThread
  NoVersion = NoVersion
  ZeroPid = ZeroPid
  Garbage = Garbage
  Faults = {"spurious", "fork"}
SPECIFICATION FairSpec
CHECK_DEADLOCK FALSE
INVARIANTS
  NoLostWakeup
PROPERTIES
  StartReturns
  SlotFreed
