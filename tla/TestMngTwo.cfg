CONSTANTS
  msgq = msgq
  sock = sock
  v1 = v1
  v2 = v2
  t1 = t1
  t2 = t2
  MsgqHandlers = {msgq}
  SockHandlers = {sock}
  Starters = {msgq, sock}
  Versions = {v1, v2}
  Threads = {t1, t2}
  NoThread = NoThread
  NoVersion = NoVersion
  ZeroPid = ZeroPid
  Garbage = Garbage
  Faults = {}
SPECIFICATION Spec
CHECK_DEADLOCK FALSE
INVARIANTS
  StartRunsRequested
