CONSTANTS
  msgq = msgq
  sock = sock
  v1 = v1
  t1 = t1
  MsgqHandlers = {msgq}
  SockHandlers = {sock}
  Starters = {sock}
  Versions = {v1}
  Threads = {t1}
  NoThread = NoThread
  NoVersion = NoVersion
  ZeroPid = ZeroPid
  Garbage = Garbage
  Faults = {}
SPECIFICATION Spec
CHECK_DEADLOCK FALSE
PROPERTIES
  StopKeepsDaemon
