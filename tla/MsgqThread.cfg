CONSTANTS
  script1 = script1
  script2 = script2
  Senders = {script1, script2}
  SendBound = 2
  HostBound = 2
  ReplyBound = 1
  QCap = 2
SPECIFICATION FairSpec
CHECK_DEADLOCK FALSE
PROPERTIES
  SendIsChannel
  RecvIsChannel
  SendsArriveUnlessJammed
  HostMsgsHandled
  StopReturns
