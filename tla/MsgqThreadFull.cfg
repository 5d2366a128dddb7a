CONSTANTS
  script1 = script1
  Senders = {script1}
  SendBound = 3
  HostBound = 1
  ReplyBound = 1
  QCap = 2
SPECIFICATION FairSpec
CHECK_DEADLOCK FALSE
PROPERTIES
  SendsArrive
