CONSTANTS
  Clients = {c1}
  Fds = {f1}
  Writers = {engine}
  MaxOutbound = 1
  SocketBuffer = 1
  MessageLimit = 2
  None = None
SPECIFICATION FairSpec
CHECK_DEADLOCK FALSE
PROPERTY
  OverflowDisconnects
