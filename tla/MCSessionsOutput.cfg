CONSTANTS
  Clients = {c1}
  Fds = {f1}
  Writers = {engine, worker}
  MaxOutbound = 2
  SocketBuffer = 1
  MessageLimit = 3
  None = None
SPECIFICATION FairSpec
CHECK_DEADLOCK FALSE
INVARIANTS
  StreamIsIntact
PROPERTIES
  QueuedIsSent
  ClosedIsRetired
