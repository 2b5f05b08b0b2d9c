CONSTANTS
  Clients = {c1, c2}
  Fds = {f1}
  Writers = {engine}
  MaxOutbound = 2
  SocketBuffer = 1
  MessageLimit = 3
  None = None
SPECIFICATION Spec
CHECK_DEADLOCK FALSE
INVARIANTS
  TypeOK
  RetiresTheRightSession
