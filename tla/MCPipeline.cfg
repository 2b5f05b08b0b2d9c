CONSTANTS
  NewOrders = {o1, bad}
  InvalidOrders = {bad}
  Amendments = {amend}
  Workers = {w1, w2}
  Callers = {owner, other}
  PoolCapacity = 2
  EngineCapacity = 1
SPECIFICATION FairSpec
CHECK_DEADLOCK FALSE
INVARIANTS
  TypeOK
  NothingIsDroppedAtShutdown
  StopHasDrained
  FillsHaveARoute
PROPERTIES
  StopReturns
  AcceptedIsHandled
