CONSTANTS
  BatchRecords = 2
  Faults = {"refused", "torn", "sync", "alloc", "handler"}
  CommandLimit = 4
  RestartLimit = 3
SPECIFICATION Spec
CHECK_DEADLOCK FALSE
INVARIANTS
  TypeOK
  LogAgreesWithBook
  NothingAcknowledgedIsLostUnlessStorageFails
  RecoversAPrefix
  LossWindowIsBounded
  AppliedWasLogged
  OneHistory
