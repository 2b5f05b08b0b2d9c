CONSTANTS
  BatchRecords = 2
  Faults = {"torn"}
  CommandLimit = 4
  RestartLimit = 2
SPECIFICATION Spec
CHECK_DEADLOCK FALSE
INVARIANTS
  NothingAcknowledgedIsLost
