SPECIFICATION Spec
CONSTANTS
  ClientMsgs <- MixedMsgs
  QSize = 2
  MaxMsgs = 3
  MaxLinks = 1
  MaxRequests = 1
  MaxPower = 0
INVARIANTS
  TypeOK
  ModeMatchesTask
  PendingInOrder
  CommandNotRepeated
PROPERTIES
  ImplementsArm
  StopDiscards
CHECK_DEADLOCK FALSE
