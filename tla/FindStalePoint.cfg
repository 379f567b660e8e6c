SPECIFICATION Spec
CONSTANTS
  ClientMsgs <- MixedMsgs
  QSize = 2
  MaxMsgs = 3
  MaxLinks = 0
  MaxRequests = 0
  MaxPower = 0
PROPERTIES
  StopDiscardsAlways
CHECK_DEADLOCK FALSE
