SPECIFICATION FairSpec
CONSTANTS
  ClientMsgs <- LiveMsgs
  QSize = 2
  MaxMsgs = 2
  MaxLinks = 1
  MaxRequests = 0
  MaxPower = 1
PROPERTIES
  PointsServed
  StopServed
  TransitionEnds
  DeadClientStopsArm
  JogStops
  LatestConfigInForce
CHECK_DEADLOCK FALSE
