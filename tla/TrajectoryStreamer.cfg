SPECIFICATION FairSpec
CONSTANTS
  MaxTrajs = 2
  MaxPoints = 3
  MaxStops = 2
  MaxLosses = 2
  MaxMisreads = 1
INVARIANTS
  TypeOK
  SentMeansReceived
PROPERTIES
  DeliveredInOrder
  NoGap
  StreamingEnds
CHECK_DEADLOCK FALSE
