SPECIFICATION Spec
CONSTANTS
  MaxTrajs = 1
  MaxPoints = 1
  MaxStops = 1
  MaxLosses = 0
  MaxMisreads = 0
PROPERTIES
  StopCancels
CHECK_DEADLOCK FALSE
