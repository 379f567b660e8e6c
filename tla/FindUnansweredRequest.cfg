SPECIFICATION Spec
CONSTANTS
  MAX_NUM_JOINTS = 2
  MAX_NUM_POINTS = 2
  JointNames <- McJointNames
  Frames <- McFrames
  MaxSent = 1
  MaxLosses = 0
INVARIANTS EveryRequestAnswered
CHECK_DEADLOCK FALSE
