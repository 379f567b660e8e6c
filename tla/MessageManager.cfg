SPECIFICATION Spec
CONSTANTS
  MAX_NUM_JOINTS = 2
  MAX_NUM_POINTS = 2
  JointNames <- McJointNames
  Frames <- McFrames
  MaxSent = 2
  MaxLosses = 1
INVARIANTS Aligned PublishesWhatWasSent AnswersRequests RoundTrip
PROPERTIES Drained
CHECK_DEADLOCK FALSE
