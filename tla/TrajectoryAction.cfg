SPECIFICATION Spec
CONSTANTS
  Goals <- MCGoals
  Trajectory <- MCTrajectories
  Feedback <- MCFeedback
  joint_names_ <- MCJoints
  goal_threshold_ = 3
INVARIANTS SuccessAtGoal ActiveGoalRuns OnlyAbortedTwice
PROPERTIES CancelEnds
CHECK_DEADLOCK FALSE
