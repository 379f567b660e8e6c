SPECIFICATION Spec
CONSTANTS
  all_joint_names_ <- McJoints
  joint_vel_limits_ <- McLimits
  default_vel_ratio_ = 10
  default_joint_pos_ = 0
  default_duration_ = 10
  Trajectories <- McTrajectories
  MaxAsked = 2
  MaxLosses = 1
INVARIANTS PlanFaithful DownloadPrefix
CHECK_DEADLOCK FALSE
