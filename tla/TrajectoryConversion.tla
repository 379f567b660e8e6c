-------------------------- MODULE TrajectoryConversion --------------------------
(***************************************************************************)
(* JointTrajectoryInterface: how a trajectory of ROS becomes the points    *)
(* that the robot gets.  Velocities are in percent of a joint's limit,     *)
(* times in seconds.                                                       *)
(***************************************************************************)
EXTENDS Integers, SequencesExt

CONSTANTS
  all_joint_names_,     \* the robot's joints
  joint_vel_limits_,    \* limits of some of them, a function
  default_vel_ratio_,   \* in percent
  default_joint_pos_,
  default_duration_     \* in seconds

ASSUME ConversionAssumption ==
  /\ all_joint_names_ # <<>> /\ all_joint_names_ \in Seq(STRING)
  /\ \A n \in DOMAIN joint_vel_limits_ : joint_vel_limits_[n] \in Nat \ {0}
  /\ default_vel_ratio_ \in 0 .. 100 /\ default_duration_ \in Nat \ {0}
  /\ default_joint_pos_ \in Int

\* The name of a joint that ROS does not know.
NoName == ""

abs(x) == IF x < 0 THEN -x ELSE x

-----------------------------------------------------------------------------
\* Every point has positions, keeps the limits of the joints that have one, and has
\* a time unless it is the first.
is_valid(traj) == \A i \in DOMAIN traj.points :
  LET pt == traj.points[i] IN
  /\ pt.positions # <<>>
  /\ \A j \in DOMAIN pt.velocities : traj.joint_names[j] \in DOMAIN joint_vel_limits_ =>
       abs(pt.velocities[j]) <= joint_vel_limits_[traj.joint_names[j]]
  /\ i > 1 => pt.sec # 0 \/ pt.nanosec # 0

\* std::find: where ROS has the joint; 0 if nowhere.
find(names, name) == SelectInSeq(names, LAMBDA n : n = name)

knowsJoints(names) == \A i \in DOMAIN all_joint_names_ :
  all_joint_names_[i] = NoName \/ find(names, all_joint_names_[i]) # 0

\* select: the values in the order of the robot's joints.
ordered(values, names, dummy) ==
  IF values = <<>> THEN <<>>
  ELSE [i \in DOMAIN all_joint_names_ |->
          IF all_joint_names_[i] = NoName THEN dummy ELSE values[find(names, all_joint_names_[i])]]

select(names, pt) ==
  [pt EXCEPT !.positions = ordered(@, names, default_joint_pos_),
             !.velocities = ordered(@, names, -1)]

\* Its assertion throws if there are more or fewer positions than joints; a robot's
\* joint that is missing ends the conversion at the first point.
selectThrows(traj) == \E i \in DOMAIN traj.points :
  /\ Len(traj.points[i].positions) # Len(traj.joint_names)
  /\ i = 1 \/ knowsJoints(traj.joint_names)

-----------------------------------------------------------------------------
vel_ratios(pt) == {
  IF all_joint_names_[i] \in DOMAIN joint_vel_limits_ \ {NoName}
  THEN (abs(pt.velocities[i]) * 100) \div joint_vel_limits_[all_joint_names_[i]] ELSE -1 :
    i \in DOMAIN all_joint_names_}

clip(v) == Min({100, Max({0, v})})

\* Mutant: the point before the last is taken for the last.
lastButOne(i, n) == i >= n - 1

final(i, n) == i = n

\* A small ratio becomes the default; the last point of those that have velocities
\* is marked with 200 %.
calc_velocity(pt, i, n) ==
  LET largest == Max(vel_ratios(pt)) IN
  IF pt.velocities = <<>> THEN default_vel_ratio_
  ELSE clip(IF largest > default_vel_ratio_ THEN largest ELSE default_vel_ratio_)
         + (IF final(i, n) THEN 200 ELSE 0)

\* Whole seconds since last_time, which is the time of the point that was
\* converted before, maybe one of another trajectory.
calc_duration(pt, last_time) ==
  IF pt.sec <= last_time THEN default_duration_ ELSE pt.sec - last_time

create_message(seq, pt, velocity, duration) ==
  [sequence |-> seq, joint_position |-> pt.positions, velocity |-> velocity, duration |-> duration]

timeBefore(traj, i, last_time) == IF i = 1 THEN last_time ELSE traj.points[i - 1].sec

\* What a valid trajectory becomes.
trajectory_to_msgs(traj, last_time) ==
  [i \in DOMAIN traj.points |->
     LET pt == select(traj.joint_names, traj.points[i]) IN
     create_message(i - 1, pt, calc_velocity(pt, i, Len(traj.points)),
                    calc_duration(pt, timeBefore(traj, i, last_time)))]
=============================================================================
