-------------------------- MODULE TrajectoryDownloader --------------------------
(***************************************************************************)
(* JointTrajectoryDownloader: it sends a whole trajectory as messages that *)
(* nobody answers, over a connection that may be lost at any time.         *)
(***************************************************************************)
EXTENDS TrajectoryConversion

CONSTANTS
  Trajectories,   \* what ROS may ask for
  MaxAsked,       \* bound: trajectories
  MaxLosses       \* bound: losses of the connection

ASSUME DownloaderAssumption == MaxAsked \in Nat /\ MaxLosses \in Nat

\* A trajectory names every joint once, and a point has a velocity for all of them or for
\* none; the code does not look whether that is so.
ASSUME TrajectoryAssumption == \A traj \in Trajectories :
  /\ traj.joint_names \in Seq(STRING)
  /\ IsInjective(traj.joint_names) /\ NoName \notin Range(traj.joint_names)
  /\ traj.points \in Seq([positions : Seq(Int), velocities : Seq(Int), sec : Int, nanosec : Int])
  /\ \A k \in DOMAIN traj.points : LET v == traj.points[k].velocities IN
       v = <<>> \/ Len(v) = Len(traj.joint_names)

VARIABLES
  running,      \* the process has not ended by an exception
  last_time,    \* static variable of calc_duration
  connected_,   \* SimpleSocket::connected_
  link,         \* the connection exists
  points,       \* messages of the loop in send_to_robot
  i,            \* its index; 0 outside
  asked,        \* history: the trajectories, with last_time before them
  got,          \* history: what the controller received of each
  nLosses

vars == <<running, last_time, connected_, link, points, i, asked, got, nLosses>>

-----------------------------------------------------------------------------
START_TRAJECTORY_DOWNLOAD == -1
END_TRAJECTORY == -3
STOP_TRAJECTORY == -4

\* A trajectory of one point is sent as two equal points.
atLeastTwo(msgs) == IF Len(msgs) < 2 THEN Append(msgs, msgs[1]) ELSE msgs

marked(msgs) == [k \in DOMAIN msgs |->
  [msgs[k] EXCEPT !.sequence = IF k = Len(msgs) THEN END_TRAJECTORY
                               ELSE IF k = 1 THEN START_TRAJECTORY_DOWNLOAD ELSE @]]

\* Mutant: the connection is made again for every point.
anywhere(k) == TRUE

onlyFirst(k) == k = 1

makeConnect(k) ==
  IF connected_ \/ ~onlyFirst(k) THEN UNCHANGED <<connected_, link>>
  ELSE link' \in BOOLEAN /\ connected_' = link'

\* jointTrajectorySubCB; an exception ends the process.
jointTrajectorySubCB(traj) ==
  /\ running /\ i = 0 /\ Len(asked) < MaxAsked /\ traj.points # <<>>
  /\ IF ~is_valid(traj) THEN UNCHANGED <<running, last_time, connected_, link, points, i, asked, got>>
     ELSE IF selectThrows(traj)
     THEN running' = FALSE /\ UNCHANGED <<last_time, connected_, link, points, i, asked, got>>
     ELSE IF ~knowsJoints(traj.joint_names)
     THEN UNCHANGED <<running, last_time, connected_, link, points, i, asked, got>>
     ELSE /\ points' = marked(atLeastTwo(trajectory_to_msgs(traj, last_time)))
          /\ last_time' = Last(traj.points).sec
          /\ i' = 1 /\ makeConnect(1)
          /\ asked' = Append(asked, [traj |-> traj, last_time |-> last_time])
          /\ got' = Append(got, <<>>)
          /\ UNCHANGED running
  /\ UNCHANGED nLosses

\* trajectoryStop, for an empty trajectory or the service stop_motion: a request
\* that is sent, or not, and answered, or not.
trajectoryStop ==
  /\ running /\ i = 0
  /\ connected_' \in IF link THEN {connected_} ELSE {FALSE}
  /\ UNCHANGED <<running, last_time, link, points, i, asked, got, nLosses>>

\* The service joint_path_command writes through a null pointer.
jointTrajectoryCB ==
  /\ running /\ i = 0 /\ running' = FALSE
  /\ UNCHANGED <<last_time, connected_, link, points, i, asked, got, nLosses>>

\* One iteration of the loop: what is sent on a connection that is lost may seem sent.
SendPoint ==
  /\ running /\ i > 0
  /\ IF connected_ /\ link
     THEN got' = [got EXCEPT ![Len(got)] = Append(@, points[i])] /\ UNCHANGED <<connected_, link>>
     ELSE IF connected_ THEN connected_' \in BOOLEAN /\ UNCHANGED <<got, link>>
     ELSE makeConnect(i + 1) /\ UNCHANGED got
  /\ i' = IF i < Len(points) THEN i + 1 ELSE 0
  /\ UNCHANGED <<running, last_time, points, asked, nLosses>>

LoseConnection ==
  /\ link /\ nLosses < MaxLosses
  /\ link' = FALSE /\ nLosses' = nLosses + 1
  /\ UNCHANGED <<running, last_time, connected_, points, i, asked, got>>

-----------------------------------------------------------------------------
Init ==
  /\ running = TRUE /\ last_time = 0
  /\ link \in BOOLEAN /\ connected_ = link
  /\ points = <<>> /\ i = 0
  /\ asked = <<>> /\ got = <<>> /\ nLosses = 0

Next ==
  \/ \E traj \in Trajectories : jointTrajectorySubCB(traj)
  \/ trajectoryStop \/ jointTrajectoryCB \/ SendPoint \/ LoseConnection

Spec == Init /\ [][Next]_vars
-----------------------------------------------------------------------------
\* What a controller gets of a trajectory has no gap: it begins with the first point
\* and is whole if it has the last one, whatever is lost in between.
DownloadPrefix ==
  /\ i > 0 => IsPrefix(Last(got), points)
  /\ \A n \in DOMAIN got : got[n] # <<>> =>
       /\ got[n][1].sequence = START_TRAJECTORY_DOWNLOAD
       /\ Last(got[n]).sequence = END_TRAJECTORY => Len(got[n]) = Max({2, Len(asked[n].traj.points)})

\* What is sent is what was asked: every joint goes where ROS wants that joint, ...
PositionsByName(msgs, traj) == \A k \in DOMAIN traj.points, j \in DOMAIN traj.joint_names :
  LET name == traj.joint_names[j] IN
  \A r \in DOMAIN all_joint_names_ : all_joint_names_[r] = name =>
    msgs[k].joint_position[r] = traj.points[k].positions[j]

\* ... only the last point says that it is the last, and it does where the joints have
\* velocities (where they have none, this is left open); no velocity is out of range or
\* below the largest that was asked, to the whole percent, ...
EndMarked(msgs, traj) == \A k \in DOMAIN traj.points :
  LET pt == traj.points[k]
      v == msgs[k].velocity
      speed == IF v >= 200 THEN v - 200 ELSE v
  IN /\ v >= 200 => k = Len(traj.points)
     /\ k = Len(traj.points) /\ pt.velocities # <<>> => v >= 200
     /\ speed \in 0 .. 100
     /\ \A j \in DOMAIN pt.velocities : traj.joint_names[j] \in DOMAIN joint_vel_limits_ =>
          speed >= (abs(pt.velocities[j]) * 100) \div joint_vel_limits_[traj.joint_names[j]]
            \/ traj.joint_names[j] \notin Range(all_joint_names_)

\* ... and the durations of points that are seconds apart add up to their times.
TimeKept(msgs, traj) ==
  /\ \A k \in DOMAIN msgs : msgs[k].duration > 0
  /\ \A k \in 2 .. Len(traj.points) :
       traj.points[k].sec > traj.points[k - 1].sec =>
         msgs[k].duration = traj.points[k].sec - traj.points[k - 1].sec

PlanFaithful == i > 0 =>
  LET traj == Last(asked).traj IN
  PositionsByName(points, traj) /\ EndMarked(points, traj) /\ TimeKept(points, traj)
=============================================================================
