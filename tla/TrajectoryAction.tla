---------------------------- MODULE TrajectoryAction ----------------------------
(***************************************************************************)
(* JointTrajectoryAction: the action server for trajectories.  Its         *)
(* callbacks run one at a time; every accepted goal gets a thread of its   *)
(* own, which shares the node's members with the callbacks unprotected.    *)
(***************************************************************************)
EXTENDS JointUtils

CONSTANTS
  Goals,            \* those a client may ask for, by name,
  Trajectory,       \* what each asks for,
  Feedback,         \* the messages of the robot about its joints,
  joint_names_, goal_threshold_     \* the parameters of the node

None     == "none"
Stop     == "stop"        \* a trajectory without points
Ended    == {"succeeded", "canceled", "aborted"}
Statuses == {"moving", "unfinished", "complete", "unknown"}

ASSUME GoalAssumption ==
  /\ {None, Stop, "watchdog"} \intersect Goals = {}
  /\ DOMAIN Trajectory = Goals

\* Names are strings, positions whole numbers of some unit.
ASSUME MessageAssumption ==
  /\ joint_names_ \in Seq(STRING) /\ goal_threshold_ \in Nat
  /\ \A g \in Goals : /\ Trajectory[g].joint_names \in Seq(STRING)
                      /\ Trajectory[g].points \in Seq(Seq(Int))
  /\ \A m \in Feedback : m.joint_names \in Seq(STRING) /\ m.positions \in Seq(Int)

VARIABLES
  controller_alive_, has_active_goal_, has_moved_once_, has_succeeded_,
  goal_handle_,           \* the goal whose thread started last
  current_traj_,          \* the trajectory of the goal that was accepted last
  last_robot_status_,
  halfway,                \* time_to_check_ has passed
  goal,                   \* the state of every goal's handle
  thread,                 \* where every goal's thread is in execute
  commanded,              \* what was published last
  terminated,             \* who ended the process by an exception
  arrived                 \* history: the robot was seen at the end of current_traj_
                          \* since that was accepted

members == <<controller_alive_, has_active_goal_, has_moved_once_, has_succeeded_,
             goal_handle_, current_traj_, last_robot_status_, halfway>>
vars == <<members, goal, thread, commanded, terminated, arrived>>

Set(f, x, v) == [f EXCEPT ![x] = v]

Init ==
  /\ controller_alive_ = FALSE /\ has_active_goal_ = FALSE
  /\ has_moved_once_ = FALSE /\ has_succeeded_ = FALSE
  /\ goal_handle_ = None /\ current_traj_ = None /\ last_robot_status_ = None
  /\ halfway = FALSE
  /\ goal = [g \in Goals |-> None] /\ thread = [g \in Goals |-> None]
  /\ commanded = None /\ terminated = None /\ arrived = FALSE

-----------------------------------------------------------------------------
(* The handle of a goal (rclcpp_action): a goal that has ended cannot end  *)
(* again, the attempt throws.                                              *)

CanEnd(g, as) == goal[g] \in IF as = "canceled" THEN {"canceling"}
                             ELSE {"executing", "canceling"}

End(g, as, who) ==
  IF g # None /\ CanEnd(g, as)
  THEN goal' = Set(goal, g, as) /\ UNCHANGED terminated
  ELSE terminated' = who /\ UNCHANGED goal

-----------------------------------------------------------------------------
(* The callbacks.                                                          *)

\* Mutant: a success that was not reported yet is kept for the next goal.
keptSuccess == has_succeeded_

\* Every request forgets a success that was not reported yet.
leftSuccess == FALSE

isValid(traj) == traj.points # << >> /\ isSimilar(joint_names_, traj.joint_names)

handle_goal(g) ==
  /\ goal[g] = None
  /\ IF controller_alive_ /\ isValid(Trajectory[g]) /\ ~has_active_goal_
     THEN /\ has_active_goal_' = TRUE /\ has_moved_once_' = FALSE
          /\ current_traj_' = g /\ halfway' = FALSE /\ arrived' = FALSE
          /\ goal' = Set(goal, g, "executing") /\ thread' = Set(thread, g, "start")
     ELSE UNCHANGED <<has_active_goal_, has_moved_once_, current_traj_, halfway, goal, thread,
                      arrived>>
  /\ has_succeeded_' = leftSuccess
  /\ UNCHANGED <<controller_alive_, goal_handle_, last_robot_status_, commanded, terminated>>

\* The action server asks for a goal that is executing only.
handle_cancel(g) ==
  /\ goal[g] = "executing"
  /\ goal_handle_ = g
  /\ has_active_goal_' = FALSE
  /\ goal' = Set(goal, g, "canceling")
  /\ UNCHANGED <<controller_alive_, has_moved_once_, has_succeeded_, goal_handle_,
                 current_traj_, last_robot_status_, halfway, thread, commanded, terminated,
                 arrived>>

LastPoint(traj) == traj.points[Len(traj.points)]

withinGoalConstraints(msg, traj) ==
  isWithinRange(msg.joint_names, msg.positions, traj.joint_names, LastPoint(traj), goal_threshold_)

\* What it is to find out: no joint is farther from its place in the last point than half
\* the threshold.  Whether a joint at just that distance is near is left open: utils.hpp
\* says it is not, utils.cpp takes it for near.
AtEnd(msg, traj) == \A j \in Range(joint_names_) :
  \E i \in DOMAIN msg.positions, k \in DOMAIN LastPoint(traj) :
    /\ msg.joint_names[i] = j /\ traj.joint_names[k] = j
    /\ LET d == msg.positions[i] - LastPoint(traj)[k]
       IN  2 * d <= goal_threshold_ /\ -2 * d <= goal_threshold_

\* The robot stands still, or does not say.
standsStill == last_robot_status_ \in {None, "complete", "unknown"}

controllerStateCB(msg) ==
  /\ controller_alive_' = TRUE
  /\ IF /\ has_active_goal_ /\ (has_moved_once_ \/ halfway)
        /\ isSimilar(joint_names_, msg.joint_names)
        /\ withinGoalConstraints(msg, Trajectory[current_traj_]) /\ standsStill
     THEN has_active_goal_' = FALSE /\ has_succeeded_' = TRUE
     ELSE UNCHANGED <<has_active_goal_, has_succeeded_>>
  /\ arrived' = (arrived \/ (current_traj_ # None /\ AtEnd(msg, Trajectory[current_traj_])))
  /\ UNCHANGED <<has_moved_once_, goal_handle_, current_traj_, last_robot_status_, halfway,
                 goal, thread, commanded, terminated>>

robotStatusCB(status) ==
  /\ last_robot_status_' = status
  /\ has_moved_once_' = (has_moved_once_ \/ status = "moving")
  /\ UNCHANGED <<controller_alive_, has_active_goal_, has_succeeded_, goal_handle_,
                 current_traj_, halfway, goal, thread, commanded, terminated, arrived>>

\* Mutant: the goal that was aborted stays the active one.
abortOnly ==
  /\ commanded' = Stop
  /\ End(goal_handle_, "aborted", "watchdog")
  /\ UNCHANGED has_active_goal_

abortGoal ==
  /\ commanded' = Stop
  /\ End(goal_handle_, "aborted", "watchdog")
  /\ has_active_goal_' = FALSE

watchdog ==
  /\ controller_alive_' = FALSE /\ has_succeeded_' = FALSE
  /\ IF has_active_goal_ THEN abortGoal
     ELSE UNCHANGED <<commanded, goal, terminated, has_active_goal_>>
  /\ UNCHANGED <<has_moved_once_, goal_handle_, current_traj_, last_robot_status_, halfway, thread,
                 arrived>>

TimePasses == halfway' = TRUE /\ UNCHANGED <<controller_alive_, has_active_goal_,
  has_moved_once_, has_succeeded_, goal_handle_, current_traj_, last_robot_status_,
  goal, thread, commanded, terminated, arrived>>

Callback ==
  \/ \E g \in Goals : handle_cancel(g) \/ handle_goal(g)
  \/ \E m \in Feedback : controllerStateCB(m)
  \/ \E status \in Statuses : robotStatusCB(status)
  \/ watchdog
  \/ TimePasses

-----------------------------------------------------------------------------
(* execute, the thread of a goal.                                          *)

At(g, from, to) == thread[g] = from /\ thread' = Set(thread, g, to)

others == <<controller_alive_, has_moved_once_, current_traj_, last_robot_status_, halfway,
            arrived>>

Start(g) ==
  /\ At(g, "start", "publish")
  /\ goal_handle_' = g
  /\ UNCHANGED <<others, has_active_goal_, has_succeeded_, goal, commanded, terminated>>

\* It publishes what the node's member holds by now.
Publish(g) ==
  /\ At(g, "publish", "canceling?")
  /\ commanded' = current_traj_
  /\ UNCHANGED <<members, arrived, goal, terminated>>

\* Mutant: the loop ends when there is no active goal any more.
leavesWhenFree(g) == IF ~has_active_goal_ /\ ~has_succeeded_ THEN "done"
                     ELSE IF goal[g] = "canceling" THEN "stop" ELSE "succeeded?"

afterLook(g) == IF goal[g] = "canceling" THEN "stop" ELSE "succeeded?"

LookCanceling(g) ==
  /\ At(g, "canceling?", afterLook(g))
  /\ UNCHANGED <<members, arrived, goal, commanded, terminated>>

LookSucceeded(g) ==
  /\ At(g, "succeeded?", IF has_succeeded_ THEN "succeed" ELSE "canceling?")
  /\ UNCHANGED <<members, arrived, goal, commanded, terminated>>

PublishStop(g) ==
  /\ At(g, "stop", "canceled")
  /\ commanded' = Stop
  /\ UNCHANGED <<members, arrived, goal, terminated>>

\* Mutant: the thread looks again after it reported its end.
again == "canceling?"

thenDone == "done"

Canceled(g) ==
  /\ At(g, "canceled", thenDone)
  /\ End(g, "canceled", g)
  /\ has_succeeded_' = FALSE
  /\ UNCHANGED <<others, has_active_goal_, goal_handle_, commanded>>

Succeed(g) ==
  /\ At(g, "succeed", "clear")
  /\ End(g, "succeeded", g)
  /\ UNCHANGED <<members, arrived, commanded>>

Clear(g) ==
  /\ At(g, "clear", "free")
  /\ has_succeeded_' = FALSE
  /\ UNCHANGED <<others, has_active_goal_, goal_handle_, goal, commanded, terminated>>

Free(g) ==
  /\ At(g, "free", thenDone)
  /\ has_active_goal_' = FALSE
  /\ UNCHANGED <<others, has_succeeded_, goal_handle_, goal, commanded, terminated>>

Thread(g) ==
  \/ Start(g) \/ Publish(g) \/ LookCanceling(g) \/ LookSucceeded(g)
  \/ PublishStop(g) \/ Canceled(g) \/ Succeed(g) \/ Clear(g) \/ Free(g)

-----------------------------------------------------------------------------
Next == terminated = None /\ (Callback \/ \E g \in Goals : Thread(g))

\* Every thread runs while the process does.
Fairness == \A g \in Goals : WF_vars(terminated = None /\ Thread(g))

Spec == Init /\ [][Next]_vars /\ Fairness
-----------------------------------------------------------------------------
\* The goal that was accepted last is reported as succeeded only if the robot was
\* seen at the end of its trajectory meanwhile, joint by joint, in whatever order the
\* joints are named: a success left over from an earlier goal is not taken for it.  It
\* says nothing of the edge of the threshold (AtEnd).
SuccessAtGoal ==
  \A g \in Goals : goal[g] = "succeeded" /\ current_traj_ = g => arrived

\* While a goal is active, the goal that was accepted last executes and its thread
\* runs: a goal that ended is never left active, however callbacks and threads
\* interleave.
ActiveGoalRuns == has_active_goal_ /\ terminated = None =>
  /\ goal[current_traj_] = "executing"
  /\ thread[current_traj_] \notin {"done", "succeed", "clear", "free"}

\* A thread ends the process by reporting an end twice only for a goal that the
\* watchdog aborted.
OnlyAbortedTwice == terminated \in Goals => goal[terminated] = "aborted"

\* A goal whose cancel was accepted ends, unless the process does.
CancelEnds == \A g \in Goals :
  goal[g] = "canceling" ~> (goal[g] \in Ended \/ terminated # None)
=============================================================================
