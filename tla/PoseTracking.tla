------------------------------ MODULE PoseTracking ------------------------------
(***************************************************************************)
(* PoseTrackingController: the callback that stores the newest goal, and   *)
(* the thread that moves the tool towards it with velocity commands.       *)
(***************************************************************************)
EXTENDS JogInterface

VARIABLE newGoal    \* goal_timestamp_ # last_goal_timestamp_

PoseInit == newGoal = FALSE

\* poseGoalCb: a goal is ignored while in error; its frame is checked later, in
\* the control loop.
PoseGoal ==
  /\ newGoal' = TRUE
  /\ in_error_' = Set(in_error_, "pose", inError("pose"))
  /\ fresh' = Set(fresh, "pose", TRUE)
  /\ IF inError("pose")
     THEN UNCHANGED pc
     ELSE Notify("pose")
  /\ UNCHANGED <<modeVars, relayVars, jogVars, newer>>

PoseOnly == UNCHANGED <<relayVars, jogVars, fresh>>

\* The thread resets its PID controllers and waits for the next goal.
PoseReset ==
  /\ pc["pose"] = "top" /\ Goto("pose", "sleep")
  /\ UNCHANGED <<modeVars, in_error_, newer, newGoal>>
  /\ PoseOnly

\* The wait returns; startPoseTracking is called if there is a new goal.
PoseWake ==
  /\ pc["pose"] = "woken"
  /\ Goto("pose", IF newGoal THEN "check" ELSE "top")
  /\ newGoal' = FALSE
  /\ UNCHANGED <<modeVars, in_error_, newer>>
  /\ PoseOnly

startPoseTracking == Start("pose")

PoseStart == startPoseTracking /\ UNCHANGED <<jogVars, newGoal>>

\* Mutant: goals do not time out.
goalNeverExpires == FALSE

\* No goal was received for receive_timeout_.
goalExpired == ~fresh["pose"]

\* The control loop copies the goal, whose frame may be unknown or which may be
\* too old ...
PoseCopy ==
  /\ pc["pose"] = "loop"
  /\ \E known \in goalFrameKnown :
       IF ~known THEN EndLoop("pose", "stop", FALSE)
       ELSE IF goalExpired
       THEN EndLoop("pose", "stop", TRUE)
       ELSE Goto("pose", "wait") /\ UNCHANGED <<in_error_, newer>>
  /\ UNCHANGED <<modeVars, newGoal>>
  /\ PoseOnly

\* ... waits for feedback (waitForFeedback, which then needs the frame of the tool) ...
PoseFeedback ==
  /\ pc["pose"] = "wait"
  /\ \E known \in tcpFrameKnown :
       IF newer["pose"] /\ ~known THEN EndLoop("pose", "stop", FALSE)
       ELSE waitForStateUpdate("pose", "send", "stop")
  /\ UNCHANGED <<modeVars, newGoal>>
  /\ PoseOnly

\* The tool is within the tolerance, as it was when this was asked before (entered is
\* static and keeps its value from one goal to the next), and the newest goal came
\* long enough ago: the time at which the tolerance was entered is overwritten.
hasReachedGoal(within, entered, settled) == within /\ entered /\ settled

mayHaveReached == {hasReachedGoal(within, entered, settled) :
                     within, entered, settled \in BOOLEAN}

\* ... and sends a command, a zero one when the goal has been reached, which ends the
\* loop.
PoseSend ==
  /\ pc["pose"] = "send"
  /\ \E ok \in sendResults("BASE_FRAME"), reached \in mayHaveReached :
       IF ~ok THEN EndLoop("pose", "stop", FALSE)
       ELSE IF reached THEN EndLoop("pose", "stop", TRUE)
       ELSE Goto("pose", "loop") /\ UNCHANGED <<in_error_, newer>>
  /\ UNCHANGED <<modeVars, newGoal>>
  /\ PoseOnly

PoseStop == Stop("pose") /\ UNCHANGED <<jogVars, newGoal>>

PoseThread == \/ PoseReset \/ PoseWake \/ PoseStart \/ PoseCopy \/ PoseFeedback
              \/ PoseSend \/ PoseStop
=============================================================================
