------------------------- MODULE StateMachineTask --------------------------
(***************************************************************************)
(* The asynchronous task sStateMachTask: it replaces the program of the    *)
(* motion task when a message of the other motion mode arrives.  Any       *)
(* synchronous task may run between two of its lines that touch shared     *)
(* data, so each of them is a step; smPc names the next one.               *)
(***************************************************************************)
EXTENDS RosServerGlobals

SmUnchanged ==
  UNCHANGED <<connVars, queueVars, velVars, statusVars, sysVars, powerVars,
              recvHist, moveHist>>

Goto(here, there) == smPc = here /\ smPc' = there

\* wait(bMotionMsgEvent) ...
SmWake ==
  /\ bMotionMsgEvent
  /\ Goto("wait", "clear")
  /\ UNCHANGED <<bStopNow, eventVars, taskVars, armVars, l_bKillMotTask,
                 l_bResetMotion, l_nNextState, nMotionMode>>
  /\ SmUnchanged

\* ... and bMotionMsgEvent = false.
SmClear ==
  /\ Goto("clear", "decide")
  /\ bMotionMsgEvent' = FALSE
  /\ UNCHANGED <<bStopNow, nMotionMsgType, taskVars, armVars, l_bKillMotTask,
                 l_bResetMotion, l_nNextState, nMotionMode>>
  /\ SmUnchanged

\* The motion task runs the wrong program for a message of this type.
MustKill(mode, type) ==
  \/ mode = "JOINT_TRAJ" /\ type = "VELOCITY_CFG"
  \/ mode = "VELOCITY_CTRL" /\ type \in TrajTypes

\* Mutant: a configuration in velocity mode is taken for served.
NeverReset(mode, type) == FALSE

\* A new configuration for the velocity mode that runs.
MustReset(mode, type) == mode = "VELOCITY_CTRL" /\ type = "VELOCITY_CFG"

\* The switch on the current mode and on the type of the message that is the
\* newest by now.  A trajectory point in mode JOINT_TRAJ ends the iteration.
SmDecide ==
  /\ smPc = "decide"
  /\ LET kill  == MustKill(nMotionMode, nMotionMsgType)
         reset == MustReset(nMotionMode, nMotionMsgType)
     IN  \/ /\ nMotionMode = "JOINT_TRAJ" /\ nMotionMsgType \in TrajTypes
            /\ smPc' = "wait"
            /\ UNCHANGED <<l_bKillMotTask, l_bResetMotion, l_nNextState>>
         \/ /\ ~(nMotionMode = "JOINT_TRAJ" /\ nMotionMsgType \in TrajTypes)
            /\ l_bKillMotTask' = kill
            /\ l_bResetMotion' = reset
            /\ l_nNextState' = IF ~kill THEN l_nNextState
                               ELSE IF nMotionMode = "JOINT_TRAJ"
                                    THEN "VELOCITY_CTRL" ELSE "JOINT_TRAJ"
            /\ smPc' = IF kill \/ reset THEN "stop" ELSE "finish"
  /\ UNCHANGED <<bStopNow, eventVars, taskVars, armVars, nMotionMode>>
  /\ SmUnchanged

\* Tell the motion task to clean up; a reconfiguration needs no more.
SmStop ==
  /\ smPc = "stop"
  /\ bStopNow' = TRUE
  /\ smPc' = IF l_bResetMotion THEN "finish" ELSE "waitStop"
  /\ UNCHANGED <<eventVars, taskVars, armVars, l_bKillMotTask, l_bResetMotion,
                 l_nNextState, nMotionMode>>
  /\ SmUnchanged

\* wait(bStopNow == false) ...
SmWaitStop ==
  /\ ~bStopNow
  /\ Goto("waitStop", "kill")
  /\ UNCHANGED <<bStopNow, eventVars, taskVars, armVars, l_bKillMotTask,
                 l_bResetMotion, l_nNextState, nMotionMode>>
  /\ SmUnchanged

\* ... taskKill(sMotionTask) ...
SmKill ==
  /\ Goto("kill", "reset")
  /\ motionProg' = "NONE" /\ motionPc' = "loop" /\ l_bVelReady' = FALSE
  /\ UNCHANGED <<bStopNow, eventVars, armVars, l_bKillMotTask, l_bResetMotion,
                 l_nNextState, nMotionMode>>
  /\ SmUnchanged

\* Mutant: the motion is not reset after the task was killed.
noReset == UNCHANGED armVars

\* The controller forgets its queued movements and leaves the velocity mode.
resetArm == moves' = <<>> /\ velMode' = "NONE" /\ velCmd' = 0

\* ... and resetMotion().
SmReset ==
  /\ Goto("reset", "create")
  /\ resetArm
  /\ UNCHANGED <<bStopNow, eventVars, taskVars, l_bKillMotTask, l_bResetMotion,
                 l_nNextState, nMotionMode>>
  /\ SmUnchanged

\* The program that moves the arm in a motion mode.
ProgramOf(mode) ==
  IF mode = "JOINT_TRAJ" THEN "motionControl" ELSE "motionCtrlVel"

SmCreate ==
  /\ Goto("create", "finish")
  /\ motionProg' = ProgramOf(l_nNextState) /\ motionPc' = "loop"
  /\ l_bVelReady' = FALSE
  /\ UNCHANGED <<bStopNow, eventVars, armVars, l_bKillMotTask, l_bResetMotion,
                 l_nNextState, nMotionMode>>
  /\ SmUnchanged

\* Mutant: the new mode is not recorded.
ModeNotRecorded == nMotionMode

\* The mode after a transition that succeeded.
RecordedMode == IF l_nNextState = "INVALID" THEN nMotionMode ELSE l_nNextState

\* The new mode is recorded, and the flags are reset for the next iteration.
SmFinish ==
  /\ Goto("finish", "wait")
  /\ nMotionMode' = RecordedMode
  /\ l_bKillMotTask' = FALSE /\ l_bResetMotion' = FALSE
  /\ UNCHANGED <<bStopNow, eventVars, taskVars, armVars, l_nNextState>>
  /\ SmUnchanged

StateMachineStep ==
  \/ SmWake \/ SmClear \/ SmDecide \/ SmStop \/ SmWaitStop
  \/ SmKill \/ SmReset \/ SmCreate \/ SmFinish
=============================================================================
