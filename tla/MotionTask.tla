---------------------------- MODULE MotionTask -----------------------------
(***************************************************************************)
(* The synchronous task sMotionTask.  It runs motionControl in mode        *)
(* JOINT_TRAJ and motionCtrlVel in mode VELOCITY_CTRL; an iteration is not *)
(* interrupted, except that motionControl waits in waitEndMove().          *)
(***************************************************************************)
EXTENDS RosServerGlobals

MotionUnchanged ==
  UNCHANGED <<connVars, eventVars, nMotionPossible, motionProg, smVars, sysVars,
              powerVars, recvHist>>

\* Mutant: the motion task ignores the stop flag.
MayMoveAlways == nConnFlagMotion = 1 /\ nConnFlagState = 1

\* Both connections are up and no stop is requested.
MayMove == nConnFlagMotion = 1 /\ nConnFlagState = 1 /\ ~bStopNow

\* resetMotion(): the controller forgets its queued movements and leaves the
\* velocity mode.
resetMotion == moves' = <<>> /\ velMode' = "NONE" /\ velCmd' = 0

\* A velocity above 2 marks the last point of a trajectory.
Endpoint(p) == p.vel > 200

\* Mutant: the newest point of qTrajPtBuffer is taken.
InterpolatedNewest ==
  IF qTrajPtBuffer # <<>> /\ Len(qMoveBuffer) < QSize
  THEN Append(qMoveBuffer, qTrajPtBuffer[Len(qTrajPtBuffer)])
  ELSE qMoveBuffer

\* qMoveBuffer after the oldest point of qTrajPtBuffer was moved to it.
Interpolated ==
  IF qTrajPtBuffer # <<>> /\ Len(qMoveBuffer) < QSize
  THEN Append(qMoveBuffer, Head(qTrajPtBuffer))
  ELSE qMoveBuffer

\* The point given to movej() in this iteration.
Pick == Head(Interpolated)

\* An iteration of motionControl that moves a point.
MoveJoint ==
  /\ motionProg = "motionControl" /\ motionPc = "loop"
  /\ MayMove
  /\ Interpolated # <<>>
  /\ qTrajPtBuffer' = IF qTrajPtBuffer = <<>> THEN <<>> ELSE Tail(qTrajPtBuffer)
  /\ qMoveBuffer' = Tail(Interpolated)
  /\ moves' = Append(moves, [id |-> Pick.id, final |-> Endpoint(Pick)])
  /\ lastMoved' = Pick.id
  /\ nTrajectoryComplete' = IF Endpoint(Pick) THEN 1 ELSE nTrajectoryComplete
  /\ motionPc' = IF Endpoint(Pick) THEN "waitEndMove" ELSE "loop"
  /\ UNCHANGED <<velVars, bStopNow, l_bVelReady, velMode, velCmd, lastVelCmd>>
  /\ MotionUnchanged

\* waitEndMove() returns when no movement is left.
EndMove ==
  /\ motionProg = "motionControl" /\ motionPc = "waitEndMove"
  /\ moves = <<>>
  /\ motionPc' = "loop"
  /\ UNCHANGED <<queueVars, velVars, bStopNow, nTrajectoryComplete, l_bVelReady,
                 armVars, moveHist>>
  /\ MotionUnchanged

\* Mutant: stopping keeps the points that were not yet moved.
ClearMoveBufferOnly == qMoveBuffer' = <<>> /\ UNCHANGED qTrajPtBuffer

ClearBuffers == qTrajPtBuffer' = <<>> /\ qMoveBuffer' = <<>>

\* An iteration of motionControl that may not move stops immediately.
StopJoint ==
  /\ motionProg = "motionControl" /\ motionPc = "loop"
  /\ ~MayMove
  /\ resetMotion
  /\ ClearBuffers
  /\ bStopNow' = FALSE
  /\ UNCHANGED <<velVars, nTrajectoryComplete, motionPc, l_bVelReady, moveHist>>
  /\ MotionUnchanged

-----------------------------------------------------------------------------
\* The velocity mode after an iteration tried to start it: $velJoint always
\* succeeds, $velFrame and $velTool may fail, other types are refused.
StartVelocity ==
  IF l_bVelReady THEN {velMode}
  ELSE CASE motionCfgVel = "JOINT" -> {"JOINT"}
         [] motionCfgVel \in {"BASE_FRAME", "TOOL_FRAME"} -> {motionCfgVel, velMode}
         [] OTHER -> {velMode}

\* Mutant: the executed command is kept.
CommandKept == motionCmdVel

\* The velocity command left behind: zero, so that it is not repeated.
CommandReset == 0

\* An iteration of motionCtrlVel that may move.
MoveVelocity ==
  /\ motionProg = "motionCtrlVel"
  /\ MayMove
  /\ velMode' \in StartVelocity
  /\ l_bVelReady' = (l_bVelReady \/ velMode' # "NONE")
  /\ \/ /\ l_bVelReady'
        /\ velCmd' = motionCmdVel
        /\ lastVelCmd' = IF motionCmdVel = 0 THEN lastVelCmd ELSE motionCmdVel
        /\ motionCmdVel' = CommandReset
     \/ /\ ~l_bVelReady'
        /\ UNCHANGED <<velCmd, lastVelCmd, motionCmdVel>>
  /\ UNCHANGED <<queueVars, motionCfgVel, bStopNow, nTrajectoryComplete, motionPc,
                 moves, lastMoved>>
  /\ MotionUnchanged

\* An iteration of motionCtrlVel that may not move ends the velocity mode.
StopVelocity ==
  /\ motionProg = "motionCtrlVel"
  /\ ~MayMove
  /\ resetMotion
  /\ l_bVelReady' = FALSE
  /\ motionCmdVel' = 0
  /\ bStopNow' = FALSE
  /\ UNCHANGED <<queueVars, motionCfgVel, nTrajectoryComplete, motionPc, moveHist>>
  /\ MotionUnchanged

MotionTaskStep ==
  MoveJoint \/ EndMove \/ StopJoint \/ MoveVelocity \/ StopVelocity
=============================================================================
