--------------------------- MODULE DataReceiver ----------------------------
(***************************************************************************)
(* The program dataReceiver, which runs as three tasks: synchronously on   *)
(* the motion socket, where one iteration receives a message, decodes it,  *)
(* stores the motion and sends the acknowledgement without being           *)
(* interrupted, and asynchronously on the system and the IO socket.        *)
(***************************************************************************)
EXTENDS RosServerGlobals

\* limit(vel * 100, 0, 100) of the message's ratio, in hundredths.
Percent(vel) == IF vel > 100 THEN 10000 ELSE 100 * vel

\* A sequence number of STOP means nothing in a velocity configuration.
IsStop(m) == m.stop /\ m.type # "VELOCITY_CFG"

\* l_mTrajPt.mDesc.vel: the ratio as sent for JOINT_TRAJ_PT, a percentage
\* for JOINT_TRAJ_PT_F.
StoredVel(m) == IF m.type = "JOINT_TRAJ_PT" THEN m.vel ELSE Percent(m.vel)

\* A point pushMotion may store: within the joint limits, and movej() will
\* not accept a velocity that is not positive.
Acceptable(m) == m.inRange /\ StoredVel(m) > 0

\* nMotionMsgType and, except for a velocity command, the event that wakes
\* the state machine.
RaiseEvent(m) ==
  /\ nMotionMsgType' = m.type
  /\ bMotionMsgEvent' = (bMotionMsgEvent \/ m.type # "VELOCITY_CMD")

\* Mutant: the test for a full buffer is off by one.
RoomOffByOne == Len(qTrajPtBuffer) <= QSize

\* The test of libQueueFuncs:push.
Room == Len(qTrajPtBuffer) < QSize

\* libQueueFuncs:push(qTrajPtBuffer, l_mTrajPt, l_bOk) and its failure.
StorePoint(m, id) ==
  \/ /\ Acceptable(m) /\ Room
     /\ qTrajPtBuffer' = Append(qTrajPtBuffer, [id |-> id, vel |-> StoredVel(m)])
     /\ RaiseEvent(m)
  \/ /\ ~(Acceptable(m) /\ Room)
     /\ UNCHANGED <<qTrajPtBuffer, eventVars>>

\* What pushMotion does with a message while motion is possible: a STOP only
\* raises the stop flag, a point goes to qTrajPtBuffer, a configuration or a
\* velocity command replaces the previous one (a command of an unknown type
\* is stored as zero velocity).
pushMotionPossible(m, id) ==
  \/ /\ m.type \in TrajTypes /\ m.stop
     /\ bStopNow' = TRUE
     /\ RaiseEvent(m)
     /\ UNCHANGED <<qTrajPtBuffer, velVars>>
  \/ /\ m.type \in TrajTypes /\ ~m.stop
     /\ StorePoint(m, id)
     /\ UNCHANGED <<bStopNow, velVars>>
  \/ /\ m.type = "VELOCITY_CFG"
     /\ motionCfgVel' = m.velType
     /\ RaiseEvent(m)
     /\ UNCHANGED <<qTrajPtBuffer, bStopNow, motionCmdVel>>
  \/ /\ m.type = "VELOCITY_CMD" /\ m.stop
     /\ bStopNow' = TRUE
     /\ RaiseEvent(m)
     /\ UNCHANGED <<qTrajPtBuffer, velVars>>
  \/ /\ m.type = "VELOCITY_CMD" /\ ~m.stop
     /\ motionCmdVel' = IF m.velType \in {"INVALID", "OTHER"} THEN 0 ELSE id
     /\ RaiseEvent(m)
     /\ UNCHANGED <<qTrajPtBuffer, bStopNow, motionCfgVel>>

\* While motion is not possible the message is dropped and the motion task is
\* told to reset the motion and to clear the buffers.
pushMotion(m, id) ==
  \/ /\ nMotionPossible = 1
     /\ pushMotionPossible(m, id)
  \/ /\ nMotionPossible = 0
     /\ bStopNow' = TRUE
     /\ UNCHANGED <<qTrajPtBuffer, velVars, eventVars>>

\* sendAck of a service request may find the connection broken.
SendAck(m) ==
  \/ nConnFlagMotion' = 1
  \/ m.request /\ nConnFlagMotion' = -1

\* An iteration that receives message m whole.  decodeMsgBody may fail, and
\* then nothing is stored; nTrajectoryComplete is reset before it is tried.
ReceiveMotion(m) ==
  /\ linkMotion
  /\ nRecv < MaxMsgs
  /\ nRecv' = nRecv + 1
  /\ nTrajectoryComplete' = 0
  /\ \/ /\ pushMotion(m, nRecv + 1)
        /\ lastStop' = IF IsStop(m) THEN nRecv + 1 ELSE lastStop
        /\ configured' = (configured \/ m.type = "VELOCITY_CFG")
     \/ UNCHANGED <<qTrajPtBuffer, velVars, bStopNow, eventVars, lastStop, configured>>
  /\ SendAck(m)
  /\ UNCHANGED <<linkMotion, linkState, nConnFlagState, htbtPc, nLinks,
                 qMoveBuffer, nMotionPossible, taskVars, smVars, sysVars,
                 armVars, powerVars, moveHist>>

\* Mutant: a lost connection is not noticed.
ConnFlagStuck(link, flag) == IF link THEN 1 ELSE flag

\* x_nConnFlag after recvData found no byte on the socket.
ConnFlag(link, flag) == IF link THEN 1 ELSE IF flag = 1 THEN -1 ELSE flag

\* An iteration that receives nothing.
PollMotion ==
  /\ nConnFlagMotion' = ConnFlag(linkMotion, nConnFlagMotion)
  /\ nConnFlagMotion' # nConnFlagMotion
  /\ UNCHANGED <<linkMotion, linkState, nConnFlagState, htbtPc, nLinks,
                 queueVars, velVars, bStopNow, eventVars, statusVars, taskVars,
                 smVars, sysVars, armVars, powerVars, recvHist, moveHist>>

-----------------------------------------------------------------------------
(* The two asynchronous receivers.  They share nothing with the motion     *)
(* tasks but nTrajectoryComplete, which they too reset for every message,  *)
(* and the drive power.                                                    *)

RequestUnchanged ==
  UNCHANGED <<connVars, queueVars, velVars, bStopNow, eventVars,
              nMotionPossible, taskVars, smVars, armVars, recvHist, moveHist>>

\* A WRITE_SINGLE_IO request.
ReceiveIO ==
  /\ nRequests < MaxRequests
  /\ nRequests' = nRequests + 1
  /\ nTrajectoryComplete' = 0
  /\ UNCHANGED <<sysPc, powerVars>>
  /\ RequestUnchanged

\* A SET_DRIVE_POWER request, until it is decoded ...
ReceiveSystem ==
  /\ sysPc = "receive"
  /\ nRequests < MaxRequests
  /\ nRequests' = nRequests + 1
  /\ nTrajectoryComplete' = 0
  /\ sysPc' = "handle"
  /\ UNCHANGED powerVars
  /\ RequestUnchanged

\* ... and handleRequest.  enablePower() has no effect unless the controller
\* is in remote mode.
HandleSystem ==
  /\ sysPc = "handle"
  /\ sysPc' = "receive"
  /\ powered' \in BOOLEAN
  /\ UNCHANGED <<nRequests, nPower, nTrajectoryComplete>>
  /\ RequestUnchanged
=============================================================================
