------------------------- MODULE RosServerGlobals --------------------------
(***************************************************************************)
(* The globals of the VAL3 program ros_server, the locals its tasks keep   *)
(* between iterations, and the part of the CS8/CS9 controller they drive.  *)
(* The tasks are modelled in DataReceiver, MotionTask, StateMachineTask    *)
(* and ConnectionTasks, and composed in RosServer.                         *)
(***************************************************************************)
EXTENDS Integers, Sequences

CONSTANTS
  ClientMsgs,   \* the messages a client may send on the motion socket
  QSize,        \* capacity of qTrajPtBuffer and qMoveBuffer (10 in the code)
  MaxMsgs,      \* bound: messages received on the motion socket
  MaxLinks,     \* bound: times a TCP connection is lost
  MaxRequests,  \* bound: requests received on the system and IO sockets
  MaxPower      \* bound: times the drive power changes

TrajTypes   == {"JOINT_TRAJ_PT", "JOINT_TRAJ_PT_F"}
MotionTypes == TrajTypes \cup {"VELOCITY_CFG", "VELOCITY_CMD"}

\* Staubli:VelocityType; "OTHER" stands for every number it does not name.
VelocityType == {"INVALID", "JOINT", "BASE_FRAME", "TOOL_FRAME", "OTHER"}

\* A motion message after decoding.  stop: the sequence number is STOP (-4).
\* vel is the scalar velocity in hundredths: 20 is the ratio 0.2, and a
\* sender marks the last point of a trajectory by adding 2.0, that is 200.
Msg == [type : MotionTypes, stop : BOOLEAN, request : BOOLEAN,
        inRange : BOOLEAN, vel : Nat, velType : VelocityType]

ASSUME MsgAssumption   == ClientMsgs \subseteq Msg
ASSUME BoundAssumption == /\ QSize \in Nat \ {0}
                          /\ MaxMsgs \in Nat
                          /\ MaxLinks \in Nat
                          /\ MaxRequests \in Nat
                          /\ MaxPower \in Nat

VARIABLES
  \* TCP connections of the motion and state sockets, and what the tasks know
  linkMotion, linkState, nConnFlagMotion, nConnFlagState, htbtPc,
  \* the motion buffers and velocity data
  qTrajPtBuffer, qMoveBuffer, motionCfgVel, motionCmdVel,
  \* flags between the tasks
  bStopNow, bMotionMsgEvent, nMotionMsgType, nMotionMode,
  \* rosStatusMsg.robotStatus
  nMotionPossible, nTrajectoryComplete,
  \* the task sMotionTask: its program, where it is, and its local
  motionProg, motionPc, l_bVelReady,
  \* the task sStateMachTask: where it is, and its locals
  smPc, l_bKillMotTask, l_bResetMotion, l_nNextState,
  \* the task sSysRequestTask
  sysPc,
  \* the controller: queued movements, velocity mode and command, drive power
  moves, velMode, velCmd, powered,
  \* counters for the bounds
  nLinks, nRequests, nPower,
  \* history: messages received; newest point given to movej, newest velocity
  \* command given to $setVelCmd, newest STOP received, and whether a velocity
  \* configuration was received
  nRecv, lastMoved, lastVelCmd, lastStop, configured

connVars   == <<linkMotion, linkState, nConnFlagMotion, nConnFlagState, htbtPc,
                nLinks>>
queueVars  == <<qTrajPtBuffer, qMoveBuffer>>
velVars    == <<motionCfgVel, motionCmdVel>>
eventVars  == <<bMotionMsgEvent, nMotionMsgType>>
statusVars == <<nMotionPossible, nTrajectoryComplete>>
taskVars   == <<motionProg, motionPc, l_bVelReady>>
smVars     == <<smPc, l_bKillMotTask, l_bResetMotion, l_nNextState, nMotionMode>>
sysVars    == <<sysPc, nRequests>>
armVars    == <<moves, velMode, velCmd>>
powerVars  == <<powered, nPower>>
recvHist   == <<nRecv, lastStop, configured>>
moveHist   == <<lastMoved, lastVelCmd>>

vars == <<connVars, queueVars, velVars, bStopNow, eventVars, statusVars,
          taskVars, smVars, sysVars, armVars, powerVars, recvHist, moveHist>>

\* A trajectory point in a motion buffer: the number of the message it came
\* in and mDesc.vel as pushMotion stored it, in hundredths.
Point == [id : 1 .. MaxMsgs, vel : Nat \ {0}]

\* A queued movement of the controller.
Move == [id : 1 .. MaxMsgs, final : BOOLEAN]

\* The numbers of the messages stored in a buffer or queue are increasing,
\* and above those of the points moved before.
Ordered(s) == \A i, j \in 1 .. Len(s) : i < j => s[i].id < s[j].id

\* start.pgx: both motion buffers empty, every socket disconnected, the
\* standard motion mode, and one task per program of the ros_server.
Init ==
  /\ linkMotion = FALSE /\ linkState = FALSE
  /\ nConnFlagMotion = 0 /\ nConnFlagState = 0
  /\ htbtPc = "poll"
  /\ qTrajPtBuffer = <<>> /\ qMoveBuffer = <<>>
  /\ motionCfgVel = "INVALID" /\ motionCmdVel = 0
  /\ bStopNow = FALSE
  /\ bMotionMsgEvent = FALSE /\ nMotionMsgType = "NONE"
  /\ nMotionMode = "JOINT_TRAJ"
  /\ nMotionPossible = 0 /\ nTrajectoryComplete = 0
  /\ motionProg = "motionControl" /\ motionPc = "loop" /\ l_bVelReady = FALSE
  /\ smPc = "wait" /\ l_bKillMotTask = FALSE /\ l_bResetMotion = FALSE
  /\ l_nNextState = "INVALID"
  /\ sysPc = "receive"
  /\ moves = <<>> /\ velMode = "NONE" /\ velCmd = 0
  /\ powered \in BOOLEAN
  /\ nLinks = 0 /\ nRequests = 0 /\ nPower = 0
  /\ nRecv = 0 /\ lastMoved = 0 /\ lastVelCmd = 0 /\ lastStop = 0
  /\ configured = FALSE
=============================================================================
