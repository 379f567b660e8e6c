----------------------------- MODULE RosServer -----------------------------
(***************************************************************************)
(* The VAL3 program ros_server: the composition of its tasks, which share  *)
(* their globals.  Synchronous tasks run to completion, asynchronous ones  *)
(* are interleaved with them line by line; no order and no relative speed  *)
(* of the tasks is assumed, so an overrun of a period is covered.          *)
(***************************************************************************)
EXTENDS DataReceiver, MotionTask, StateMachineTask, ConnectionTasks

Receive   == (\E m \in ClientMsgs : ReceiveMotion(m)) \/ PollMotion
Requests  == ReceiveIO \/ ReceiveSystem \/ HandleSystem
Heartbeat == HeartbeatPoll \/ HeartbeatConnected
World     == Connect \/ Disconnect \/ PowerChange \/ ArmMoves

Next ==
  \/ Receive
  \/ Requests
  \/ MotionTaskStep
  \/ StateMachineStep
  \/ Heartbeat
  \/ Stream
  \/ World

Spec == Init /\ [][Next]_vars

\* Each task is scheduled again and again (a period of 4 ms, or a share of
\* the remaining time), and the controller carries out queued movements while
\* it has power.  Clients, connections and power are under no obligation.
Fairness ==
  /\ WF_vars(PollMotion)
  /\ WF_vars(HandleSystem)
  /\ WF_vars(MotionTaskStep)
  /\ WF_vars(StateMachineStep)
  /\ WF_vars(Heartbeat)
  /\ WF_vars(Stream)
  /\ WF_vars(ArmMoves)

FairSpec == Spec /\ Fairness

-----------------------------------------------------------------------------
(***************************************************************************)
(* Invariants                                                              *)
(***************************************************************************)

Flag == {-1, 0, 1}

TypeOK ==
  /\ linkMotion \in BOOLEAN /\ linkState \in BOOLEAN
  /\ nConnFlagMotion \in Flag /\ nConnFlagState \in Flag
  /\ htbtPc \in {"poll", "delay"}
  /\ qTrajPtBuffer \in Seq(Point) /\ Len(qTrajPtBuffer) <= QSize
  /\ qMoveBuffer \in Seq(Point) /\ Len(qMoveBuffer) <= QSize
  /\ motionCfgVel \in VelocityType /\ motionCmdVel \in 0 .. MaxMsgs
  /\ bStopNow \in BOOLEAN /\ bMotionMsgEvent \in BOOLEAN
  /\ nMotionMsgType \in MotionTypes \cup {"NONE"}
  /\ nMotionMode \in {"JOINT_TRAJ", "VELOCITY_CTRL"}
  /\ nMotionPossible \in {0, 1} /\ nTrajectoryComplete \in {0, 1}
  /\ motionProg \in {"motionControl", "motionCtrlVel", "NONE"}
  /\ motionPc \in {"loop", "waitEndMove"} /\ l_bVelReady \in BOOLEAN
  /\ smPc \in {"wait", "clear", "decide", "stop", "waitStop", "kill", "reset",
               "create", "finish"}
  /\ l_bKillMotTask \in BOOLEAN /\ l_bResetMotion \in BOOLEAN
  /\ l_nNextState \in {"INVALID", "JOINT_TRAJ", "VELOCITY_CTRL"}
  /\ sysPc \in {"receive", "handle"}
  /\ moves \in Seq(Move)
  /\ velMode \in {"NONE", "JOINT", "BASE_FRAME", "TOOL_FRAME"}
  /\ velCmd \in 0 .. MaxMsgs
  /\ powered \in BOOLEAN
  /\ nLinks \in 0 .. MaxLinks /\ nRequests \in 0 .. MaxRequests
  /\ nPower \in 0 .. MaxPower
  /\ nRecv \in 0 .. MaxMsgs /\ lastMoved \in 0 .. MaxMsgs
  /\ lastVelCmd \in 0 .. MaxMsgs /\ lastStop \in 0 .. MaxMsgs
  /\ configured \in BOOLEAN

\* Whenever the state machine is ready for the next event, the motion task
\* runs the program of nMotionMode, and l_nNextState, which is not reset
\* between iterations, is either unset or that mode: otherwise the event of a
\* velocity reconfiguration, which sets no next state, would write a stale
\* one to nMotionMode.
ModeMatchesTask ==
  smPc \in {"wait", "clear", "decide"} =>
    /\ motionProg = ProgramOf(nMotionMode)
    /\ l_nNextState \in {"INVALID", nMotionMode}

\* The points waiting in the two buffers, oldest first.
Pending == qMoveBuffer \o qTrajPtBuffer

\* The points in the buffers are in the order in which they were received and
\* newer than every point given to movej() before.
PendingInOrder ==
  /\ Ordered(Pending)
  /\ \A i \in 1 .. Len(Pending) : Pending[i].id \in lastMoved + 1 .. nRecv

\* The velocity command that waits is newer than every one executed before:
\* motionCtrlVel resets it (line 70: "fail-safe, avoiding repeated execution of
\* old commands") although the receiver may write it at any time.
CommandNotRepeated == motionCmdVel # 0 => motionCmdVel > lastVelCmd

-----------------------------------------------------------------------------
(***************************************************************************)
(* Properties of steps                                                     *)
(***************************************************************************)

\* The points added to the controller's queue by a step.
Queued(p) == Len(moves') > Len(moves) /\ p = moves'[Len(moves')]

NewerThanStop == \A p \in Move : Queued(p) => p.id > lastStop

\* A point received before a STOP is not given to movej() after the STOP, whatever
\* the client has sent: what the comment at pushMotion.pgx:42 promises.
StopDiscardsAlways == [][NewerThanStop]_vars

\* It is so as long as the client has not configured a velocity mode.  Then there is
\* only motionControl to serve the STOP, and it clears the buffers.
StopDiscards == [][~configured => NewerThanStop]_vars

-----------------------------------------------------------------------------
(***************************************************************************)
(* Refinement                                                              *)
(***************************************************************************)

Arm == INSTANCE ArmMotion
         WITH Ids <- 1 .. MaxMsgs,
              Reference <- {"JOINT", "BASE_FRAME", "TOOL_FRAME"}

\* The tasks together drive the arm as ArmMotion says.  What could go wrong is
\* spread over all of them: a program of the motion task may leave movements,
\* or the velocity mode, behind when it is killed between clearing bStopNow and
\* taskKill, and points or commands that arrive while the program is replaced
\* wait in the buffers for a later one.
ImplementsArm == Arm!ArmSpec

-----------------------------------------------------------------------------
(***************************************************************************)
(* Liveness                                                                *)
(***************************************************************************)

PowerStays == <>[]powered

\* A stop that is requested is carried out, and a change of the motion mode
\* that was begun is ended, if the arm can end the movement waitEndMove() waits
\* for.
StopServed    == PowerStays => (bStopNow ~> ~bStopNow)
TransitionEnds == PowerStays => (smPc # "wait" ~> smPc = "wait")

\* When the motion client is gone for good the arm ends up with nothing to do.
DeadClientStopsArm ==
  PowerStays /\ <>[]~linkMotion => <>[](moves = <<>> /\ velMode = "NONE")

\* When velocity commands stop coming the arm stands still: a command is
\* followed for one iteration only.
JogStops == velCmd # 0 ~> velCmd = 0

\* When a velocity configuration is the last motion message that was stored, the
\* arm ends up in the configured velocity mode, whatever the state machine was
\* doing when it and the messages before it arrived.
LatestConfigInForce ==
  /\ PowerStays /\ <>[](linkMotion /\ linkState)
  /\ <>[](nMotionMsgType = "VELOCITY_CFG" /\ motionCfgVel = "JOINT")
  => <>[](velMode = "JOINT")

\* A point that was stored is moved or discarded, if the motion mode is that of
\* trajectories in the end: in the other mode a point waits for the change.
PointsServed ==
  PowerStays /\ <>[](nMotionMode = "JOINT_TRAJ") => (Pending # <<>> ~> Pending = <<>>)
=============================================================================
