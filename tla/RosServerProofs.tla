-------------------------- MODULE RosServerProofs --------------------------
(***************************************************************************)
(* For every set of messages, every capacity of the buffers and every      *)
(* bound: the tasks of the ros_server are type-correct, the motion task    *)
(* runs the program of the current mode, stored points and commands are    *)
(* new and in order, and the arm is driven as ArmMotion promises.          *)
(***************************************************************************)
EXTENDS RosServer, SequenceTheorems, TLAPS

(***************************************************************************)
(* Type correctness.  TypeOK is proved part by part: an action leaves most *)
(* groups of variables alone, and Frame deals with those.                  *)
(***************************************************************************)

ConnType   == /\ linkMotion \in BOOLEAN /\ linkState \in BOOLEAN
              /\ nConnFlagMotion \in Flag /\ nConnFlagState \in Flag
              /\ htbtPc \in {"poll", "delay"} /\ nLinks \in 0 .. MaxLinks
TrajType   == qTrajPtBuffer \in Seq(Point) /\ Len(qTrajPtBuffer) <= QSize
MoveType   == qMoveBuffer \in Seq(Point) /\ Len(qMoveBuffer) <= QSize
VelType    == motionCfgVel \in VelocityType /\ motionCmdVel \in 0 .. MaxMsgs
StopType   == bStopNow \in BOOLEAN
EventType  == /\ bMotionMsgEvent \in BOOLEAN
              /\ nMotionMsgType \in MotionTypes \cup {"NONE"}
StatusType == nMotionPossible \in {0, 1} /\ nTrajectoryComplete \in {0, 1}
TaskType   == /\ motionProg \in {"motionControl", "motionCtrlVel", "NONE"}
              /\ motionPc \in {"loop", "waitEndMove"} /\ l_bVelReady \in BOOLEAN
SmType     == /\ nMotionMode \in {"JOINT_TRAJ", "VELOCITY_CTRL"}
              /\ smPc \in {"wait", "clear", "decide", "stop", "waitStop", "kill",
                           "reset", "create", "finish"}
              /\ l_bKillMotTask \in BOOLEAN /\ l_bResetMotion \in BOOLEAN
              /\ l_nNextState \in {"INVALID", "JOINT_TRAJ", "VELOCITY_CTRL"}
SysType    == sysPc \in {"receive", "handle"} /\ nRequests \in 0 .. MaxRequests
ArmType    == /\ moves \in Seq(Move)
              /\ velMode \in {"NONE", "JOINT", "BASE_FRAME", "TOOL_FRAME"}
              /\ velCmd \in 0 .. MaxMsgs
PowerType  == powered \in BOOLEAN /\ nPower \in 0 .. MaxPower
RecvType   == /\ nRecv \in 0 .. MaxMsgs /\ lastStop \in 0 .. MaxMsgs
              /\ configured \in BOOLEAN
MovedType  == lastMoved \in 0 .. MaxMsgs /\ lastVelCmd \in 0 .. MaxMsgs

\* TypeOK has one part for each group of variables.
LEMMA TypeParts ==
  TypeOK <=> /\ ConnType /\ TrajType /\ MoveType /\ VelType /\ StopType
             /\ EventType /\ StatusType /\ TaskType /\ SmType /\ SysType
             /\ ArmType /\ PowerType /\ RecvType /\ MovedType
BY DEF TypeOK, ConnType, TrajType, MoveType, VelType, StopType, EventType,
       StatusType, TaskType, SmType, SysType, ArmType, PowerType, RecvType,
       MovedType

\* The same of the next state.
LEMMA TypePartsNext ==
  (TypeOK)' <=> /\ ConnType' /\ TrajType' /\ MoveType' /\ VelType' /\ StopType'
                /\ EventType' /\ StatusType' /\ TaskType' /\ SmType' /\ SysType'
                /\ ArmType' /\ PowerType' /\ RecvType' /\ MovedType'
BY TypeParts, PTL

\* What a step leaves alone keeps its type.
LEMMA Frame ==
  ASSUME TypeOK
  PROVE  /\ UNCHANGED connVars => ConnType'
         /\ UNCHANGED qTrajPtBuffer => TrajType'
         /\ UNCHANGED qMoveBuffer => MoveType'
         /\ UNCHANGED velVars => VelType'
         /\ UNCHANGED bStopNow => StopType'
         /\ UNCHANGED eventVars => EventType'
         /\ UNCHANGED statusVars => StatusType'
         /\ UNCHANGED taskVars => TaskType'
         /\ UNCHANGED smVars => SmType'
         /\ UNCHANGED sysVars => SysType'
         /\ UNCHANGED armVars => ArmType'
         /\ UNCHANGED powerVars => PowerType'
         /\ UNCHANGED recvHist => RecvType'
         /\ UNCHANGED moveHist => MovedType'
<1>1. UNCHANGED connVars => ConnType'
  BY TypeParts DEF connVars, ConnType
<1>2. /\ UNCHANGED qTrajPtBuffer => TrajType'
      /\ UNCHANGED qMoveBuffer => MoveType'
  BY TypeParts DEF TrajType, MoveType
<1>3. /\ UNCHANGED velVars => VelType'
      /\ UNCHANGED bStopNow => StopType'
      /\ UNCHANGED eventVars => EventType'
      /\ UNCHANGED statusVars => StatusType'
  BY TypeParts DEF velVars, VelType, StopType, eventVars, EventType, statusVars,
                   StatusType
<1>4. /\ UNCHANGED taskVars => TaskType'
      /\ UNCHANGED smVars => SmType'
      /\ UNCHANGED sysVars => SysType'
  BY TypeParts DEF taskVars, TaskType, smVars, SmType, sysVars, SysType
<1>5. /\ UNCHANGED armVars => ArmType'
      /\ UNCHANGED powerVars => PowerType'
      /\ UNCHANGED recvHist => RecvType'
      /\ UNCHANGED moveHist => MovedType'
  BY TypeParts DEF armVars, ArmType, powerVars, PowerType, recvHist, RecvType,
                   moveHist, MovedType
<1> QED
  BY <1>1, <1>2, <1>3, <1>4, <1>5

LEMMA InitType == Init => TypeOK
<1> SUFFICES ASSUME Init PROVE TypeOK
  OBVIOUS
<1> USE BoundAssumption DEF Init
<1>1. ConnType
  <2>1. nConnFlagMotion \in Flag /\ nConnFlagState \in Flag /\ nLinks \in 0 .. MaxLinks
    BY DEF Flag
  <2>2. linkMotion \in BOOLEAN /\ linkState \in BOOLEAN /\ htbtPc \in {"poll", "delay"}
    OBVIOUS
  <2> QED
    BY <2>1, <2>2 DEF ConnType
<1>2. TrajType /\ MoveType
  BY DEF TrajType, MoveType
<1>3. VelType /\ StatusType
  BY DEF VelType, VelocityType, StatusType
<1>4. StopType /\ EventType
  BY DEF StopType, EventType
<1>5. TaskType
  BY DEF TaskType
<1>6. SmType
  BY DEF SmType
<1>7. SysType
  BY DEF SysType
<1>8. ArmType
  BY DEF ArmType
<1>9. PowerType /\ RecvType /\ MovedType
  <2>1. PowerType
    BY DEF PowerType
  <2>2. RecvType
    <3>1. nRecv = 0 /\ lastStop = 0 /\ configured = FALSE
      OBVIOUS
    <3>2. 0 \in 0 .. MaxMsgs
      OBVIOUS
    <3> QED
      BY <3>1, <3>2, Zenon DEF RecvType
  <2>3. MovedType
    BY DEF MovedType
  <2> QED
    BY <2>1, <2>2, <2>3
<1> QED
  BY <1>1, <1>2, <1>3, <1>4, <1>5, <1>6, <1>7, <1>8, <1>9, TypeParts

\* pushMotion stores a point with a positive velocity and a command with the
\* number of its message.
LEMMA PushType ==
  ASSUME TypeOK, NEW m \in Msg, NEW id \in 1 .. MaxMsgs, pushMotion(m, id)
  PROVE  TrajType' /\ VelType' /\ StopType' /\ EventType'
<1>1. CASE nMotionPossible = 0
  BY <1>1, Frame DEF pushMotion, StopType
<1>2. CASE nMotionPossible = 1
  <2> pushMotionPossible(m, id)
    BY <1>2 DEF pushMotion
  <2>1. EventType'
    <3>1. RaiseEvent(m) => EventType'
      BY TypeParts DEF RaiseEvent, EventType, Msg
    <3> QED
      BY <3>1, Frame DEF pushMotionPossible, StorePoint
  <2>2. StopType'
    BY TypeParts, Frame DEF pushMotionPossible, StorePoint, StopType
  <2>3. VelType'
    <3>1. m.velType \in VelocityType /\ (m.type = "VELOCITY_CFG" => m.type \notin TrajTypes)
      BY DEF Msg, TrajTypes
    <3>2. motionCfgVel' \in VelocityType
      BY <3>1, TypeParts DEF pushMotionPossible, StorePoint, VelType, velVars
    <3>3. motionCmdVel' \in 0 .. MaxMsgs
      BY TypeParts, BoundAssumption DEF pushMotionPossible, StorePoint, VelType, velVars
    <3> QED
      BY <3>2, <3>3 DEF VelType
  <2>4. TrajType'
    <3>1. ASSUME Acceptable(m), Room,
                 qTrajPtBuffer' = Append(qTrajPtBuffer, [id |-> id, vel |-> StoredVel(m)])
          PROVE  TrajType'
      <4>1. [id |-> id, vel |-> StoredVel(m)] \in Point
        BY <3>1 DEF Point, Acceptable, StoredVel, Percent, Msg
      <4> QED
        BY <3>1, <4>1, TypeParts, BoundAssumption DEF TrajType, Room
    <3> QED
      BY <3>1, Frame DEF pushMotionPossible, StorePoint
  <2> QED
    BY <2>1, <2>2, <2>3, <2>4
<1> QED
  BY <1>1, <1>2, TypeParts DEF StatusType

\* The receiver keeps the types, whatever it receives on whichever socket.
LEMMA ReceiverType ==
  ASSUME TypeOK, Receive \/ Requests PROVE TypeOK'
<1>1. ASSUME NEW m \in ClientMsgs, ReceiveMotion(m) PROVE TypeOK'
  <2> USE <1>1 DEF ReceiveMotion
  <2>1. m \in Msg /\ nRecv + 1 \in 1 .. MaxMsgs
    BY MsgAssumption, BoundAssumption, TypeParts DEF RecvType
  <2>2. TrajType' /\ VelType' /\ StopType' /\ EventType'
    BY <2>1, PushType, Frame
  <2>3. RecvType'
    <3>1. nRecv' = nRecv + 1 /\ lastStop' \in {lastStop, nRecv + 1} /\ configured' \in BOOLEAN
      BY TypeParts DEF RecvType
    <3>2. nRecv + 1 \in 0 .. MaxMsgs /\ lastStop \in 0 .. MaxMsgs
      BY <2>1, TypeParts DEF RecvType
    <3> QED
      BY <3>1, <3>2 DEF RecvType
  <2>4. ConnType' /\ MoveType' /\ StatusType'
    BY TypeParts, Frame DEF SendAck, ConnType, Flag, StatusType
  <2>5. TaskType' /\ SmType' /\ SysType' /\ ArmType' /\ PowerType' /\ MovedType'
    BY Frame
  <2> QED
    BY <2>2, <2>3, <2>4, <2>5, TypePartsNext
<1>2. CASE PollMotion
  <2>1. ConnType'
    BY <1>2, TypeParts DEF PollMotion, ConnFlag, ConnType, Flag
  <2> QED
    BY <1>2, <2>1, Frame, TypePartsNext DEF PollMotion, queueVars
<1>3. ASSUME RequestUnchanged, StatusType', SysType', PowerType' PROVE TypeOK'
  BY <1>3, Frame, TypePartsNext DEF RequestUnchanged, queueVars
<1>4. CASE ReceiveIO \/ ReceiveSystem
  <2>1. StatusType' /\ SysType' /\ PowerType'
    BY <1>4, TypeParts, Frame, BoundAssumption
       DEF ReceiveIO, ReceiveSystem, RequestUnchanged, StatusType, SysType
  <2> QED
    BY <1>3, <1>4, <2>1 DEF ReceiveIO, ReceiveSystem
<1>5. CASE HandleSystem
  <2>1. StatusType' /\ SysType'
    BY <1>5, TypeParts DEF HandleSystem, RequestUnchanged, StatusType, SysType
  <2>2. PowerType'
    BY <1>5, TypeParts DEF HandleSystem, PowerType
  <2> QED
    BY <1>3, <1>5, <2>1, <2>2 DEF HandleSystem
<1> QED
  BY <1>1, <1>2, <1>4, <1>5 DEF Receive, Requests

\* The steps of the motion task: the two programs, in both branches.
LEMMA MotionTaskType ==
  ASSUME TypeOK, MotionTaskStep PROVE TypeOK'
<1>0. ASSUME MotionUnchanged, TrajType', MoveType', VelType', StopType',
             nTrajectoryComplete' \in {0, 1}, TaskType', ArmType', MovedType'
      PROVE  TypeOK'
  <2>1. StatusType'
    BY <1>0, TypeParts DEF MotionUnchanged, StatusType
  <2> QED
    BY <1>0, <2>1, Frame, TypePartsNext DEF MotionUnchanged
<1>1. CASE MoveJoint
  <2> USE <1>1, BoundAssumption DEF MoveJoint
  <2>1. Interpolated \in Seq(Point) /\ Len(Interpolated) <= QSize
    BY TypeParts DEF Interpolated, TrajType, MoveType
  <2>2. Pick \in Point
    BY <2>1 DEF Pick
  <2>3. TrajType' /\ MoveType'
    BY <2>1, TypeParts DEF TrajType, MoveType
  <2>4. ArmType'
    <3>1. [id |-> Pick.id, final |-> Endpoint(Pick)] \in Move
      <4>1. Endpoint(Pick) \in BOOLEAN
        BY DEF Endpoint
      <4> QED
        BY <2>2, <4>1 DEF Move, Point
    <3> QED
      BY <3>1, TypeParts DEF ArmType
  <2>5. MovedType'
    BY <2>2, TypeParts DEF Point, MovedType
  <2>6. TaskType'
    BY TypeParts DEF TaskType, MotionUnchanged
  <2>7. VelType' /\ StopType' /\ nTrajectoryComplete' \in {0, 1}
    BY TypeParts, Frame DEF StatusType
  <2> QED
    BY <1>0, <2>3, <2>4, <2>5, <2>6, <2>7
<1>2. CASE EndMove
  <2>1. TaskType' /\ nTrajectoryComplete' \in {0, 1}
    BY <1>2, TypeParts DEF EndMove, MotionUnchanged, TaskType, StatusType
  <2> QED
    BY <1>0, <1>2, <2>1, Frame DEF EndMove, queueVars
<1>3. ASSUME resetMotion PROVE ArmType'
  BY <1>3, TypeParts, BoundAssumption DEF resetMotion, ArmType
<1>4. CASE StopJoint
  <2> USE <1>4 DEF StopJoint
  <2>1. TrajType' /\ MoveType'
    BY BoundAssumption DEF ClearBuffers, TrajType, MoveType
  <2>3. StopType'
    BY DEF StopType
  <2>2. TaskType' /\ nTrajectoryComplete' \in {0, 1}
    BY TypeParts DEF MotionUnchanged, TaskType, StatusType
  <2> QED
    BY <1>0, <1>3, <2>1, <2>2, <2>3, Frame
<1>5. CASE MoveVelocity
  <2> USE <1>5 DEF MoveVelocity
  <2>1. velMode' \in {"NONE", "JOINT", "BASE_FRAME", "TOOL_FRAME"}
    BY TypeParts DEF StartVelocity, ArmType
  <2>2. velCmd' \in 0 .. MaxMsgs /\ motionCmdVel' \in 0 .. MaxMsgs
    BY TypeParts, BoundAssumption DEF ArmType, VelType, CommandReset
  <2>3. MovedType'
    BY TypeParts DEF MovedType, VelType
  <2>4. TaskType' /\ nTrajectoryComplete' \in {0, 1}
    BY TypeParts DEF MotionUnchanged, TaskType, StatusType
  <2>5. VelType' /\ ArmType'
    BY <2>1, <2>2, TypeParts DEF VelType, ArmType
  <2> QED
    BY <1>0, <2>3, <2>4, <2>5, Frame DEF queueVars
<1>6. CASE StopVelocity
  <2> USE <1>6 DEF StopVelocity
  <2>1. VelType'
    BY TypeParts, BoundAssumption DEF VelType
  <2>3. StopType'
    BY DEF StopType
  <2>2. TaskType' /\ nTrajectoryComplete' \in {0, 1}
    BY TypeParts DEF MotionUnchanged, TaskType, StatusType
  <2> QED
    BY <1>0, <1>3, <2>1, <2>2, <2>3, Frame DEF queueVars
<1> QED
  BY <1>1, <1>2, <1>4, <1>5, <1>6 DEF MotionTaskStep

\* The steps of the state machine.
LEMMA StateMachineType ==
  ASSUME TypeOK, StateMachineStep PROVE TypeOK'
<1>0. ASSUME SmUnchanged, StopType', EventType', TaskType', ArmType', SmType'
      PROVE  TypeOK'
  BY <1>0, Frame, TypePartsNext DEF SmUnchanged, queueVars
<1>1. CASE SmWake \/ SmClear
  <2>1. SmType' /\ EventType'
    BY <1>1, TypeParts DEF SmWake, SmClear, Goto, SmType, eventVars, EventType
  <2> QED
    BY <1>0, <1>1, <2>1, Frame DEF SmWake, SmClear
<1>2. CASE SmDecide
  <2>1. SmType'
    BY <1>2, TypeParts DEF SmDecide, SmType, MustKill, MustReset
  <2> QED
    BY <1>0, <1>2, <2>1, Frame DEF SmDecide
<1>3. CASE SmStop
  <2>1. SmType' /\ StopType'
    BY <1>3, TypeParts DEF SmStop, SmType, StopType
  <2> QED
    BY <1>0, <1>3, <2>1, Frame DEF SmStop
<1>4. CASE SmWaitStop \/ SmFinish
  <2>1. SmType'
    BY <1>4, TypeParts DEF SmWaitStop, SmFinish, Goto, SmType, RecordedMode
  <2> QED
    BY <1>0, <1>4, <2>1, Frame DEF SmWaitStop, SmFinish
<1>5. CASE SmKill \/ SmCreate
  <2>1. SmType' /\ TaskType'
    BY <1>5, TypeParts DEF SmKill, SmCreate, Goto, SmType, TaskType, ProgramOf
  <2> QED
    BY <1>0, <1>5, <2>1, Frame DEF SmKill, SmCreate
<1>6. CASE SmReset
  <2>1. SmType'
    BY <1>6, TypeParts DEF SmReset, Goto, SmType
  <2>2. ArmType'
    BY <1>6, TypeParts, BoundAssumption DEF SmReset, resetArm, ArmType
  <2> QED
    BY <1>0, <1>6, <2>1, <2>2, Frame DEF SmReset
<1> QED
  BY <1>1, <1>2, <1>3, <1>4, <1>5, <1>6 DEF StateMachineStep

\* The heartbeat, the streamer and the world around the controller.
LEMMA WorldType ==
  ASSUME TypeOK, Heartbeat \/ Stream \/ World PROVE TypeOK'
<1>0. ASSUME NoTaskUnchanged, ConnType', StatusType', ArmType', PowerType'
      PROVE  TypeOK'
  BY <1>0, Frame, TypePartsNext DEF NoTaskUnchanged, queueVars
<1>1. CASE Heartbeat
  <2>1. ConnType'
    BY <1>1, TypeParts DEF Heartbeat, HeartbeatPoll, HeartbeatConnected, ConnType, Flag
  <2> QED
    BY <1>0, <1>1, <2>1, Frame DEF Heartbeat, HeartbeatPoll, HeartbeatConnected
<1>2. CASE Stream
  <2>1. ConnType' /\ StatusType'
    BY <1>2, TypeParts DEF Stream, ConnType, Flag, StatusType
  <2> QED
    BY <1>0, <1>2, <2>1, Frame DEF Stream
<1>3. CASE Connect
  <2>1. linkMotion' \in BOOLEAN /\ linkState' \in BOOLEAN
    <3>1. linkMotion \in BOOLEAN /\ linkState \in BOOLEAN
      BY TypeParts DEF ConnType
    <3> QED
      BY <1>3, <3>1 DEF Connect
  <2>2. ConnType'
    BY <1>3, <2>1, TypeParts DEF Connect, ConnType
  <2> QED
    BY <1>0, <1>3, <2>2, Frame DEF Connect
<1>4. CASE Disconnect
  <2>1. linkMotion' \in BOOLEAN /\ linkState' \in BOOLEAN
    <3>1. linkMotion \in BOOLEAN /\ linkState \in BOOLEAN
      BY TypeParts DEF ConnType
    <3> QED
      BY <1>4, <3>1 DEF Disconnect
  <2>2. ConnType'
    BY <1>4, <2>1, TypeParts, BoundAssumption DEF Disconnect, ConnType
  <2> QED
    BY <1>0, <1>4, <2>2, Frame DEF Disconnect
<1>5. CASE PowerChange
  <2>1. PowerType'
    BY <1>5, TypeParts, BoundAssumption DEF PowerChange, PowerType
  <2> QED
    BY <1>0, <1>5, <2>1, Frame DEF PowerChange
<1>6. CASE ArmMoves
  <2>1. ArmType'
    BY <1>6, TypeParts DEF ArmMoves, ArmType
  <2> QED
    BY <1>0, <1>6, <2>1, Frame DEF ArmMoves
<1> QED
  BY <1>1, <1>2, <1>3, <1>4, <1>5, <1>6 DEF World

\* Every step of every task keeps the types.
LEMMA StepType == TypeOK /\ [Next]_vars => TypeOK'
<1> SUFFICES ASSUME TypeOK, [Next]_vars PROVE TypeOK'
  OBVIOUS
<1>1. CASE UNCHANGED vars
  BY <1>1, Frame, TypePartsNext DEF vars, queueVars
<1> QED
  BY <1>1, ReceiverType, MotionTaskType, StateMachineType, WorldType DEF Next

\* Every reachable state is type-correct: no buffer overflows, no step stores a
\* velocity that movej() would not accept.
THEOREM TypeCorrect == Spec => []TypeOK
BY InitType, StepType, PTL DEF Spec

-----------------------------------------------------------------------------
(***************************************************************************)
(* The state machine and the motion task.  ModeMatchesTask says nothing of *)
(* the states in which the state machine replaces the program; Transition  *)
(* follows it through all of them.                                         *)
(***************************************************************************)

OtherMode(mode) ==
  IF mode = "JOINT_TRAJ" THEN "VELOCITY_CTRL" ELSE "JOINT_TRAJ"

Transition ==
  /\ ModeMatchesTask
  /\ smPc = "stop" =>
       /\ motionProg = ProgramOf(nMotionMode)
       /\ IF l_bResetMotion THEN l_nNextState \in {"INVALID", nMotionMode}
                            ELSE l_nNextState = OtherMode(nMotionMode)
  /\ smPc \in {"waitStop", "kill"} =>
       /\ motionProg = ProgramOf(nMotionMode)
       /\ l_nNextState = OtherMode(nMotionMode)
  /\ smPc \in {"reset", "create"} =>
       /\ motionProg = "NONE"
       /\ l_nNextState = OtherMode(nMotionMode)
  /\ smPc = "finish" => motionProg = ProgramOf(RecordedMode)

LEMMA InitTransition == Init => Transition
BY DEF Init, Transition, ModeMatchesTask, ProgramOf

\* Every line of the state machine, and whatever happens between two of them, keeps
\* program and next mode in step.
LEMMA StepTransition == TypeOK /\ Transition /\ [Next]_vars => Transition'
<1> SUFFICES ASSUME TypeOK, Transition, [Next]_vars PROVE Transition'
  OBVIOUS
<1>1. ASSUME UNCHANGED motionProg, UNCHANGED smVars PROVE Transition'
  BY <1>1 DEF smVars, Transition, ModeMatchesTask, ProgramOf, OtherMode, RecordedMode
<1>2. CASE StateMachineStep
  <2> USE TypeParts DEF SmType, Transition, ModeMatchesTask, ProgramOf, OtherMode,
                        RecordedMode, Goto, taskVars
  <2>1. CASE SmWake \/ SmClear
    BY <2>1 DEF SmWake, SmClear
  <2>2. CASE SmDecide
    BY <2>2 DEF SmDecide, MustKill, MustReset, TrajTypes
  <2>3. CASE SmStop \/ SmWaitStop
    BY <2>3 DEF SmStop, SmWaitStop
  <2>4. CASE SmKill \/ SmReset
    BY <2>4 DEF SmKill, SmReset
  <2>5. CASE SmCreate \/ SmFinish
    BY <2>5 DEF SmCreate, SmFinish
  <2> QED
    BY <1>2, <2>1, <2>2, <2>3, <2>4, <2>5 DEF StateMachineStep
<1>3. CASE MotionTaskStep
  <2>1. MotionUnchanged
    BY <1>3 DEF MotionTaskStep, MoveJoint, EndMove, StopJoint, MoveVelocity, StopVelocity
  <2> QED
    BY <1>1, <2>1 DEF MotionUnchanged
<1>4. CASE Receive \/ Requests
  BY <1>1, <1>4 DEF Receive, Requests, ReceiveMotion, PollMotion, ReceiveIO,
                    ReceiveSystem, HandleSystem, RequestUnchanged, taskVars
<1>5. CASE Heartbeat \/ Stream \/ World
  BY <1>1, <1>5 DEF Heartbeat, HeartbeatPoll, HeartbeatConnected, Stream, World, Connect,
                    Disconnect, PowerChange, ArmMoves, NoTaskUnchanged, taskVars
<1>6. CASE UNCHANGED vars
  BY <1>1, <1>6 DEF vars, taskVars
<1> QED
  BY <1>2, <1>3, <1>4, <1>5, <1>6 DEF Next

\* Whenever the state machine waits for or looks at an event, the motion task
\* runs the program of the current motion mode.
THEOREM TaskMatchesMode == Spec => []ModeMatchesTask
<1>1. Transition => ModeMatchesTask
  BY DEF Transition
<1> QED
  BY <1>1, InitType, StepType, InitTransition, StepTransition, PTL DEF Spec

-----------------------------------------------------------------------------
(***************************************************************************)
(* The motion task and the arm.                                            *)
(***************************************************************************)

\* A program of the motion task never runs while the arm is in the hands of
\* the other one: what a killed program left behind is reset before "create".
OneMotion ==
  /\ motionProg = "motionCtrlVel" => moves = <<>>
  /\ motionProg = "motionControl" => velMode = "NONE"
  /\ smPc = "create" => moves = <<>> /\ velMode = "NONE"
  /\ l_bVelReady => motionProg = "motionCtrlVel" /\ velMode # "NONE"
  /\ motionProg = "motionCtrlVel" /\ velMode # "NONE" => l_bVelReady

\* qMoveBuffer, meant for interpolated points, never holds one between two
\* iterations; the points of qTrajPtBuffer and the velocity command are newer
\* than those used before.
Fresh ==
  /\ qMoveBuffer = <<>>
  /\ Ordered(qTrajPtBuffer)
  /\ \A i \in 1 .. Len(qTrajPtBuffer) : qTrajPtBuffer[i].id \in lastMoved + 1 .. nRecv
  /\ lastMoved <= nRecv /\ motionCmdVel <= nRecv /\ lastVelCmd <= nRecv
  /\ CommandNotRepeated

Inv == TypeOK /\ Transition /\ OneMotion /\ Fresh

LEMMA InitInv == Init => Inv
<1> SUFFICES ASSUME Init PROVE OneMotion /\ Fresh
  BY InitType, InitTransition DEF Inv
<1>1. OneMotion
  BY DEF Init, OneMotion
<1>2. Fresh
  BY DEF Init, Fresh, Ordered, CommandNotRepeated
<1> QED
  BY <1>1, <1>2

\* What a step of the receivers, the heartbeat, the streamer or the world keeps.
LEMMA OtherSteps ==
  ASSUME Receive \/ Requests \/ Heartbeat \/ Stream \/ World \/ UNCHANGED vars
  PROVE  /\ UNCHANGED taskVars /\ UNCHANGED smVars /\ UNCHANGED moveHist
         /\ UNCHANGED qMoveBuffer /\ UNCHANGED velMode /\ UNCHANGED velCmd
         /\ UNCHANGED moves \/ (moves # <<>> /\ moves' = Tail(moves))
<1>1. CASE Receive \/ Requests
  BY <1>1 DEF Receive, Requests, ReceiveMotion, PollMotion, ReceiveIO, ReceiveSystem,
              HandleSystem, RequestUnchanged, armVars, queueVars
<1>2. CASE Heartbeat \/ Stream
  BY <1>2 DEF Heartbeat, HeartbeatPoll, HeartbeatConnected, Stream, NoTaskUnchanged,
              armVars, queueVars
<1>3. CASE World
  BY <1>3 DEF World, Connect, Disconnect, PowerChange, ArmMoves, NoTaskUnchanged,
              armVars, queueVars
<1>4. CASE UNCHANGED vars
  BY <1>4 DEF vars, armVars, queueVars
<1> QED
  BY <1>1, <1>2, <1>3, <1>4

\* No step lets two programs have the arm.
LEMMA StepOneMotion == Inv /\ [Next]_vars => OneMotion'
<1> SUFFICES ASSUME TypeOK, Transition, OneMotion, [Next]_vars PROVE OneMotion'
  BY DEF Inv
<1> USE TypeParts DEF TaskType
<1>1. CASE Receive \/ Requests \/ Heartbeat \/ Stream \/ World \/ UNCHANGED vars
  BY <1>1, OtherSteps DEF taskVars, smVars, OneMotion
<1>2. CASE MotionTaskStep
  <2> USE <1>2 DEF OneMotion, MotionUnchanged, smVars, Transition, ArmType
  <2>1. CASE MoveJoint \/ EndMove
    BY <2>1 DEF MoveJoint, EndMove, armVars
  <2>2. CASE StopJoint
    BY <2>2 DEF StopJoint, resetMotion
  <2>3. CASE MoveVelocity
    BY <2>3 DEF MoveVelocity, StartVelocity
  <2>4. CASE StopVelocity
    BY <2>4 DEF StopVelocity, resetMotion
  <2> QED
    BY <2>1, <2>2, <2>3, <2>4 DEF MotionTaskStep
<1>3. CASE StateMachineStep
  <2> USE <1>3 DEF OneMotion, Goto, armVars, taskVars, Transition
  <2>1. CASE SmWake \/ SmClear \/ SmDecide \/ SmStop \/ SmWaitStop \/ SmFinish
    BY <2>1 DEF SmWake, SmClear, SmDecide, SmStop, SmWaitStop, SmFinish
  <2>2. CASE SmKill
    BY <2>2 DEF SmKill
  <2>3. CASE SmReset
    BY <2>3 DEF SmReset, resetArm
  <2>4. CASE SmCreate
    BY <2>4 DEF SmCreate, ProgramOf
  <2> QED
    BY <2>1, <2>2, <2>3, <2>4 DEF StateMachineStep
<1> QED
  BY <1>1, <1>2, <1>3 DEF Next

\* The newest message is newer than everything stored or used.
LEMMA PushFresh ==
  ASSUME TypeOK, Fresh, NEW m \in ClientMsgs, ReceiveMotion(m)
  PROVE  Fresh'
<1> DEFINE id == nRecv + 1
<1> USE DEF ReceiveMotion
<1>1. nRecv \in Nat /\ nRecv' = id /\ qTrajPtBuffer \in Seq(Point)
  BY TypeParts DEF RecvType, TrajType
<1>2. /\ UNCHANGED qMoveBuffer /\ UNCHANGED lastMoved /\ UNCHANGED lastVelCmd
      /\ lastMoved \in Nat /\ lastVelCmd \in Nat /\ motionCmdVel \in Nat
  BY TypeParts DEF moveHist, MovedType, VelType
<1>3. motionCmdVel' \in {motionCmdVel, 0, id}
  BY DEF pushMotion, pushMotionPossible, velVars
<1>4. CASE UNCHANGED qTrajPtBuffer
  BY <1>1, <1>2, <1>3, <1>4 DEF Fresh, Ordered, CommandNotRepeated
<1>5. CASE \E v : /\ qTrajPtBuffer' = Append(qTrajPtBuffer, [id |-> id, vel |-> v])
                  /\ [id |-> id, vel |-> v] \in Point
  <2>1. PICK v : /\ qTrajPtBuffer' = Append(qTrajPtBuffer, [id |-> id, vel |-> v])
                 /\ [id |-> id, vel |-> v] \in Point
    BY <1>5
  <2>2. /\ Len(qTrajPtBuffer') = Len(qTrajPtBuffer) + 1
        /\ \A i \in 1 .. Len(qTrajPtBuffer) : qTrajPtBuffer'[i] = qTrajPtBuffer[i]
        /\ qTrajPtBuffer'[Len(qTrajPtBuffer) + 1].id = id
    BY <2>1, <1>1, AppendProperties
  <2>3. \A i \in 1 .. Len(qTrajPtBuffer') : qTrajPtBuffer'[i].id \in lastMoved' + 1 .. nRecv'
    BY <2>2, <1>1, <1>2, SMTT(30) DEF Fresh
  <2>4. Ordered(qTrajPtBuffer)'
    <3> SUFFICES ASSUME NEW i \in 1 .. Len(qTrajPtBuffer'),
                        NEW j \in 1 .. Len(qTrajPtBuffer'), i < j
                 PROVE  qTrajPtBuffer'[i].id < qTrajPtBuffer'[j].id
      BY DEF Ordered
    <3>1. i \in 1 .. Len(qTrajPtBuffer) /\ qTrajPtBuffer[i].id \in lastMoved + 1 .. nRecv
      BY <2>2, <1>1 DEF Fresh
    <3>2. CASE j \in 1 .. Len(qTrajPtBuffer)
      BY <3>1, <3>2, <2>2 DEF Fresh, Ordered
    <3>3. CASE j = Len(qTrajPtBuffer) + 1
      BY <3>1, <3>3, <2>2, <1>1, <1>2
    <3> QED
      BY <3>2, <3>3, <2>2, <1>1
  <2>5. (CommandNotRepeated)' /\ motionCmdVel' <= nRecv'
    BY <1>1, <1>2, <1>3 DEF Fresh, CommandNotRepeated
  <2> QED
    BY <2>3, <2>4, <2>5, <1>1, <1>2 DEF Fresh
<1>6. UNCHANGED qTrajPtBuffer \/
      \E v : /\ qTrajPtBuffer' = Append(qTrajPtBuffer, [id |-> id, vel |-> v])
             /\ [id |-> id, vel |-> v] \in Point
  <2>1. ASSUME StorePoint(m, id), Acceptable(m)
        PROVE  [id |-> id, vel |-> StoredVel(m)] \in Point
    BY <2>1, MsgAssumption, BoundAssumption, <1>1
       DEF Point, Acceptable, StoredVel, Percent, Msg
  <2> QED
    BY <2>1 DEF pushMotion, pushMotionPossible, StorePoint
<1> QED
  BY <1>4, <1>5, <1>6

\* No step brings back a point or a command that is older than the newest message.
LEMMA StepFresh == Inv /\ [Next]_vars => Fresh'
<1> SUFFICES ASSUME TypeOK, OneMotion, Fresh, [Next]_vars PROVE Fresh'
  BY DEF Inv
<1>1. ASSUME UNCHANGED queueVars, UNCHANGED motionCmdVel, UNCHANGED nRecv,
             UNCHANGED moveHist
      PROVE  Fresh'
  BY <1>1 DEF queueVars, moveHist, Fresh, Ordered, CommandNotRepeated
<1>2. CASE Receive
  BY <1>1, <1>2, PushFresh DEF Receive, PollMotion, velVars, recvHist
<1>3. CASE Requests \/ Heartbeat \/ Stream \/ World \/ UNCHANGED vars
  BY <1>1, <1>3 DEF Requests, ReceiveIO, ReceiveSystem, HandleSystem, RequestUnchanged,
                    Heartbeat, HeartbeatPoll, HeartbeatConnected, Stream, World, Connect,
                    Disconnect, PowerChange, ArmMoves, NoTaskUnchanged, vars, velVars,
                    recvHist
<1>4. CASE StateMachineStep
  BY <1>1, <1>4 DEF StateMachineStep, SmWake, SmClear, SmDecide, SmStop, SmWaitStop,
                    SmKill, SmReset, SmCreate, SmFinish, SmUnchanged, velVars, recvHist
<1>5. CASE MoveJoint
  <2> USE <1>5 DEF MoveJoint
  <2> DEFINE q == qTrajPtBuffer
  <2>1. /\ q \in Seq(Point) /\ q # <<>> /\ nRecv \in Nat /\ lastMoved \in Nat
        /\ lastVelCmd \in Nat /\ motionCmdVel \in Nat
    BY TypeParts DEF TrajType, RecvType, MovedType, VelType, Fresh, Interpolated
  <2>2. Interpolated = <<Head(q)>>
    BY <2>1, BoundAssumption DEF Fresh, Interpolated
  <2>3. /\ q' = Tail(q) /\ qMoveBuffer' = <<>> /\ lastMoved' = q[1].id
    BY <2>1, <2>2 DEF Pick
  <2>4. /\ Len(q') = Len(q) - 1
        /\ \A i \in 1 .. Len(q') : q'[i] = q[i + 1]
    BY <2>1, <2>3, HeadTailProperties
  <2>5. UNCHANGED nRecv /\ UNCHANGED motionCmdVel /\ UNCHANGED lastVelCmd
    BY DEF MotionUnchanged, recvHist, velVars
  <2>6. Ordered(q)'
    BY <2>1, <2>4 DEF Fresh, Ordered
  <2>7. \A i \in 1 .. Len(q') : q'[i].id \in lastMoved' + 1 .. nRecv'
    <3> TAKE i \in 1 .. Len(q')
    <3>1. 1 \in 1 .. Len(q) /\ i + 1 \in 1 .. Len(q) /\ 1 < i + 1
      BY <2>1, <2>4
    <3> QED
      BY <3>1, <2>1, <2>3, <2>4, <2>5 DEF Fresh, Ordered
  <2>8. lastMoved' <= nRecv'
    <3>1. 1 \in 1 .. Len(q)
      BY <2>1
    <3> QED
      BY <3>1, <2>1, <2>3, <2>5 DEF Fresh
  <2> QED
    BY <2>3, <2>5, <2>6, <2>7, <2>8 DEF Fresh, CommandNotRepeated
<1>6. CASE EndMove
  BY <1>1, <1>6 DEF EndMove, MotionUnchanged, velVars, recvHist
<1>7. CASE StopJoint
  <2>1. qTrajPtBuffer' = <<>> /\ qMoveBuffer' = <<>>
    BY <1>7 DEF StopJoint, ClearBuffers
  <2>2. UNCHANGED nRecv /\ UNCHANGED motionCmdVel /\ UNCHANGED moveHist
    BY <1>7 DEF StopJoint, MotionUnchanged, velVars, recvHist
  <2> QED
    BY <2>1, <2>2 DEF Fresh, Ordered, CommandNotRepeated, moveHist
<1>8. CASE MoveVelocity \/ StopVelocity
  <2>1. /\ UNCHANGED queueVars /\ UNCHANGED nRecv /\ UNCHANGED lastMoved
        /\ \/ motionCmdVel' = 0 /\ lastVelCmd' \in {lastVelCmd, motionCmdVel}
           \/ UNCHANGED motionCmdVel /\ UNCHANGED lastVelCmd
    BY <1>8 DEF MoveVelocity, StopVelocity, CommandReset, MotionUnchanged, recvHist,
                moveHist
  <2>2. nRecv \in Nat
    BY TypeParts DEF RecvType
  <2> QED
    BY <2>1, <2>2 DEF queueVars, Fresh, Ordered, CommandNotRepeated
<1> QED
  BY <1>2, <1>3, <1>4, <1>5, <1>6, <1>7, <1>8 DEF Next, MotionTaskStep

\* Every step keeps the invariant.
LEMMA StepInv == Inv /\ [Next]_vars => Inv'
BY StepType, StepTransition, StepOneMotion, StepFresh DEF Inv

\* The points in the buffers are in the order of their arrival and newer than
\* every point that was given to movej().
THEOREM PointsInOrder == Spec => []PendingInOrder
<1>1. Inv => PendingInOrder
  <2> SUFFICES ASSUME Inv PROVE PendingInOrder
    OBVIOUS
  <2>1. Pending = qTrajPtBuffer
    <3>1. qTrajPtBuffer \in Seq(Point)
      BY TypeParts DEF Inv, TrajType
    <3> QED
      BY <3>1 DEF Inv, Fresh, Pending
  <2> QED
    BY <2>1 DEF Inv, Fresh, PendingInOrder
<1> QED
  BY <1>1, InitInv, StepInv, PTL DEF Spec

\* A velocity command is executed in one iteration of motionCtrlVel at most.
THEOREM CommandsOnce == Spec => []CommandNotRepeated
<1>1. Inv => CommandNotRepeated
  BY DEF Inv, Fresh
<1> QED
  BY <1>1, InitInv, StepInv, PTL DEF Spec

-----------------------------------------------------------------------------
(***************************************************************************)
(* The refinement: every step of a task drives the arm as one step of      *)
(* ArmMotion, or leaves it alone.                                          *)
(***************************************************************************)

\* Every step is one of the abstract arm, or changes nothing of it.
LEMMA RefineStep == Inv /\ [Next]_vars => [Arm!ArmNext]_(Arm!armVars)
<1> SUFFICES ASSUME Inv, [Next]_vars PROVE Arm!ArmNext \/ UNCHANGED Arm!armVars
  OBVIOUS
<1>0. ASSUME UNCHANGED armVars, UNCHANGED moveHist PROVE UNCHANGED Arm!armVars
  BY <1>0 DEF armVars, moveHist, Arm!armVars
<1>1. CASE Receive \/ Requests \/ Heartbeat \/ Stream \/ World \/ UNCHANGED vars
  BY <1>1, OtherSteps DEF moveHist, Arm!ArmNext, Arm!EndOldestMove, Arm!armVars
<1>2. CASE StateMachineStep
  <2>1. UNCHANGED moveHist
    BY <1>2 DEF StateMachineStep, SmWake, SmClear, SmDecide, SmStop, SmWaitStop, SmKill,
                SmReset, SmCreate, SmFinish, SmUnchanged
  <2>2. UNCHANGED armVars \/ resetArm
    BY <1>2 DEF StateMachineStep, SmWake, SmClear, SmDecide, SmStop, SmWaitStop, SmKill,
                SmReset, SmCreate, SmFinish
  <2> QED
    BY <1>0, <2>1, <2>2 DEF resetArm, moveHist, Arm!ArmNext, Arm!StopArm
<1>3. CASE MoveJoint
  <2> USE <1>3 DEF MoveJoint
  <2> DEFINE final == Endpoint(Pick)
  <2>1. qTrajPtBuffer \in Seq(Point) /\ qTrajPtBuffer # <<>> /\ lastMoved \in Nat
    BY TypeParts DEF Inv, TrajType, MovedType, Fresh, Interpolated
  <2>2. Pick = qTrajPtBuffer[1]
    BY <2>1, BoundAssumption DEF Inv, Fresh, Interpolated, Pick
  <2>3. Pick.id \in 1 .. MaxMsgs /\ Pick.id > lastMoved
    <3>1. 1 \in 1 .. Len(qTrajPtBuffer) /\ qTrajPtBuffer[1] \in Point
      BY <2>1
    <3> QED
      BY <3>1, <2>1, <2>2 DEF Inv, Fresh, Point
  <2>4. final \in BOOLEAN
    BY DEF Endpoint
  <2>5. velMode = "NONE"
    BY DEF Inv, OneMotion
  <2>6. Arm!QueueMove
    BY <2>3, <2>4, <2>5 DEF Arm!QueueMove
  <2> QED
    BY <2>6 DEF Arm!ArmNext
<1>4. CASE EndMove
  BY <1>0, <1>4 DEF EndMove
<1>5. CASE StopJoint \/ StopVelocity
  BY <1>5 DEF StopJoint, StopVelocity, resetMotion, moveHist, Arm!ArmNext, Arm!StopArm
<1>6. CASE MoveVelocity
  <2> USE <1>6 DEF MoveVelocity
  <2>1. CASE ~l_bVelReady'
    <3>1. UNCHANGED velMode
      BY <2>1, TypeParts DEF Inv, OneMotion, TaskType
    <3> QED
      BY <2>1, <3>1 DEF Arm!armVars
  <2>2. CASE l_bVelReady'
    <3>1. moves = <<>> /\ (velMode # "NONE" => velMode' = velMode)
      BY DEF Inv, OneMotion, StartVelocity
    <3>2. velMode' \in {"JOINT", "BASE_FRAME", "TOOL_FRAME"}
      BY <2>2, TypeParts DEF Inv, OneMotion, StartVelocity, ArmType
    <3>3. \/ velCmd' = 0 /\ UNCHANGED lastVelCmd
          \/ velCmd' \in 1 .. MaxMsgs /\ velCmd' > lastVelCmd /\ lastVelCmd' = velCmd'
      BY <2>2, TypeParts DEF Inv, Fresh, CommandNotRepeated, VelType
    <3>4. Arm!FollowCommand
      BY <3>1, <3>2, <3>3 DEF Arm!FollowCommand
    <3> QED
      BY <3>4 DEF Arm!ArmNext
  <2> QED
    BY <2>1, <2>2
<1> QED
  BY <1>1, <1>2, <1>3, <1>4, <1>5, <1>6 DEF Next, MotionTaskStep

\* The tasks of the ros_server together drive the arm as ArmMotion says: by
\* movements or by velocity commands, each used at most once and in order.
THEOREM RefinesArm == Spec => ImplementsArm
<1>1. Init => Arm!ArmInit
  BY DEF Init, Arm!ArmInit
<1> QED
  BY <1>1, InitInv, StepInv, RefineStep, PTL DEF Spec, ImplementsArm, Arm!ArmSpec

-----------------------------------------------------------------------------
(***************************************************************************)
(* Stopping a trajectory, until a client configures a velocity mode.  Then *)
(* a point can be moved after a STOP: the run FindStalePoint.              *)
(***************************************************************************)

\* Until then the motion task does not leave motionControl, and as long as a point
\* older than the newest STOP is stored, bStopNow is set.
Trajectories ==
  /\ motionProg = "motionControl" /\ nMotionMode = "JOINT_TRAJ"
  /\ nMotionMsgType # "VELOCITY_CFG"
  /\ smPc \in {"wait", "clear", "decide", "finish"} /\ l_nNextState = "INVALID"
  /\ lastStop <= nRecv
  /\ (\E i \in 1 .. Len(qTrajPtBuffer) : qTrajPtBuffer[i].id <= lastStop) => bStopNow

StopPending == ~configured => Trajectories

\* A point older than the newest STOP is gone before bStopNow is.
LEMMA StepTrajectories ==
  ASSUME Inv, Trajectories, [Next]_vars, ~configured'
  PROVE  Trajectories'
<1> TypeOK /\ Fresh
  BY DEF Inv
<1>1. ASSUME UNCHANGED <<taskVars, smVars, eventVars, recvHist, bStopNow, qTrajPtBuffer>>
      PROVE  Trajectories'
  BY <1>1 DEF taskVars, smVars, eventVars, recvHist, Trajectories
<1>2. ASSUME NEW m \in ClientMsgs, ReceiveMotion(m) PROVE Trajectories'
  <2> USE <1>2 DEF ReceiveMotion
  <2>1. m \in Msg
    BY MsgAssumption
  <2>2. nRecv \in Nat /\ lastStop \in Nat /\ nRecv' = nRecv + 1 /\ qTrajPtBuffer \in Seq(Point)
    BY TypeParts DEF RecvType, TrajType
  <2>3. /\ UNCHANGED taskVars /\ UNCHANGED smVars
        /\ nMotionMsgType' # "VELOCITY_CFG"
    BY <2>1 DEF Trajectories, pushMotion, pushMotionPossible, StorePoint, RaiseEvent,
                eventVars, TrajTypes
  <2>4. bStopNow => bStopNow'
    BY <2>1 DEF pushMotion, pushMotionPossible, TrajTypes
  <2>5. CASE IsStop(m) /\ lastStop' = nRecv + 1
    <3>1. bStopNow' \/ lastStop' = lastStop
      BY <2>1 DEF IsStop, pushMotion, pushMotionPossible, TrajTypes
    <3> QED
      BY <2>2, <2>3, <2>5, <3>1 DEF Trajectories, taskVars, smVars
  <2>6. CASE lastStop' = lastStop
    <3>1. CASE UNCHANGED qTrajPtBuffer
      BY <2>2, <2>3, <2>4, <2>6, <3>1 DEF Trajectories, taskVars, smVars
    <3>2. CASE \E v : qTrajPtBuffer' = Append(qTrajPtBuffer, [id |-> nRecv + 1, vel |-> v])
                      /\ [id |-> nRecv + 1, vel |-> v] \in Point
      <4>1. PICK v : qTrajPtBuffer' = Append(qTrajPtBuffer, [id |-> nRecv + 1, vel |-> v])
                     /\ [id |-> nRecv + 1, vel |-> v] \in Point
        BY <3>2
      <4>2. /\ Len(qTrajPtBuffer') = Len(qTrajPtBuffer) + 1
            /\ \A i \in 1 .. Len(qTrajPtBuffer) : qTrajPtBuffer'[i] = qTrajPtBuffer[i]
            /\ qTrajPtBuffer'[Len(qTrajPtBuffer) + 1].id = nRecv + 1
        BY <4>1, <2>2, AppendProperties
      <4> QED
        BY <4>2, <2>2, <2>3, <2>4, <2>6 DEF Trajectories, taskVars, smVars
    <3>3. UNCHANGED qTrajPtBuffer \/
          \E v : qTrajPtBuffer' = Append(qTrajPtBuffer, [id |-> nRecv + 1, vel |-> v])
                 /\ [id |-> nRecv + 1, vel |-> v] \in Point
      <4>1. ASSUME Acceptable(m) PROVE [id |-> nRecv + 1, vel |-> StoredVel(m)] \in Point
        BY <4>1, <2>1, <2>2, BoundAssumption DEF Point, Acceptable, StoredVel, Percent, Msg
      <4> QED
        BY <4>1 DEF pushMotion, pushMotionPossible, StorePoint
    <3> QED
      BY <3>1, <3>2, <3>3
  <2> QED
    BY <2>5, <2>6
<1>3. CASE PollMotion
  BY <1>1, <1>3 DEF PollMotion, queueVars
<1>4. CASE Requests \/ Heartbeat \/ Stream \/ World \/ UNCHANGED vars
  BY <1>1, <1>4 DEF Requests, ReceiveIO, ReceiveSystem, HandleSystem, RequestUnchanged,
                    Heartbeat, HeartbeatPoll, HeartbeatConnected, Stream, World, Connect,
                    Disconnect, PowerChange, ArmMoves, NoTaskUnchanged, vars, queueVars
<1>5. CASE MoveJoint
  <2>1. UNCHANGED bStopNow /\ ~bStopNow /\ UNCHANGED recvHist /\ UNCHANGED smVars
        /\ UNCHANGED eventVars /\ UNCHANGED motionProg
    BY <1>5 DEF MoveJoint, MayMove, MotionUnchanged
  <2>2. qTrajPtBuffer \in Seq(Point)
    BY TypeParts DEF TrajType
  <2>3. \A i \in 1 .. Len(qTrajPtBuffer') :
          i + 1 \in 1 .. Len(qTrajPtBuffer) /\ qTrajPtBuffer'[i] = qTrajPtBuffer[i + 1]
    <3>1. CASE qTrajPtBuffer = <<>>
      BY <1>5, <3>1 DEF MoveJoint
    <3>2. CASE qTrajPtBuffer # <<>>
      BY <1>5, <2>2, <3>2, HeadTailProperties DEF MoveJoint
    <3> QED
      BY <3>1, <3>2
  <2> QED
    BY <2>1, <2>3 DEF Trajectories, recvHist, smVars, eventVars
<1>6. CASE StopJoint
  BY <1>6 DEF StopJoint, ClearBuffers, MotionUnchanged, Trajectories, recvHist, smVars,
              eventVars
<1>7. CASE EndMove
  BY <1>7 DEF EndMove, MotionUnchanged, Trajectories, recvHist, smVars, eventVars, queueVars
<1>8. CASE MoveVelocity \/ StopVelocity
  BY <1>8 DEF MoveVelocity, StopVelocity, Trajectories
<1>9. CASE StateMachineStep
  <2>1. SmWake \/ SmClear \/ SmDecide \/ SmFinish
    BY <1>9 DEF StateMachineStep, Trajectories, SmStop, SmWaitStop, SmKill, SmReset,
                SmCreate, Goto
  <2>2. /\ UNCHANGED taskVars /\ UNCHANGED recvHist /\ UNCHANGED bStopNow
        /\ UNCHANGED qTrajPtBuffer /\ UNCHANGED nMotionMsgType
    BY <2>1 DEF SmWake, SmClear, SmDecide, SmFinish, SmUnchanged, eventVars, queueVars
  <2>3. smPc' \in {"wait", "clear", "decide", "finish"} /\ l_nNextState' = "INVALID"
        /\ nMotionMode' = "JOINT_TRAJ"
    BY <2>1 DEF Trajectories, SmWake, SmClear, SmDecide, SmFinish, Goto, MustKill, MustReset,
                RecordedMode, TrajTypes
  <2> QED
    BY <2>2, <2>3 DEF Trajectories, taskVars, recvHist
<1> QED
  BY <1>2, <1>3, <1>4, <1>5, <1>6, <1>7, <1>8, <1>9 DEF Next, Receive, MotionTaskStep

\* Nothing takes a configuration back.
LEMMA StepStopPending == Inv /\ StopPending /\ [Next]_vars => StopPending'
<1>1. [Next]_vars /\ configured => configured'
  <2>1. ASSUME NEW m \in ClientMsgs, ReceiveMotion(m)
        PROVE  configured => configured'
    BY <2>1 DEF ReceiveMotion
  <2>2. ~(\E m \in ClientMsgs : ReceiveMotion(m)) /\ [Next]_vars => UNCHANGED recvHist
    BY DEF Next, Receive, PollMotion, Requests, ReceiveIO, ReceiveSystem, HandleSystem,
           RequestUnchanged, Heartbeat, HeartbeatPoll, HeartbeatConnected, Stream, World,
           Connect, Disconnect, PowerChange, ArmMoves, NoTaskUnchanged, MotionTaskStep,
           MoveJoint, EndMove, StopJoint, MoveVelocity, StopVelocity, MotionUnchanged,
           StateMachineStep, SmWake, SmClear, SmDecide, SmStop, SmWaitStop, SmKill, SmReset,
           SmCreate, SmFinish, SmUnchanged, vars
  <2> QED
    BY <2>1, <2>2 DEF recvHist
<1> QED
  BY <1>1, StepTrajectories DEF StopPending

\* As long as no velocity mode was configured, no point received before a STOP is
\* given to movej() after it (motionControl clears the buffers when it serves the flag
\* that pushMotion sets).
THEOREM StopDiscardsPoints == Spec => StopDiscards
<1>1. Init => StopPending
  BY BoundAssumption DEF Init, StopPending, Trajectories
<1>2. ASSUME Inv, Trajectories, [Next]_vars, NEW p \in Move, Queued(p)
      PROVE  p.id > lastStop
  <2> TypeOK /\ Fresh
    BY <1>2 DEF Inv
  <2>1. moves \in Seq(Move) /\ qTrajPtBuffer \in Seq(Point)
    BY TypeParts DEF ArmType, TrajType
  <2>2. MoveJoint
    <3>1. CASE Receive \/ Requests \/ Heartbeat \/ Stream \/ World \/ UNCHANGED vars
      BY <1>2, <2>1, <3>1, OtherSteps DEF Queued
    <3>2. CASE StateMachineStep
      BY <1>2, <2>1, <3>2
         DEF Queued, StateMachineStep, SmWake, SmClear, SmDecide, SmStop, SmWaitStop,
             SmKill, SmReset, SmCreate, SmFinish, resetArm, armVars
    <3>3. CASE EndMove \/ StopJoint \/ MoveVelocity \/ StopVelocity
      BY <1>2, <2>1, <3>3
         DEF Queued, EndMove, StopJoint, MoveVelocity, StopVelocity, resetMotion, armVars
    <3> QED
      BY <1>2, <3>1, <3>2, <3>3 DEF Next, MotionTaskStep
  <2>3. qTrajPtBuffer # <<>> /\ Pick = qTrajPtBuffer[1] /\ p.id = Pick.id
    BY <1>2, <2>1, <2>2, BoundAssumption DEF MoveJoint, Fresh, Interpolated, Pick, Queued
  <2>4. ~bStopNow /\ 1 \in 1 .. Len(qTrajPtBuffer) /\ qTrajPtBuffer[1] \in Point
    BY <2>1, <2>2, <2>3 DEF MoveJoint, MayMove
  <2>5. lastStop \in Nat
    BY TypeParts DEF RecvType
  <2> QED
    BY <1>2, <2>3, <2>4, <2>5 DEF Trajectories, Point
<1>3. Inv /\ StopPending /\ [Next]_vars => [~configured => NewerThanStop]_vars
  BY <1>2 DEF StopPending, NewerThanStop
<1> QED
  BY <1>1, <1>3, StepStopPending, InitInv, StepInv, PTL DEF Spec, StopDiscards
=============================================================================
