------------------------------ MODULE MessageTypes ------------------------------
(***************************************************************************)
(* The data of the messages: which members every class writes and reads,   *)
(* in which order, and what its message does with them.                    *)
(***************************************************************************)
EXTENDS SimpleMessage

CONSTANTS
  MAX_NUM_JOINTS,   \* joints of a JointData
  MAX_NUM_POINTS    \* points of a JointTraj

ASSUME SizeAssumption == MAX_NUM_JOINTS \in Nat \ {0} /\ MAX_NUM_POINTS \in Nat \ {0}

-----------------------------------------------------------------------------
(* JointData, an array of which getJoint and setJoint know the bounds (the  *)
(* upper one).  f names the array in the object o; indices start at 0.      *)

JointIndices == 0 .. MAX_NUM_JOINTS - 1
hasJoint(index) == index < MAX_NUM_JOINTS

\* Without an index a joint is 0.
getJoint(o, f, index) == IF hasJoint(index) THEN o[<<f, index + 1>>] ELSE 0

setJoint(o, f, index, value) ==
  IF hasJoint(index) THEN [o EXCEPT ![<<f, index + 1>>] = value] ELSE o

copyJoints(o, f, from) ==
  LET copied[i \in 0 .. MAX_NUM_JOINTS] ==
        IF i = 0 THEN o ELSE setJoint(copied[i - 1], f, i - 1, getJoint(from, f, i - 1))
  IN  copied[MAX_NUM_JOINTS]

equalJoints(a, b, f) == \A i \in JointIndices : getJoint(a, f, i) = getJoint(b, f, i)

Joints(f)     == Array(f, MAX_NUM_JOINTS)
\* Mutant: an array is read from its first element on.
JointsUp(f)   == Joints(f)
JointsDown(f) == Reverse(Joints(f))

-----------------------------------------------------------------------------
(* What the classes write (load) and read (unload).                        *)

JointTrajPtLoad ==
  Words(<<"sequence_">>) \o Joints("joint_position_") \o Words(<<"velocity_", "duration_">>)
JointTrajPtUnload ==
  Words(<<"duration_", "velocity_">>) \o JointsDown("joint_position_") \o Words(<<"sequence_">>)

JointTrajPtFullLoad ==
  Words(<<"robot_id_", "sequence_", "valid_fields_", "time_">>)
    \o Joints("positions_") \o Joints("velocities_") \o Joints("accelerations_")
JointTrajPtFullUnload ==
  JointsDown("accelerations_") \o JointsDown("velocities_") \o JointsDown("positions_")
    \o Words(<<"time_", "valid_fields_", "sequence_", "robot_id_">>)

JointFeedbackLoad ==
  Words(<<"robot_id_", "valid_fields_", "time_">>)
    \o Joints("positions_") \o Joints("velocities_") \o Joints("accelerations_")
JointFeedbackUnload ==
  JointsDown("accelerations_") \o JointsDown("velocities_") \o JointsDown("positions_")
    \o Words(<<"time_", "valid_fields_", "robot_id_">>)

JointLoad   == Words(<<"sequence_">>) \o Joints("joints_")
JointUnload == JointsDown("joints_") \o Words(<<"sequence_">>)

RobotStatusLoad ==
  Words(<<"drives_powered_", "e_stopped_", "error_code_", "in_error_", "in_motion_",
          "mode_", "motion_possible_", "trajectory_complete_">>)
RobotStatusUnload ==
  Words(<<"trajectory_complete_", "motion_possible_", "mode_", "in_motion_",
          "in_error_", "error_code_", "e_stopped_", "drives_powered_">>)

VelocityCommandLoad   == Words(<<"sequence_">>) \o Array("vector_", 6) \o Words(<<"type_">>)
VelocityCommandUnload == Words(<<"type_">>) \o Reverse(Array("vector_", 6)) \o Words(<<"sequence_">>)

VelocityConfigLoad ==
  Words(<<"cmd_type_">>) \o Array("frame_ref_", 6) \o Array("tool_ref_", 6)
    \o Words(<<"accel_", "vel_", "tvel_", "rvel_">>)
VelocityConfigUnload ==
  Words(<<"rvel_", "tvel_", "vel_", "accel_">>)
    \o Reverse(Array("tool_ref_", 6)) \o Reverse(Array("frame_ref_", 6)) \o Words(<<"cmd_type_">>)

IOStatesLoad ==
  Words(<<"user_in_", "valve_out_", "basic_in_", "basic_out_", "basic_in_2_", "basic_out_2_">>)
    \o <<Flag("basic_io_valid_"), Flag("basic_io_2_valid_")>>
IOStatesUnload ==
  <<Flag("basic_io_2_valid_"), Flag("basic_io_valid_")>>
    \o Words(<<"basic_out_2_", "basic_in_2_", "basic_out_", "basic_in_", "valve_out_", "user_in_">>)

WriteSingleIOLoad   == Words(<<"module_id_", "pin_">>) \o <<Flag("state_")>>
WriteSingleIOUnload == <<Flag("state_")>> \o Words(<<"pin_", "module_id_">>)

SetDrivePowerLoad   == <<Flag("drive_power_")>>
SetDrivePowerUnload == <<Flag("drive_power_")>>

\* A PingMessage has no data (TypedMessage writes nothing).
PingLoad == <<>>
PingUnload == <<>>

-----------------------------------------------------------------------------
(* What init() gives the members: an array has one value for all of it.    *)

TriState  == [TS_UNKNOWN |-> -1, TS_FALSE |-> 0, TS_TRUE |-> 1]
RobotMode == [UNKNOWN |-> -1, MANUAL |-> 1, AUTO |-> 2]
IOModule  == [UNKNOWN |-> -1, USER_IN |-> 1, VALVE_OUT |-> 2, BASIC_IN |-> 3, BASIC_OUT |-> 4,
              BASIC_IN_2 |-> 5, BASIC_OUT_2 |-> 6]

JointInit       == [sequence_ |-> 0, joints_ |-> 0]
JointTrajPtInit == [joint_position_ |-> 0, sequence_ |-> 0, velocity_ |-> 0, duration_ |-> 0]
JointTrajPtFullInit ==
  [robot_id_ |-> 0, sequence_ |-> 0, valid_fields_ |-> {}, time_ |-> 0,
   positions_ |-> 0, velocities_ |-> 0, accelerations_ |-> 0]
JointFeedbackInit ==
  [robot_id_ |-> 0, valid_fields_ |-> {}, time_ |-> 0,
   positions_ |-> 0, velocities_ |-> 0, accelerations_ |-> 0]
RobotStatusInit ==
  [drives_powered_ |-> TriState.TS_UNKNOWN, e_stopped_ |-> TriState.TS_UNKNOWN, error_code_ |-> 0,
   in_error_ |-> TriState.TS_UNKNOWN, in_motion_ |-> TriState.TS_UNKNOWN, mode_ |-> RobotMode.UNKNOWN,
   motion_possible_ |-> TriState.TS_UNKNOWN, trajectory_complete_ |-> TriState.TS_UNKNOWN]
VelocityCommandInit == [sequence_ |-> 0, vector_ |-> 0, type_ |-> 0]
VelocityConfigInit ==
  [cmd_type_ |-> 0, frame_ref_ |-> 0, tool_ref_ |-> 0, accel_ |-> 0, vel_ |-> 0, tvel_ |-> 0,
   rvel_ |-> 0]
WriteSingleIOInit == [module_id_ |-> IOModule.UNKNOWN, pin_ |-> 0, state_ |-> FALSE]

\* Members that nothing initializes.
IOStatesInit ==
  [f \in {"user_in_", "valve_out_", "basic_in_", "basic_out_", "basic_in_2_", "basic_out_2_",
          "basic_io_valid_", "basic_io_2_valid_"} |-> Garbled]
SetDrivePowerInit == [drive_power_ |-> Garbled]

-----------------------------------------------------------------------------
(* The messages: each reads and writes the data it is about.               *)

MessageOf(writes, reads, empty) == [load |-> writes, unload |-> reads, init |-> empty]

PingMessage  == MessageOf(PingLoad, PingUnload, <<>>)
JointMessage == MessageOf(JointLoad, JointUnload, JointInit)
JointTrajPtMessage == MessageOf(JointTrajPtLoad, JointTrajPtUnload, JointTrajPtInit)
RobotStatusMessage == MessageOf(RobotStatusLoad, RobotStatusUnload, RobotStatusInit)
JointTrajPtFullMessage ==
  MessageOf(JointTrajPtFullLoad, JointTrajPtFullUnload, JointTrajPtFullInit)
JointFeedbackMessage == MessageOf(JointFeedbackLoad, JointFeedbackUnload, JointFeedbackInit)
SetDrivePowerMessage == MessageOf(SetDrivePowerLoad, SetDrivePowerUnload, SetDrivePowerInit)
ReadIOMessage        == MessageOf(IOStatesLoad, IOStatesUnload, IOStatesInit)
WriteSingleIOMessage == MessageOf(WriteSingleIOLoad, WriteSingleIOUnload, WriteSingleIOInit)
VelocityConfigMessage == MessageOf(VelocityConfigLoad, VelocityConfigUnload, VelocityConfigInit)
VelocityCommandMessage ==
  MessageOf(VelocityCommandLoad, VelocityCommandUnload, VelocityCommandInit)

Layout == [
  PING               |-> PingMessage,            JOINT            |-> JointMessage,
  JOINT_TRAJ_PT      |-> JointTrajPtMessage,     STATUS           |-> RobotStatusMessage,
  JOINT_TRAJ_PT_FULL |-> JointTrajPtFullMessage, JOINT_FEEDBACK   |-> JointFeedbackMessage,
  SET_DRIVE_POWER    |-> SetDrivePowerMessage,   READ_IO          |-> ReadIOMessage,
  WRITE_SINGLE_IO    |-> WriteSingleIOMessage,   VELOCITY_CONFIG  |-> VelocityConfigMessage,
  VELOCITY_COMMAND   |-> VelocityCommandMessage]

Types == DOMAIN Layout
Members(class) == {class.load[i].name : i \in DOMAIN class.load}

\* The constructor of a class calls init().
initObject(class) == [m \in Members(class) |-> class.init[m[1]]]

\* init(SimpleMessage) of the messages: they start from an empty object.
initTyped(class, msg) == deserialize(class.unload, initObject(class), msg.data_)

-----------------------------------------------------------------------------
(* copyFrom and operator== of the classes without marks: the members they   *)
(* copy, and those they compare.                                           *)

JointTrajPtCopied   == DOMAIN JointTrajPtInit
JointTrajPtCompared == DOMAIN JointTrajPtInit
RobotStatusCopied   == DOMAIN RobotStatusInit
RobotStatusCompared == DOMAIN RobotStatusInit
WriteSingleIOCopied == DOMAIN WriteSingleIOInit

copyMembers(o, src, copied) == [m \in DOMAIN o |-> IF m[1] \in copied THEN src[m] ELSE o[m]]

equalMembers(a, b, compared) == \A m \in DOMAIN a : m[1] \in compared => a[m] = b[m]

copyPoint(o, src) ==
  copyJoints(copyMembers(o, src, JointTrajPtCopied \ {"joint_position_"}), "joint_position_", src)

equalPoint(a, b) ==
  /\ equalJoints(a, b, "joint_position_")
  /\ equalMembers(a, b, JointTrajPtCompared \ {"joint_position_"})

-----------------------------------------------------------------------------
(* JointTrajPtFull and JointFeedback mark the members that are valid.      *)

ValidFields == {"time_", "positions_", "velocities_", "accelerations_"}
valid_fields_ == <<"valid_fields_", 0>>

mark(o, valid) == [m \in DOMAIN o |-> IF m = valid_fields_ THEN valid ELSE o[m]]

setField(o, f, from) ==
  [m \in DOMAIN o |-> IF m = valid_fields_ THEN o[m] \union {f} ELSE IF m[1] = f THEN from[m] ELSE o[m]]

is_valid(o, f) == f \in o[valid_fields_]

clearField(o, f) ==
  [m \in DOMAIN o |-> IF m = valid_fields_ THEN o[m] \ {f} ELSE IF m[1] = f THEN 0 ELSE o[m]]

\* The members that copyFrom copies, and those that operator== compares although they
\* have no mark.
JointTrajPtFullCopied   == DOMAIN JointTrajPtFullInit
JointTrajPtFullCompared == {"robot_id_", "sequence_"}
JointFeedbackCopied     == DOMAIN JointFeedbackInit
JointFeedbackCompared   == {"robot_id_"}

\* All the setters, one after the other.
setFields(o, from) ==
  [m \in DOMAIN o |-> IF m = valid_fields_ THEN o[m] \union ValidFields ELSE from[m]]

\* The marks are given last.
initFull(o, from, valid) == mark(setFields(o, from), valid)

\* The getters give every member, valid or not.
copyFull(o, src, copied) == mark(copyMembers(o, src, copied), src[valid_fields_])

\* What is not valid is not compared.
equalFull(a, b, compared) ==
  /\ a[valid_fields_] = b[valid_fields_]
  /\ equalMembers(a, b, compared \union {f \in ValidFields : is_valid(a, f)})

-----------------------------------------------------------------------------
(* JointTraj: points, and then their number.  An empty trajectory is not   *)
(* written, but it is read.                                                *)

emptyPoint == initObject(JointTrajPtMessage)

\* A trajectory is the points it has; without an index the caller keeps its own.
initTraj == <<>>

getPoint(points, index, point) ==
  IF index < Len(points) THEN copyPoint(point, points[index + 1]) ELSE point

isFull(points) == Len(points) >= MAX_NUM_POINTS

copyTraj(src) == [i \in 1 .. Len(src) |-> copyPoint(emptyPoint, getPoint(src, i - 1, emptyPoint))]

equalTraj(a, b) ==
  /\ Len(a) = Len(b)
  /\ \A i \in 1 .. Len(a) : equalPoint(a[i], getPoint(b, i - 1, emptyPoint))

pointBytes(point) == serialize(JointTrajPtLoad, point)

addPoint(points, point) ==
  IF ~isFull(points) THEN [ok |-> TRUE, points |-> Append(points, copyPoint(emptyPoint, point))]
  ELSE [ok |-> FALSE, points |-> points]

loadTraj(points) ==
  IF points = <<>> THEN [ok |-> FALSE, buffer |-> <<>>]
  ELSE [ok |-> TRUE,
        buffer |-> load(FlattenSeq([i \in DOMAIN points |->
                                      pointBytes(getPoint(points, i - 1, emptyPoint))]),
                        <<"size_", 0>>, Len(points), 4)]

firstFirst(points, point) == <<point>> \o points

\* One point more, if those before could be read.
unloadPoint(r) ==
  LET u == deserialize(JointTrajPtUnload, emptyPoint, r.buffer)
  IN  IF ~r.ok \/ ~u.ok THEN [r EXCEPT !.ok = FALSE]
      ELSE [ok |-> TRUE, buffer |-> u.buffer, points |-> firstFirst(r.points, u.object)]

\* The number is not compared with MAX_NUM_POINTS.
unloadTraj(buffer) ==
  LET n == unload(buffer, 4)
      read[i \in 0 .. Value(n.bytes)] ==
        IF i = 0 THEN [ok |-> TRUE, buffer |-> n.buffer, points |-> <<>>] ELSE unloadPoint(read[i - 1])
      all == read[Value(n.bytes)]
  IN  IF ~n.ok THEN [ok |-> FALSE, points |-> <<>>] ELSE [ok |-> all.ok, points |-> all.points]
=============================================================================
