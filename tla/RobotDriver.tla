------------------------------ MODULE RobotDriver ------------------------------
(***************************************************************************)
(* RobotDriver of the middleware: the motion control mode, which is a lock *)
(* that knows its owner by thread id.                                      *)
(***************************************************************************)
EXTENDS VelocityLimits, FiniteSets

VARIABLES
  motion_ctrl_mode_, motion_ctrl_owner_

modeVars == <<motion_ctrl_mode_, motion_ctrl_owner_>>

\* The threads that may make the robot move.
Controllers == {"jog", "pose"}
Threads     == {"relay"} \union Controllers
NoThread    == "none"

Mode == [relay |-> "JOINT_TRAJECTORY_STREAMING", jog |-> "JOGGING",
         pose |-> "POSE_TRACKING"]
Modes == {"IDLE", "LOCKED", "MOTION_COMMAND_RELAYING"}
           \union {Mode[t] : t \in Threads}

DriverInit ==
  /\ motion_ctrl_mode_ = "IDLE" /\ motion_ctrl_owner_ = NoThread

\* Mutant: the owner is not compared.
anyoneMaySet(t) == TRUE

\* Mutant: a holder may not set the mode either.
onlyIdleMaySet(t) == motion_ctrl_mode_ = "IDLE"

\* Thread t may set the motion control mode.
maySet(t) == motion_ctrl_mode_ = "IDLE" \/ motion_ctrl_owner_ = t

setMotionControlMode(t, mode) ==
  IF maySet(t)
  THEN motion_ctrl_mode_' = mode /\ motion_ctrl_owner_' = t
  ELSE UNCHANGED modeVars

-----------------------------------------------------------------------------
(* What the driver knows of the robot.  The connections may be lost, and    *)
(* the status may change, at any time: both are free wherever they are read *)
(* (ConnectionManager has the connections).                                *)

isConnected(up) == {"state", "motion"} \subseteq up

\* What setRobotStatus stores: a status and the time of its arrival.
TriStates == {"TS_UNKNOWN", "TS_FALSE", "TS_TRUE"}
Statuses  == [older : BOOLEAN, motion_possible : TriStates]

\* A status that is older than a second is not believed.
isMotionPossible(status) == ~status.older /\ status.motion_possible = "TS_TRUE"

\* The reply to a request: none if the call fails; no request is left when it
\* succeeds.
Replies == {"none", "SUCCESS", "FAILURE", "INVALID"}
sendRequest(reply) == reply = "SUCCESS"

mayStart == {isConnected(up) /\ isMotionPossible(status) :
               up \in SUBSET {"state", "motion"}, status \in Statuses}
granted  == {sendRequest(reply) : reply \in Replies}

-----------------------------------------------------------------------------
(* The frames of the robot model.                                          *)

base_frame == "base"
tool_frame == "tool0"
Frames     == {base_frame, tool_frame, "other"}

\* initSetup throws unless the model has these two.
Models == {known \in SUBSET Frames : {base_frame, tool_frame} \subseteq known}

\* "" stands for no frame.
frameOr(frame, default) == IF frame = "" THEN default ELSE frame

getTransform(tcp_frame, reference_frame, known) ==
  {frameOr(tcp_frame, tool_frame), frameOr(reference_frame, base_frame)} \subseteq known

\* Whether the frame of a goal, and that of the tool (a parameter), can be used.
isKnown(frame, known) == frameOr(frame, base_frame) \in known

goalFrameKnown == {isKnown(frame, known) :
                     frame \in {""} \union Frames, known \in Models}
tcpFrameKnown  == {getTransform(tcp_frame_, base_frame, known) :
                     tcp_frame_ \in {""} \union Frames, known \in Models}
=============================================================================
