------------------------------ MODULE JogInterface ------------------------------
(***************************************************************************)
(* JogInterface: the callbacks for twists and joint velocities, and the    *)
(* thread that sends the newest of them to the controller with every       *)
(* update of the robot's state.  state_mtx_ protects the command, but not  *)
(* while the thread starts and stops.                                      *)
(***************************************************************************)
EXTENDS StateRelay

VARIABLES
  state_,       \* "IDLE", "CARTESIAN_JOGGING" or "JOINT_JOGGING"
  vel_cmd_      \* the type of the newest command, and whether it is zero

jogVars == <<state_, vel_cmd_>>

\* What a callback receives: joint velocities, or a twist.
Commands == [type : Types, cmd : {"zero", "move"}]
Command(type, cmd) == [type |-> type, cmd |-> cmd]

JogInit ==
  /\ state_ = "IDLE" /\ vel_cmd_ = Command("UNDEFINED", "zero")

reset == vel_cmd_' = Command("UNDEFINED", "zero") /\ state_' = "IDLE"

JogState(type) == IF type = "JOINT" THEN "JOINT_JOGGING" ELSE "CARTESIAN_JOGGING"

\* setState: jogging in one way has to end before it starts in the other.
setStateAllowed(type) == state_ \in {"IDLE", JogState(type)}

\* setCommand
setCommand(type) == vel_cmd_' = Command(type, "move")

\* twistCb and jointJogCb.
JogCallback(type) ==
  /\ in_error_' = Set(in_error_, "jog", inError("jog"))
  /\ fresh' = Set(fresh, "jog", TRUE)
  /\ IF inError("jog") \/ ~setStateAllowed(type)
     THEN UNCHANGED <<state_, vel_cmd_, pc>>
     ELSE IF type = "UNDEFINED"
     THEN reset /\ UNCHANGED pc
     ELSE state_' = JogState(type) /\ setCommand(type) /\ Notify("jog")
  /\ UNCHANGED <<modeVars, relayVars, newer>>

JogOnly == UNCHANGED <<relayVars, fresh>>

\* The thread forgets the command and waits for the next one.
JogReset ==
  /\ pc["jog"] = "top" /\ Goto("jog", "sleep") /\ reset
  /\ UNCHANGED <<modeVars, in_error_, newer>>
  /\ JogOnly

\* The wait returns; startJogging is called if there is a command.
JogWake ==
  /\ pc["jog"] = "woken"
  /\ Goto("jog", IF state_ = "IDLE" THEN "top" ELSE "check")
  /\ UNCHANGED <<modeVars, in_error_, newer, state_, vel_cmd_>>
  /\ JogOnly

startJogging == Start("jog")

JogStart == startJogging /\ UNCHANGED jogVars

\* No command was received for receive_timeout_.
jogExpired == ~fresh["jog"]

\* The control loop waits for an update ...
JogUpdate ==
  /\ pc["jog"] = "loop"
  /\ waitForStateUpdate("jog", "send", "zero")
  /\ UNCHANGED <<modeVars, state_, vel_cmd_>>
  /\ JogOnly

\* ... and sends the newest command (sendVelocityCommand, which may fail, and
\* fails if the command has no type because it was reset meanwhile).
JogSend ==
  /\ pc["jog"] = "send"
  /\ IF jogExpired THEN EndLoop("jog", "zero", TRUE)
     ELSE \E ok \in sendResults(vel_cmd_.type) :
       IF ok THEN Goto("jog", "loop") /\ UNCHANGED <<in_error_, newer>>
       ELSE EndLoop("jog", "zero", FALSE)
  /\ UNCHANGED <<modeVars, state_, vel_cmd_>>
  /\ JogOnly

\* After the loop the command is set to zero, without the mutex ...
JogZero ==
  /\ pc["jog"] = "zero" /\ Goto("jog", "sendZero")
  /\ vel_cmd_' = Command(vel_cmd_.type, "zero")
  /\ UNCHANGED <<modeVars, in_error_, newer, state_>>
  /\ JogOnly

\* ... and sent, whatever it is by then; the result replaces that of the loop.
JogSendZero ==
  /\ pc["jog"] = "sendZero"
  /\ \E ok \in sendResults(vel_cmd_.type) : EndLoop("jog", "stop", ok)
  /\ UNCHANGED <<modeVars, state_, vel_cmd_>>
  /\ JogOnly

JogStop == Stop("jog") /\ UNCHANGED jogVars

JogThread == \/ JogReset \/ JogWake \/ JogStart \/ JogUpdate \/ JogSend
             \/ JogZero \/ JogSendZero \/ JogStop
=============================================================================
