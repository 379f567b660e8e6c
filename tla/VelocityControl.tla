---------------------------- MODULE VelocityControl ----------------------------
(***************************************************************************)
(* The calls of RobotDriver that jogging and pose tracking have in common: *)
(* startVelocityControl with its tests, its lock and its request, sending  *)
(* velocity commands, and stopMotionControl.  Each of the two runs in a    *)
(* thread of its own and is at one line at a time (pc).                    *)
(***************************************************************************)
EXTENDS MotionRelay

VARIABLES
  pc,           \* where the thread of each controller is
  in_error_,    \* ... and the result of its last attempt, which its callback
                \* looks at
  fresh,        \* the newest command or goal is younger than the timeout
  newer         \* state_timestamp_ > last_update_time: the robot's state was
                \* updated since the control loop last saw it

controlVars == <<pc, in_error_, fresh, newer>>

ControlInit ==
  /\ pc = [t \in Controllers |-> "top"]
  /\ in_error_ = [t \in Controllers |-> FALSE]
  /\ fresh = [t \in Controllers |-> FALSE]
  /\ newer = [t \in Controllers |-> FALSE]

Set(f, t, v) == [f EXCEPT ![t] = v]

Goto(t, line) == pc' = Set(pc, t, line)

\* No command for receive_timeout_.
CommandAges(t) ==
  /\ fresh[t] /\ fresh' = Set(fresh, t, FALSE)
  /\ UNCHANGED <<modeVars, relayVars, pc, in_error_, newer>>

\* Mutant: the error state is left with every command that comes early enough.
inErrorLate(t) == in_error_[t] /\ ~fresh[t]

\* The callback recovers from an error after a timeout; it gives the error that
\* is left.
inError(t) == in_error_[t] /\ fresh[t]

\* notify_one, which is lost unless the thread waits.
Notify(t) == pc' = IF pc[t] = "sleep" THEN Set(pc, t, "woken") ELSE pc

GiveUp(t) == Goto(t, "top") /\ in_error_' = Set(in_error_, t, TRUE)

\* startVelocityControl: the robot is connected and its status, which is free,
\* says that it can move ...
StartCheck(t) ==
  /\ pc[t] = "check"
  /\ \E may \in mayStart : IF may THEN Goto(t, "lock") /\ UNCHANGED in_error_ ELSE GiveUp(t)
  /\ UNCHANGED <<modeVars, relayVars, fresh, newer>>

\* ... the motion control mode is locked ...
StartLock(t) ==
  /\ pc[t] = "lock"
  /\ setMotionControlMode(t, "LOCKED")
  /\ \/ maySet(t) /\ Goto(t, "config") /\ UNCHANGED in_error_
     \/ ~maySet(t) /\ GiveUp(t)
  /\ UNCHANGED <<relayVars, fresh, newer>>

\* ... the controller is asked to change its mode (sendVelocityConfig_internal),
\* and may refuse ...
StartConfig(t) ==
  /\ pc[t] = "config"
  /\ \E ok \in granted : Goto(t, IF ok THEN "mode" ELSE "unlock")
  /\ UNCHANGED <<modeVars, relayVars, in_error_, fresh, newer>>

StartRefused(t) ==
  /\ pc[t] = "unlock"
  /\ setMotionControlMode(t, "IDLE")
  /\ GiveUp(t)
  /\ UNCHANGED <<relayVars, fresh, newer>>

\* ... and the mode is set; the control loop begins, and looks for updates of the
\* state that come from now on.
StartMode(t) ==
  /\ pc[t] = "mode"
  /\ setMotionControlMode(t, Mode[t])
  /\ in_error_' = Set(in_error_, t, FALSE)
  /\ Goto(t, "loop")
  /\ newer' = Set(newer, t, FALSE)
  /\ UNCHANGED <<relayVars, fresh>>

Start(t) == \/ StartCheck(t) \/ StartLock(t) \/ StartConfig(t)
            \/ StartRefused(t) \/ StartMode(t)

\* stopMotionControl.
Stop(t) ==
  /\ pc[t] = "stop"
  /\ setMotionControlMode(t, "IDLE")
  /\ Goto(t, "top")
  /\ UNCHANGED <<relayVars, in_error_, fresh, newer>>

-----------------------------------------------------------------------------
(* What the control loops have in common.                                  *)

\* The type of a command: for joints, or for a twist in a frame that is fixed to the
\* base (or to the tool, for which BASE_FRAME stands as well); or none that can be
\* used.
Types == {"UNDEFINED", "JOINT", "BASE_FRAME"}

toStaubliVelocityCommandType(type) == IF type = "UNDEFINED" THEN "INVALID" ELSE type

\* A topic that is sent, or not; the controller does not answer it.
sendVelocityCommand_internal(type, sent) ==
  toStaubliVelocityCommandType(type) # "INVALID" /\ sent

\* Limits that cannot be computed (enforceLimits) end it first.
sendVelocityCommand(type, limited, sent) == limited /\ sendVelocityCommand_internal(type, sent)

sendResults(type) == {sendVelocityCommand(type, limited, sent) : limited, sent \in BOOLEAN}

\* The loop is left with its result (and its last_update_time).
EndLoop(t, line, ok) ==
  /\ Goto(t, line)
  /\ in_error_' = Set(in_error_, t, ~ok)
  /\ newer' = Set(newer, t, FALSE)

\* Mutant: a loop that gets no update in time goes on with the old state.
goesOn(t, line, failed) == Goto(t, line) /\ UNCHANGED <<in_error_, newer>>

\* waitForStateUpdate: an update that has come is seen; if none has, it may come
\* too late.
waitForStateUpdate(t, line, failed) ==
  \/ newer[t] /\ Goto(t, line) /\ newer' = Set(newer, t, FALSE) /\ UNCHANGED in_error_
  \/ ~newer[t] /\ EndLoop(t, failed, FALSE)
=============================================================================
