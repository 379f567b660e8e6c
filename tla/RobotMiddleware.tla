---------------------------- MODULE RobotMiddleware ----------------------------
(***************************************************************************)
(* The threads of the robot middleware that can make the robot move, and   *)
(* the motion control mode that is to keep them apart: the motion relay,   *)
(* the jog interface, the pose tracking controller, and the state relay    *)
(* they depend on.                                                         *)
(***************************************************************************)
EXTENDS PoseTracking

vars == <<modeVars, relayVars, controlVars, jogVars, newGoal>>

Init == DriverInit /\ RelayInit /\ ControlInit /\ JogInit /\ PoseInit

Next ==
  \/ (Relay \/ ClientConnects) /\ UNCHANGED <<controlVars, jogVars, newGoal>>
  \/ (\E m \in StateMessages : StateReceive(m)) /\ UNCHANGED <<jogVars, newGoal>>
  \/ (\E type \in Types : JogCallback(type)) /\ UNCHANGED newGoal
  \/ JogThread  /\ UNCHANGED newGoal
  \/ PoseGoal \/ PoseThread
  \/ (\E t \in Controllers : CommandAges(t)) /\ UNCHANGED <<jogVars, newGoal>>

\* The threads run.  Clients and the robot have no obligation.
Fairness ==
  /\ WF_vars(relayPc # "spin" /\ Relay /\ UNCHANGED <<controlVars, jogVars, newGoal>>)
  /\ WF_vars(RelayTimeout /\ UNCHANGED <<controlVars, jogVars, newGoal>>)
  /\ WF_vars(JogThread /\ UNCHANGED newGoal)
  /\ WF_vars(PoseThread)

Spec == Init /\ [][Next]_vars /\ Fairness
-----------------------------------------------------------------------------
\* Where a controller has the mode LOCKED, where it has its own, and the message that the
\* relay is going to forward.
Locked(t)     == pc[t] \in {"config", "unlock", "mode"}
Controls(t)   == pc[t] \in {"loop", "wait", "send", "zero", "sendZero", "stop"}
Forwards(m)   == relayPc = "forward" /\ is_relaying_ /\ msg = m
RelayModes    == {Mode["relay"], "MOTION_COMMAND_RELAYING"}

\* The driver keeps the limits of every command it sends.  No state matters to this:
\* it is looked at in the first one.
LimitsHold == Init => KeepsLimits

\* A controller holds the mode from the moment it asks the robot for velocity control
\* until it has stopped, whatever it is told on the way; the relay holds it for the first
\* point of a trajectory, from then on until it gives the mode back, and for every message
\* of another type that it forwards.  So none of these begins while another lasts.
\* This is not all that the relay forwards: it relays the later points of a trajectory on
\* the flag that the first one left, after it gave the mode back too, whoever has it then.
ModeHeldInMotion ==
  /\ \A t \in Controllers :
       /\ Locked(t)   => motion_ctrl_mode_ = "LOCKED" /\ motion_ctrl_owner_ = t
       /\ Controls(t) => motion_ctrl_mode_ = Mode[t]  /\ motion_ctrl_owner_ = t
  /\ first # "none" \/ Forwards("first") \/ Forwards("other")
       => motion_ctrl_mode_ \in RelayModes /\ motion_ctrl_owner_ = "relay"

\* The mode and its owner, which stays when the mode is given back, implement
\* a lock.
holder == IF motion_ctrl_mode_ = "IDLE" THEN NoThread ELSE motion_ctrl_owner_
Lock == INSTANCE MotionLock
ImplementsLock == Lock!Spec

\* After an error the commands of the same stream are ignored: the error state
\* is left with the first command after a timeout, and not before.
PoseErrorKept == [][in_error_["pose"] /\ fresh["pose"] => in_error_'["pose"]]_vars

\* When commands stop coming (or are too old), a controller stops and gives the
\* mode back, for good.
ControlEnds == \A t \in Controllers : <>[]~fresh[t] => <>[](holder # t)

\* When the robot's state stops coming, whatever the reason (the connection may look
\* sound), whoever controls the robot by it gives the mode back.
StateLossEndsControl == (\A t \in Controllers : <>[]~newer[t])
                          => \A t \in Controllers : holder = t ~> holder # t

\* A relay that has relayed a message gives the mode back if no other comes and
\* its client stays.
RelayEnds == holder = "relay" /\ is_relaying_ /\ relayPc = "spin"
               ~> holder # "relay" \/ ~clientConnected \/ relayPc # "spin"
=============================================================================
