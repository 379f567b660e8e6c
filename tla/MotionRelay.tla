------------------------------ MODULE MotionRelay ------------------------------
(***************************************************************************)
(* MotionRelayHandler: the thread that receives the messages of the client *)
(* of the middleware (the trajectory streamer), takes the motion control   *)
(* mode for them, forwards them to the controller and the replies back.    *)
(***************************************************************************)
EXTENDS RobotDriver

VARIABLES
  clientConnected,     \* the IN connection is up
  relayPc,             \* "spin" or "forward"
  is_relaying_, ignore_trajectory_,
  msg,                 \* the message that is being handled, or NoMsg
  first                \* history: the first point of the newest trajectory has
                       \* taken the mode ("taken") and was forwarded ("sent"),
                       \* and the mode was not given back since

relayVars == <<clientConnected, relayPc, is_relaying_, ignore_trajectory_, msg, first>>

\* A point with sequence 0, another one or STOP, a point that cannot be
\* decoded, and a message of another type.
Messages == {"first", "next", "undecodable", "other"}
NoMsg    == "none"

RelayInit ==
  /\ clientConnected = TRUE /\ relayPc = "spin" /\ msg = NoMsg
  /\ is_relaying_ = FALSE /\ ignore_trajectory_ = FALSE
  /\ first = "none"

\* handleTrajectoryPoint: the first point takes the mode for all of them.
ignores(m) == IF m = "first" THEN ~maySet("relay") ELSE ignore_trajectory_

\* handleMessage: whether m is to be forwarded.
relays(m) ==
  CASE m \in {"first", "next"} -> ~ignores(m)
    [] m = "undecodable"       -> FALSE
    [] m = "other"             -> maySet("relay")

takesMode(m) ==
  CASE m = "first" -> setMotionControlMode("relay", Mode["relay"])
    [] m = "other" -> setMotionControlMode("relay", "MOTION_COMMAND_RELAYING")
    [] OTHER       -> UNCHANGED modeVars

RelayReceive(m) ==
  /\ relayPc = "spin" /\ clientConnected
  /\ relayPc' = "forward" /\ msg' = m
  /\ takesMode(m)
  /\ ignore_trajectory_' = IF m \in {"first", "next"} THEN ignores(m) ELSE ignore_trajectory_
  /\ is_relaying_' = relays(m)
  /\ IF m = "first"
     THEN first' = IF relays(m) THEN "taken" ELSE "none"
     ELSE UNCHANGED first
  /\ UNCHANGED clientConnected

\* onReceiveTimeout and onReceiveFail.
stopRelaying ==
  IF is_relaying_
  THEN /\ setMotionControlMode("relay", "IDLE")
       /\ is_relaying_' = FALSE /\ first' = "none"
  ELSE UNCHANGED <<modeVars, is_relaying_, first>>

RelayTimeout ==
  /\ relayPc = "spin" /\ clientConnected
  /\ stopRelaying
  /\ UNCHANGED <<clientConnected, relayPc, ignore_trajectory_, msg>>

RelayReceiveFails ==
  /\ relayPc = "spin" /\ clientConnected /\ clientConnected' = FALSE
  /\ stopRelaying
  /\ UNCHANGED <<relayPc, ignore_trajectory_, msg>>

\* A message that is not to be ignored is sent to the controller and its reply
\* received; the client is sent the reply, or FAILURE.  Each call may fail.
RelayForward ==
  /\ relayPc = "forward" /\ relayPc' = "spin" /\ msg' = NoMsg
  /\ \/ is_relaying_ /\ first' = IF msg = "first" THEN "sent" ELSE first
     \/ UNCHANGED first
  /\ clientConnected' \in {clientConnected, FALSE}
  /\ UNCHANGED <<modeVars, is_relaying_, ignore_trajectory_>>

Relay == \/ \E m \in Messages : RelayReceive(m)
         \/ RelayTimeout \/ RelayReceiveFails \/ RelayForward

\* TcpServer::makeConnect: the socket of the old client is closed, and a new one is
\* accepted, or not.
makeConnect(accepted) ==
  clientConnected' = IF clientConnected THEN clientConnected ELSE accepted

\* connect() of the server's task waits for a client, and tries again if it cannot be
\* accepted.
ClientConnects ==
  /\ ~clientConnected /\ \E accepted \in BOOLEAN : makeConnect(accepted)
  /\ UNCHANGED <<modeVars, relayPc, is_relaying_, ignore_trajectory_, msg, first>>
=============================================================================
