------------------------------- MODULE StateRelay -------------------------------
(***************************************************************************)
(* StateRelayHandler: the thread that receives the messages of the robot   *)
(* on the state connection and stores what they say in the driver.  Each   *)
(* is forwarded to the client of the middleware, which changes nothing     *)
(* here.                                                                   *)
(***************************************************************************)
EXTENDS VelocityControl

\* A message that could be decoded, by its type; the feedback with positions or
\* without; and any other message.
StateMessages == {"JOINT_POSITION", "JOINT_FEEDBACK", "noPositions", "STATUS", "other"}

\* Positions are stored with the time of their arrival ...
hasPositions(m) == m \in {"JOINT_POSITION", "JOINT_FEEDBACK"}

InLoop(t) == pc[t] \in {"loop", "wait", "send"}

\* ... which is newer than any update a control loop has seen, and wakes up the
\* loop that waits (setJointPositions, setJointPositionsAndVelocities).
setJointPositions == newer' = [t \in Controllers |-> newer[t] \/ InLoop(t)]

\* The status that setRobotStatus stores is free for isMotionPossible.
StateReceive(m) ==
  /\ IF hasPositions(m) THEN setJointPositions ELSE UNCHANGED newer
  /\ UNCHANGED <<modeVars, relayVars, pc, in_error_, fresh>>
=============================================================================
