-------------------------- MODULE ConnectionTasks --------------------------
(***************************************************************************)
(* The tasks sHeartbeatTask and sStreamerTask, which keep nConnFlagState   *)
(* and the robot status, and what happens around the controller: TCP       *)
(* connections, drive power and the arm itself.                            *)
(***************************************************************************)
EXTENDS RosServerGlobals

NoTaskUnchanged ==
  UNCHANGED <<queueVars, velVars, bStopNow, eventVars, taskVars, smVars, sysVars,
              recvHist, moveHist>>

\* recvHeartbeat polls the state socket.  A connection that is new is only
\* announced after a delay of one second.
HeartbeatPoll ==
  /\ htbtPc = "poll"
  /\ \/ /\ ~linkState /\ nConnFlagState = 1
        /\ nConnFlagState' = -1
        /\ UNCHANGED htbtPc
     \/ /\ linkState /\ nConnFlagState # 1
        /\ htbtPc' = "delay"
        /\ UNCHANGED nConnFlagState
  /\ UNCHANGED <<linkMotion, linkState, nConnFlagMotion, nLinks, statusVars,
                 armVars, powerVars>>
  /\ NoTaskUnchanged

HeartbeatConnected ==
  /\ htbtPc = "delay"
  /\ htbtPc' = "poll"
  /\ nConnFlagState' = 1
  /\ UNCHANGED <<linkMotion, linkState, nConnFlagMotion, nLinks, statusVars,
                 armVars, powerVars>>
  /\ NoTaskUnchanged

\* motion_possible: the drives are powered, no emergency stop is pressed, and
\* the motion task runs (the receiver task always does).
MotionPossible == powered /\ motionProg # "NONE"

\* An iteration of dataStreamer sends joint feedback, every twentieth also
\* fetches and sends the status; sendData notices a broken connection.
Stream ==
  /\ nConnFlagState = 1
  /\ \/ nMotionPossible' = (IF MotionPossible THEN 1 ELSE 0)
     \/ UNCHANGED nMotionPossible
  /\ nConnFlagState' = IF linkState THEN 1 ELSE -1
  /\ UNCHANGED <<linkMotion, linkState, nConnFlagMotion, htbtPc, nLinks,
                 nTrajectoryComplete, armVars, powerVars>>
  /\ NoTaskUnchanged

-----------------------------------------------------------------------------
(* The environment.                                                        *)

\* A client connects to the motion or to the state socket ...
Connect ==
  /\ \/ ~linkMotion /\ linkMotion' = TRUE /\ UNCHANGED linkState
     \/ ~linkState /\ linkState' = TRUE /\ UNCHANGED linkMotion
  /\ UNCHANGED <<nConnFlagMotion, nConnFlagState, htbtPc, nLinks, statusVars,
                 armVars, powerVars>>
  /\ NoTaskUnchanged

\* ... and the connection is closed or lost.
Disconnect ==
  /\ nLinks < MaxLinks
  /\ nLinks' = nLinks + 1
  /\ \/ linkMotion /\ linkMotion' = FALSE /\ UNCHANGED linkState
     \/ linkState /\ linkState' = FALSE /\ UNCHANGED linkMotion
  /\ UNCHANGED <<nConnFlagMotion, nConnFlagState, htbtPc, statusVars, armVars,
                 powerVars>>
  /\ NoTaskUnchanged

\* Drive power is lost (an emergency stop, the pendant) or enabled by hand.
PowerChange ==
  /\ nPower < MaxPower
  /\ nPower' = nPower + 1
  /\ powered' = ~powered
  /\ UNCHANGED <<connVars, statusVars, armVars>>
  /\ NoTaskUnchanged

\* The arm ends the oldest of its queued movements.
ArmMoves ==
  /\ powered
  /\ moves # <<>>
  /\ moves' = Tail(moves)
  /\ UNCHANGED <<connVars, statusVars, velMode, velCmd, powerVars>>
  /\ NoTaskUnchanged
=============================================================================
