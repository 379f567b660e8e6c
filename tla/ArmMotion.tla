----------------------------- MODULE ArmMotion -----------------------------
(***************************************************************************)
(* What the ros_server promises of the arm, whatever its tasks, messages   *)
(* and connections do: the arm follows queued movements or velocity        *)
(* commands, never both; each point and each command is used at most once  *)
(* and in the order of arrival; and the arm can be stopped at any time.    *)
(***************************************************************************)
EXTENDS Naturals, Sequences

CONSTANTS
  Ids,        \* the numbers of points and commands, larger for newer ones
  Reference   \* what a velocity command can refer to

VARIABLES
  moves,        \* the queued movements, oldest first
  velMode,      \* the velocity mode, or "NONE"
  velCmd,       \* the velocity command followed, or 0 for standstill
  lastMoved,    \* the newest point ever queued
  lastVelCmd    \* the newest velocity command ever followed

armVars == <<moves, velMode, velCmd, lastMoved, lastVelCmd>>

ArmInit ==
  /\ moves = <<>>
  /\ velMode = "NONE"
  /\ velCmd = 0
  /\ lastMoved = 0
  /\ lastVelCmd = 0

QueueMove ==
  /\ velMode = "NONE"
  /\ \E id \in Ids, final \in BOOLEAN :
       /\ id > lastMoved
       /\ moves' = Append(moves, [id |-> id, final |-> final])
       /\ lastMoved' = id
  /\ UNCHANGED <<velMode, velCmd, lastVelCmd>>

EndOldestMove ==
  /\ moves # <<>>
  /\ moves' = Tail(moves)
  /\ UNCHANGED <<velMode, velCmd, lastMoved, lastVelCmd>>

FollowCommand ==
  /\ moves = <<>>
  /\ velMode' \in Reference
  /\ velMode # "NONE" => velMode' = velMode
  /\ \/ velCmd' = 0 /\ UNCHANGED lastVelCmd
     \/ /\ velCmd' \in Ids
        /\ velCmd' > lastVelCmd
        /\ lastVelCmd' = velCmd'
  /\ UNCHANGED <<moves, lastMoved>>

StopArm ==
  /\ moves' = <<>>
  /\ velMode' = "NONE"
  /\ velCmd' = 0
  /\ UNCHANGED <<lastMoved, lastVelCmd>>

ArmNext == QueueMove \/ EndOldestMove \/ FollowCommand \/ StopArm

ArmSpec == ArmInit /\ [][ArmNext]_armVars
=============================================================================
