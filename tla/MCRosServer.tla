---------------------------- MODULE MCRosServer ----------------------------
(***************************************************************************)
(* Message sets for model checking RosServer.                              *)
(***************************************************************************)
EXTENDS RosServer

Base == [type |-> "JOINT_TRAJ_PT", stop |-> FALSE, request |-> TRUE,
         inRange |-> TRUE, vel |-> 20, velType |-> "INVALID"]

MidPoint    == Base
FinalPoint  == [Base EXCEPT !.vel = 220]
BadPoint    == [Base EXCEPT !.inRange = FALSE]
FullPoint   == [Base EXCEPT !.type = "JOINT_TRAJ_PT_F"]
StopPoint   == [Base EXCEPT !.stop = TRUE]
Config(t)   == [Base EXCEPT !.type = "VELOCITY_CFG", !.velType = t]
Command(t)  == [Base EXCEPT !.type = "VELOCITY_CMD", !.velType = t,
                            !.request = FALSE]
StopCommand == [Command("JOINT") EXCEPT !.stop = TRUE]

\* A client that sends trajectories, right and wrong, and jogs.
MixedMsgs ==
  {MidPoint, FinalPoint, BadPoint, StopPoint, Config("BASE_FRAME"), Command("BASE_FRAME")}

\* A client that also configures joint velocities, and stops with a command.  Its
\* full points have a velocity, a percentage, that is above the mark of the last
\* point, so each of them counts as one.
LiveMsgs ==
  {MidPoint, FullPoint, StopCommand, Config("JOINT"), Config("BASE_FRAME"), Command("JOINT")}
=============================================================================
