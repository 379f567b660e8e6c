-------------------------- MODULE MCConnectionManager --------------------------
(***************************************************************************)
(* The connections of the middleware for model checking.                   *)
(***************************************************************************)
EXTENDS ConnectionManager

McFriend == [c \in Connections |-> RobotFriend[c]]
=============================================================================
