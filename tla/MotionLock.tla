------------------------------ MODULE MotionLock ------------------------------
(***************************************************************************)
(* What RobotDriver::setMotionControlMode promises to the threads of the   *)
(* middleware: at most one of them holds the motion control mode, and only *)
(* the thread that holds it gives it back.                                 *)
(***************************************************************************)
CONSTANTS Threads, NoThread

VARIABLE holder

Init == holder = NoThread

Acquire(t) == holder = NoThread /\ holder' = t
Release(t) == holder = t /\ holder' = NoThread

Next == \E t \in Threads : Acquire(t) \/ Release(t)

Spec == Init /\ [][Next]_holder
=============================================================================
