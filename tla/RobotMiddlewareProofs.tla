------------------------ MODULE RobotMiddlewareProofs ------------------------
(***************************************************************************)
(* The motion control mode of the middleware is the lock that MotionLock   *)
(* specifies; a controller holds it while it controls the robot, the relay *)
(* from the first point of a trajectory until it gives it back.  What a    *)
(* controller sends keeps the limits of any robot.                         *)
(***************************************************************************)
EXTENDS RobotMiddleware, FiniteSetTheorems, WellFoundedInduction, SequenceTheorems, TLAPS

\* A string that names a thread is not one that names a mode: what SMT has to know
\* of them is their definitions.
USE DEF Controllers, Threads, NoThread, Mode, Modes

Lines == {"top", "sleep", "woken", "check", "lock", "config", "unlock", "mode",
          "loop", "wait", "send", "zero", "sendZero", "stop"}

\* The types that the proofs need, in the parts that the threads write.
ModeType    == motion_ctrl_mode_ \in Modes /\ motion_ctrl_owner_ \in Threads \union {NoThread}
PcType      == pc \in [Controllers -> Lines]
FlagType    == /\ in_error_ \in [Controllers -> BOOLEAN] /\ fresh \in [Controllers -> BOOLEAN]
               /\ newer \in [Controllers -> BOOLEAN]

\* Nobody owns the mode but who took it.
OwnerKnown == motion_ctrl_mode_ # "IDLE" => motion_ctrl_owner_ # NoThread

ModeInv == ModeType /\ PcType /\ OwnerKnown /\ ModeHeldInMotion

-----------------------------------------------------------------------------
(* The relay.                                                              *)

\* No controller is where it has the mode while somebody else may set it.
LEMMA RelayKeepsMode ==
  ASSUME ModeInv, Relay, UNCHANGED pc
  PROVE  ModeInv'
<1> USE DEF ModeInv, ModeType, PcType, OwnerKnown, ModeHeldInMotion, Locked,
            Controls, RelayModes, Forwards
<1>1. ASSUME NEW m \in Messages, RelayReceive(m)
      PROVE  ModeInv'
  BY <1>1 DEF Messages, RelayReceive, takesMode, relays, ignores, setMotionControlMode, maySet,
              modeVars
<1>2. CASE RelayTimeout
  BY <1>2 DEF RelayTimeout, stopRelaying, setMotionControlMode, maySet, modeVars
<1>3. CASE RelayReceiveFails
  BY <1>3 DEF RelayReceiveFails, stopRelaying, setMotionControlMode, maySet, modeVars
<1>4. CASE RelayForward
  BY <1>4 DEF RelayForward, modeVars
<1> QED BY <1>1, <1>2, <1>3, <1>4 DEF Relay
-----------------------------------------------------------------------------
(* The controllers.                                                        *)

\* The thread of a controller goes on, and the mode is what it is to be there.
LEMMA LineKeepsMode ==
  ASSUME NEW t \in Controllers, NEW line \in Lines, ModeInv, Goto(t, line),
         UNCHANGED <<modeVars, relayVars>>,
         line \in {"config", "unlock", "mode"} => Locked(t),
         line \in {"loop", "wait", "send", "zero", "sendZero", "stop"} => Controls(t)
  PROVE  ModeInv'
BY DEF ModeInv, ModeType, PcType, OwnerKnown, ModeHeldInMotion, Locked, Controls,
       RelayModes, Forwards, modeVars, relayVars, Goto, Set

\* A callback wakes up a thread that waits, which moves nothing yet.
LEMMA NotifyKeepsMode ==
  ASSUME NEW t \in Controllers, ModeInv, Notify(t) \/ UNCHANGED pc,
         UNCHANGED <<modeVars, relayVars>>
  PROVE  ModeInv'
BY DEF ModeInv, ModeType, PcType, OwnerKnown, ModeHeldInMotion, Locked, Controls,
       RelayModes, Forwards, modeVars, relayVars, Notify, Set, Lines

\* startVelocityControl and stopMotionControl.
LEMMA StartStopKeepMode ==
  ASSUME NEW t \in Controllers, ModeInv, Start(t) \/ Stop(t)
  PROVE  ModeInv'
<1>1. CASE StartCheck(t)
  BY <1>1, LineKeepsMode DEF StartCheck, GiveUp, Lines
<1>2. CASE StartConfig(t)
  BY <1>2, LineKeepsMode DEF StartConfig, Lines, Locked
<1> USE DEF ModeInv, ModeType, PcType, OwnerKnown, ModeHeldInMotion, Locked,
            Controls, RelayModes, Forwards, relayVars, setMotionControlMode, maySet, modeVars, Goto,
            GiveUp, Set, Lines
<1>3. CASE StartLock(t)
  BY <1>3 DEF StartLock
<1>4. CASE StartRefused(t)
  BY <1>4 DEF StartRefused
<1>5. CASE StartMode(t)
  BY <1>5 DEF StartMode
<1>6. CASE Stop(t)
  BY <1>6 DEF Stop
<1> QED BY <1>1, <1>2, <1>3, <1>4, <1>5, <1>6 DEF Start

\* The lines of the jog thread between them.
LEMMA JogKeepsMode ==
  ASSUME ModeInv, JogThread
  PROVE  ModeInv'
<1> USE DEF Lines, JogOnly, Controls, EndLoop
<1>1. CASE JogReset
  BY <1>1, LineKeepsMode DEF JogReset
<1>2. CASE JogWake
  BY <1>2, LineKeepsMode DEF JogWake
<1>3. CASE JogUpdate
  BY <1>3, LineKeepsMode DEF JogUpdate, waitForStateUpdate
<1>4. CASE JogSend
  BY <1>4, LineKeepsMode DEF JogSend
<1>5. CASE JogZero
  BY <1>5, LineKeepsMode DEF JogZero
<1>6. CASE JogSendZero
  BY <1>6, LineKeepsMode DEF JogSendZero
<1>7. CASE JogStart \/ JogStop
  BY <1>7, StartStopKeepMode DEF JogStart, startJogging, JogStop
<1> QED BY <1>1, <1>2, <1>3, <1>4, <1>5, <1>6, <1>7 DEF JogThread

\* ... and of the thread that tracks a pose.
LEMMA PoseKeepsMode ==
  ASSUME ModeInv, PoseThread
  PROVE  ModeInv'
<1> USE DEF Lines, PoseOnly, Controls, EndLoop
<1>1. CASE PoseReset
  BY <1>1, LineKeepsMode DEF PoseReset
<1>2. CASE PoseWake
  BY <1>2, LineKeepsMode DEF PoseWake
<1>3. CASE PoseCopy
  BY <1>3, LineKeepsMode DEF PoseCopy
<1>4. CASE PoseFeedback
  BY <1>4, LineKeepsMode DEF PoseFeedback, waitForStateUpdate
<1>5. CASE PoseSend
  BY <1>5, LineKeepsMode DEF PoseSend
<1>6. CASE PoseStart \/ PoseStop
  BY <1>6, StartStopKeepMode DEF PoseStart, startPoseTracking, PoseStop
<1> QED BY <1>1, <1>2, <1>3, <1>4, <1>5, <1>6 DEF PoseThread

-----------------------------------------------------------------------------
(* All threads together.                                                   *)

LEMMA InitMode == Init => ModeInv
BY DEF Init, DriverInit, RelayInit, ControlInit, ModeInv, ModeType, PcType, OwnerKnown,
       ModeHeldInMotion, Locked, Controls, Forwards, Lines

\* No step of any thread takes the motion mode from under another.
LEMMA NextMode == ModeInv /\ [Next]_vars => ModeInv'
<1> SUFFICES ASSUME ModeInv, [Next]_vars
             PROVE  ModeInv'
  OBVIOUS
<1>1. CASE Relay /\ UNCHANGED <<controlVars, jogVars, newGoal>>
  BY <1>1, RelayKeepsMode DEF controlVars
<1> USE NotifyKeepsMode DEF controlVars
<1>2. CASE ClientConnects /\ UNCHANGED <<controlVars, jogVars, newGoal>>
  BY <1>2 DEF ClientConnects, ModeInv, ModeType, PcType, OwnerKnown, ModeHeldInMotion, Locked,
              Controls, RelayModes, Forwards, modeVars
<1>3. ASSUME NEW m \in StateMessages, StateReceive(m)
      PROVE  ModeInv'
  BY <1>3 DEF StateReceive
<1>4. ASSUME NEW type \in Types, JogCallback(type)
      PROVE  ModeInv'
  BY <1>4 DEF JogCallback, Controllers
<1>5. CASE PoseGoal
  BY <1>5 DEF PoseGoal, Controllers
<1>6. ASSUME NEW t \in Controllers, CommandAges(t)
      PROVE  ModeInv'
  BY <1>6 DEF CommandAges
<1>7. CASE UNCHANGED vars
  BY <1>7 DEF vars, jogVars, relayVars, modeVars
<1> QED BY <1>1, <1>2, <1>3, <1>4, <1>5, <1>6, <1>7, JogKeepsMode, PoseKeepsMode DEF Next

\* Whatever the three threads do in the meantime, a controller (the jog interface, the pose
\* tracking controller) holds the motion control mode until it has stopped, and the relay
\* (MotionRelayHandler) from the first point of a trajectory until it gives the mode back,
\* and for each message of another type that it forwards (setMotionControlMode and all that
\* call it).  The later points of a trajectory may be relayed without the mode.
THEOREM ModeIsHeldInMotion == Spec => []ModeHeldInMotion
<1>1. ModeInv => ModeHeldInMotion
  BY DEF ModeInv
<1> QED BY <1>1, InitMode, NextMode, PTL DEF Spec
-----------------------------------------------------------------------------
(* The mode implements a lock.                                             *)

\* What a step does to the mode: nothing, or what setMotionControlMode does for a thread
\* that may set it.
SetsMode(t) ==
  maySet(t) /\ motion_ctrl_mode_' \in Modes /\ motion_ctrl_owner_' = t
ModeStep == UNCHANGED modeVars \/ \E t \in Threads : SetsMode(t)

\* Every step that changes the mode is one of setMotionControlMode.
LEMMA StepsOfMode == [Next]_vars => ModeStep
<1> SUFFICES ASSUME [Next]_vars
             PROVE  ModeStep
  OBVIOUS
<1>1. ASSUME NEW m \in Messages, RelayReceive(m)
      PROVE  ModeStep
  BY <1>1 DEF RelayReceive, takesMode, setMotionControlMode, ModeStep, SetsMode
<1>2. CASE Relay
  BY <1>1, <1>2 DEF Relay, RelayTimeout, RelayReceiveFails, stopRelaying, RelayForward,
                    setMotionControlMode, ModeStep, SetsMode, modeVars
<1>3. ASSUME NEW t \in Controllers, Start(t) \/ Stop(t)
      PROVE  ModeStep
  <2> USE DEF setMotionControlMode, ModeStep, SetsMode
  <2>1. CASE StartCheck(t)
    BY <2>1 DEF StartCheck
  <2>2. CASE StartLock(t)
    BY <2>2 DEF StartLock
  <2>3. CASE StartConfig(t)
    BY <2>3 DEF StartConfig
  <2>4. CASE StartRefused(t)
    BY <2>4 DEF StartRefused
  <2>5. CASE StartMode(t)
    BY <2>5 DEF StartMode
  <2>6. CASE Stop(t)
    BY <2>6 DEF Stop
  <2> QED BY <1>3, <2>1, <2>2, <2>3, <2>4, <2>5, <2>6 DEF Start
<1>4. CASE JogThread
  BY <1>3, <1>4 DEF JogThread, JogReset, JogWake, JogStart, startJogging, JogUpdate, JogSend,
                    JogZero, JogSendZero, JogStop, ModeStep, modeVars
<1>5. CASE PoseThread
  BY <1>3, <1>5 DEF PoseThread, PoseReset, PoseWake, PoseStart, startPoseTracking, PoseCopy,
                    PoseFeedback, PoseSend, PoseStop, ModeStep, modeVars
<1>6. CASE UNCHANGED vars
  BY <1>6 DEF vars, ModeStep
<1> QED BY <1>2, <1>4, <1>5, <1>6
        DEF Next, ClientConnects, StateReceive, JogCallback, PoseGoal, CommandAges, ModeStep

\* What setMotionControlMode does is a step of the abstract lock.
LEMMA ModeStepIsLockStep ==
  ASSUME ModeInv, ModeStep
  PROVE  [Lock!Next]_holder
<1>1. CASE UNCHANGED modeVars
  BY <1>1 DEF modeVars, holder
<1>2. ASSUME NEW t \in Threads, SetsMode(t)
      PROVE  [Lock!Next]_holder
  <2>1. holder = NoThread \/ holder = t
    BY <1>2 DEF SetsMode, maySet, holder
  <2>2. holder' = NoThread \/ holder' = t
    BY <1>2 DEF SetsMode, holder
  <2> QED BY <2>1, <2>2 DEF Lock!Next, Lock!Acquire, Lock!Release
<1> QED BY <1>1, <1>2 DEF ModeStep

\* RobotDriver's motion control mode implements the lock of MotionLock for the threads of
\* the middleware: it is taken only when nobody has it and given back only by its holder.
\* The owner, which the code keeps when the mode is IDLE again, does not count then.
THEOREM ModeImplementsLock == Spec => ImplementsLock
<1>1. Init => Lock!Init
  BY DEF Init, DriverInit, Lock!Init, holder
<1>2. ModeInv /\ [Next]_vars => [Lock!Next]_holder
  BY StepsOfMode, ModeStepIsLockStep
<1> QED BY <1>1, <1>2, InitMode, NextMode, PTL DEF Spec, ImplementsLock, Lock!Spec

-----------------------------------------------------------------------------
(* The error state of pose tracking.                                       *)

\* In error the thread has stopped, is about to, or waits: it starts again only when a
\* callback has left the error.
ErrorStops == in_error_["pose"] => pc["pose"] \in {"top", "sleep", "stop"}
ErrorInv   == FlagType /\ PcType /\ ErrorStops
ErrorKept  == in_error_["pose"] /\ fresh["pose"] => in_error_'["pose"]

LEMMA InitError == Init => ErrorInv
BY DEF Init, ControlInit, ErrorInv, FlagType, PcType, ErrorStops, Lines

\* To start or stop velocity control does not clear the error of pose tracking.
LEMMA StartStopKeepError ==
  ASSUME NEW t \in Controllers, ErrorInv, Start(t) \/ Stop(t)
  PROVE  ErrorInv' /\ ErrorKept
<1> USE DEF ErrorInv, FlagType, PcType, ErrorStops, ErrorKept, Lines, Goto, Set
<1>1. CASE StartCheck(t)
  BY <1>1, ZenonT(30) DEF StartCheck, GiveUp
<1>2. CASE StartLock(t)
  <2>1. CASE Goto(t, "config") /\ UNCHANGED in_error_
    BY <1>2, <2>1 DEF StartLock
  <2>2. CASE GiveUp(t)
    BY <1>2, <2>2 DEF StartLock, GiveUp
  <2> QED BY <1>2, <2>1, <2>2 DEF StartLock
<1>3. CASE StartConfig(t)
  BY <1>3 DEF StartConfig
<1>4. CASE StartRefused(t)
  BY <1>4 DEF StartRefused, GiveUp
<1>5. CASE StartMode(t)
  BY <1>5 DEF StartMode
<1>6. CASE Stop(t)
  BY <1>6 DEF Stop
<1> QED BY <1>1, <1>2, <1>3, <1>4, <1>5, <1>6 DEF Start

\* A control loop that runs is not in error; it may end in error.
LEMMA WaitKeepsError ==
  ASSUME NEW t \in Controllers, NEW line \in Lines, NEW failed \in Lines, ErrorInv,
         waitForStateUpdate(t, line, failed), UNCHANGED fresh,
         t = "pose" => pc[t] = "wait" /\ failed = "stop"
  PROVE  ErrorInv' /\ ErrorKept
<1> USE DEF ErrorInv, FlagType, PcType, ErrorStops, ErrorKept, Goto, Set
<1>1. CASE newer[t] /\ Goto(t, line) /\ newer' = Set(newer, t, FALSE) /\ UNCHANGED in_error_
  BY <1>1
<1>2. CASE ~newer[t] /\ EndLoop(t, failed, FALSE)
  BY <1>2 DEF EndLoop
<1> QED BY <1>1, <1>2 DEF waitForStateUpdate

\* The jog thread has flags and lines of its own.
LEMMA JogKeepsPoseError ==
  ASSUME ErrorInv, JogThread
  PROVE  ErrorInv' /\ ErrorKept
<1>1. CASE JogUpdate
  BY <1>1, WaitKeepsError DEF JogUpdate, JogOnly, Lines
<1>2. CASE JogStart \/ JogStop
  BY <1>2, StartStopKeepError DEF JogStart, startJogging, JogStop
<1> USE DEF ErrorInv, FlagType, PcType, ErrorStops, ErrorKept, Lines, Goto, Set, EndLoop, JogOnly
<1>3. CASE JogReset \/ JogWake \/ JogZero
  BY <1>3 DEF JogReset, JogWake, JogZero
<1>4. CASE JogSend
  BY <1>4, ZenonT(30) DEF JogSend
<1>5. CASE JogSendZero
  BY <1>5 DEF JogSendZero, sendResults, sendVelocityCommand, sendVelocityCommand_internal
<1> QED BY <1>1, <1>2, <1>3, <1>4, <1>5 DEF JogThread

\* The thread of pose tracking clears its error only when the goals have paused.
LEMMA PoseKeepsPoseError ==
  ASSUME ErrorInv, PoseThread
  PROVE  ErrorInv' /\ ErrorKept
<1>1. CASE PoseStart \/ PoseStop
  BY <1>1, StartStopKeepError DEF PoseStart, startPoseTracking, PoseStop
<1>2. CASE PoseFeedback /\ waitForStateUpdate("pose", "send", "stop")
  BY <1>2, WaitKeepsError DEF PoseFeedback, PoseOnly, Lines
<1> USE DEF ErrorInv, FlagType, PcType, ErrorStops, ErrorKept, Lines, Goto, Set, EndLoop, PoseOnly
<1>3. CASE PoseReset
  BY <1>3 DEF PoseReset
<1>4. CASE PoseWake
  BY <1>4 DEF PoseWake
<1>5. CASE PoseCopy
  BY <1>5, ZenonT(30) DEF PoseCopy
<1>6. CASE PoseFeedback /\ EndLoop("pose", "stop", FALSE)
  BY <1>6 DEF PoseFeedback
<1>7. CASE PoseSend
  BY <1>7, ZenonT(30) DEF PoseSend
<1>8. PoseFeedback => \/ EndLoop("pose", "stop", FALSE)
                      \/ waitForStateUpdate("pose", "send", "stop")
  BY DEF PoseFeedback
<1> QED BY <1>1, <1>2, <1>3, <1>4, <1>5, <1>6, <1>7, <1>8 DEF PoseThread

\* Every step keeps the invariant of the error and the error itself.
LEMMA NextError == ErrorInv /\ [Next]_vars => ErrorInv' /\ ErrorKept
<1> SUFFICES ASSUME ErrorInv, [Next]_vars
             PROVE  ErrorInv' /\ ErrorKept
  OBVIOUS
<1> USE DEF ErrorInv, FlagType, PcType, ErrorStops, ErrorKept, controlVars, Set
<1>1. ASSUME NEW m \in StateMessages, StateReceive(m)
      PROVE  ErrorInv' /\ ErrorKept
  BY <1>1 DEF StateReceive, setJointPositions, InLoop
<1>2. ASSUME NEW type \in Types, JogCallback(type)
      PROVE  ErrorInv' /\ ErrorKept
  BY <1>2 DEF JogCallback, inError, Notify, Lines
<1>3. CASE PoseGoal
  BY <1>3 DEF PoseGoal, inError, Notify, Lines
<1>4. ASSUME NEW t \in Controllers, CommandAges(t)
      PROVE  ErrorInv' /\ ErrorKept
  BY <1>4 DEF CommandAges
<1>5. CASE UNCHANGED vars
  BY <1>5 DEF vars
<1> QED BY <1>1, <1>2, <1>3, <1>4, <1>5, JogKeepsPoseError, PoseKeepsPoseError DEF Next

\* The error state of pose tracking is left by the first goal that comes after a timeout
\* of goals, and by nothing else (PoseTrackingController::poseGoalCb): whatever the thread
\* does, the rest of a stream of goals in which an error came up is ignored.
THEOREM PoseErrorStays == Spec => PoseErrorKept
<1>1. ErrorInv /\ [Next]_vars
        => [in_error_["pose"] /\ fresh["pose"] => in_error_'["pose"]]_vars
  BY NextError DEF ErrorKept
<1> QED BY <1>1, InitError, NextError, PTL DEF Spec, PoseErrorKept

-----------------------------------------------------------------------------
(* The limits of the driver: scales are fractions, whose denominators are  *)
(* not zero.                                                               *)

Fraction == Nat \X (Nat \ {0})

\* The order of fractions is transitive.
LEMMA LessIsTransitive ==
  ASSUME NEW a \in Fraction, NEW b \in Fraction, NEW c \in Fraction, less(a, b), less(b, c)
  PROVE  less(a, c)
<1>1. PICK a1 \in Nat, a2 \in Nat \ {0}, b1 \in Nat, b2 \in Nat \ {0}, c1 \in Nat, c2 \in Nat \ {0} :
        a = <<a1, a2>> /\ b = <<b1, b2>> /\ c = <<c1, c2>>
  BY SMTT(30) DEF Fraction
<1>2. a1 * b2 < b1 * a2 /\ b1 * c2 < c1 * b2
  BY <1>1 DEF less
<1>3. (a1 * b2) * c2 < (b1 * a2) * c2 /\ (b1 * c2) * a2 < (c1 * b2) * a2
  BY <1>2
<1>4. (a1 * c2) * b2 < (c1 * a2) * b2
  BY <1>3
<1>5. a1 * c2 < c1 * a2
  BY <1>4
<1> QED BY <1>1, <1>5 DEF less

\* A finite set of scales has a smallest.
LEMMA SmallestIsIn ==
  ASSUME NEW S \in SUBSET Fraction, IsFiniteSet(S), S # {}
  PROVE  smallest(S) \in S /\ \A r \in S : ~less(r, smallest(S))
<1> DEFINE Below(s) == {r \in S : less(r, s)}
<1>1. {Below(s) : s \in S} \subseteq FiniteSubsetsOf(S) /\ {Below(s) : s \in S} # {}
  <2>1. \A s \in S : Below(s) \in SUBSET S
    OBVIOUS
  <2>2. \A s \in S : Below(s) \in FiniteSubsetsOf(S)
    <3> HIDE DEF Below
    <3> QED BY <2>1, FS_Subset DEF FiniteSubsetsOf
  <2> HIDE DEF Below
  <2> QED BY <2>2
<1>2. PICK s \in S : \A r \in S : <<Below(r), Below(s)>> \notin StrictSubsetOrdering(S)
  <2>1. IsWellFoundedOn(StrictSubsetOrdering(S), FiniteSubsetsOf(S))
    BY FS_StrictSubsetOrderingWellFounded
  <2>2. PICK B \in {Below(s) : s \in S} :
          \A C \in {Below(s) : s \in S} : <<C, B>> \notin StrictSubsetOrdering(S)
    <3> HIDE DEF Below
    <3> QED BY <1>1, <2>1, WFMin
  <2> QED BY <2>2
<1>3. \A r \in S : ~less(r, s)
  <2> SUFFICES ASSUME NEW r \in S, less(r, s) PROVE FALSE
    OBVIOUS
  <2>1. ~less(r, r)
    BY DEF less, Fraction
  <2>2. Below(r) \subseteq Below(s)
    BY LessIsTransitive
  <2>3. r \in Below(s) /\ r \notin Below(r)
    BY <2>1
  <2>4. <<Below(r), Below(s)>> \in StrictSubsetOrdering(S)
    BY <2>2, <2>3 DEF StrictSubsetOrdering
  <2> QED BY <1>2, <2>4
<1> QED BY <1>3 DEF smallest

\* What reduces a velocity is a share of it, and reduces it to the limit, even if
\* less of it is taken.
LEMMA ReduceKeeps ==
  ASSUME NEW v \in Int, NEW s \in Fraction, NEW max \in Nat
  PROVE  /\ reduce(v, s, max) \in Fraction
         /\ \A c \in Fraction : ~less(reduce(v, s, max), c) /\ ~less(one, c) =>
              abs(v) * (s[1] * c[1]) <= max * (s[2] * c[2])
         /\ abs(v) * s[1] <= max * s[2] => reduce(v, s, max) = one
         /\ ~less(one, reduce(v, s, max))
<1>1. PICK a \in Nat : a = abs(v)
  BY DEF abs
<1>2. PICK s1 \in Nat, s2 \in Nat \ {0} : s = <<s1, s2>>
  BY DEF Fraction
<1>3. a * s1 \in Nat /\ max * s2 \in Nat
  OBVIOUS
<1>4. reduce(v, s, max) = IF a * s1 > max * s2 THEN <<max * s2, a * s1>> ELSE <<1, 1>>
  BY <1>1, <1>2 DEF reduce, one
<1>5. reduce(v, s, max) \in Fraction
  BY <1>3, <1>4 DEF Fraction
<1>6. ASSUME NEW c1 \in Nat, NEW c2 \in Nat \ {0}, ~less(reduce(v, s, max), <<c1, c2>>), c1 <= c2
      PROVE  a * (s1 * c1) <= max * (s2 * c2)
  <2>1. a * (s1 * c1) = c1 * (a * s1) /\ max * (s2 * c2) = (max * s2) * c2
    OBVIOUS
  <2>2. CASE a * s1 > max * s2
    <3>1. ~((max * s2) * c2 < c1 * (a * s1))
      BY <1>4, <1>6, <2>2 DEF less
    <3>2. (max * s2) * c2 \in Nat /\ c1 * (a * s1) \in Nat
      BY <1>3
    <3> QED BY <2>1, <3>1, <3>2
  <2>3. CASE ~(a * s1 > max * s2)
    <3>1. a * s1 <= max * s2
      BY <1>3, <2>3
    <3>2. \A x, y \in Nat : x <= y => c1 * x <= c1 * y /\ c1 * y <= y * c2
      BY <1>6
    <3>3. c1 * (a * s1) <= c1 * (max * s2) /\ c1 * (max * s2) <= (max * s2) * c2
      BY <1>3, <3>1, <3>2
    <3> QED BY <1>3, <2>1, <3>3
  <2> QED BY <2>2, <2>3
<1>7. ASSUME NEW c \in Fraction, ~less(reduce(v, s, max), c), ~less(one, c)
      PROVE  abs(v) * (s[1] * c[1]) <= max * (s[2] * c[2])
  <2>1. PICK c1 \in Nat, c2 \in Nat \ {0} : c = <<c1, c2>>
    BY DEF Fraction
  <2>2. c1 <= c2
    BY <1>7, <2>1 DEF less, one
  <2>3. a * (s1 * c1) <= max * (s2 * c2)
    BY <1>6, <1>7, <2>1, <2>2
  <2> QED BY <1>1, <1>2, <2>1, <2>3
<1>8. abs(v) * s[1] <= max * s[2] => reduce(v, s, max) = one
  BY <1>1, <1>2, <1>3, <1>4 DEF one
<1>9. ~less(one, reduce(v, s, max))
  BY <1>3, <1>4 DEF one, less
<1> QED BY <1>5, <1>7, <1>8, <1>9

\* The limit of a joint, which the settings may lower.
LEMMA Limit ==
  ASSUME NEW joint, joint.max_velocity_ \in Nat, NEW set, set.max_velocity \in Nat
  PROVE  /\ max_velocity(joint, set) \in Nat
         /\ set.has_velocity_limit => max_velocity(joint, set) <= set.max_velocity
         /\ set.has_velocity_limit => max_velocity(joint, set) <= joint.max_velocity_
<1>1. \E z \in {set.max_velocity, joint.max_velocity_} :
        \A w \in {set.max_velocity, joint.max_velocity_} : z <= w
  OBVIOUS
<1> QED BY <1>1 DEF max_velocity, Min

\* The joints of a robot, as many as there are.
RobotJoints(n, joints) == DOMAIN joints = 1 .. n /\ \A i \in 1 .. n : joints[i].max_velocity_ \in Nat

\* Velocities and limits of joints are numbers.
LEMMA JointValues ==
  ASSUME NEW n \in Nat, NEW joints, RobotJoints(n, joints), NEW vel \in [1 .. n -> Int],
         NEW set, set.max_velocity \in Nat
  PROVE  \A i \in 1 .. n : abs(vel[i]) \in Nat /\ max_velocity(joints[i], set) \in Nat
BY Limit DEF RobotJoints, abs

\* A joint is at the end of where it may be, and would go on.
StopsSome(joints, pos, vel, set) ==
  \E i \in DOMAIN joints : stopsAt(joints[i], pos[i], vel[i], set.stop_tolerance)

\* The share r of the velocities keeps the limits of the joints.
KeepsJointLimits(joints, vel, set, r) == \A i \in DOMAIN joints : isLimited(joints[i], set) =>
  abs(vel[i]) * r[1] <= max_velocity(joints[i], set) * r[2]

\* The scale for the joints: one that is not above any that a joint needs.
LEMMA JointScale ==
  ASSUME NEW n \in Nat, NEW joints, RobotJoints(n, joints),
         NEW pos, NEW vel \in [1 .. n -> Int], NEW set, set.max_velocity \in Nat,
         NEW s, s = computeJointLimitsScale(joints, pos, vel, set)
  PROVE  /\ s \in Fraction /\ s[1] <= s[2]
         /\ KeepsJointLimits(joints, vel, set, s)
         /\ StopsSome(joints, pos, vel, set) => s[1] = 0
         /\ ~StopsSome(joints, pos, vel, set) /\ KeepsJointLimits(joints, vel, set, one) => s = one
<1>1. \A i \in 1 .. n : /\ max_velocity(joints[i], set) \in Nat /\ vel[i] \in Int
                        /\ abs(vel[i]) \in Nat
  BY JointValues
<1> USE DEF StopsSome, KeepsJointLimits, RobotJoints
<1> DEFINE Stops == StopsSome(joints, pos, vel, set)
           D == {j \in 1 .. n : isLimited(joints[j], set)}
           f == [i \in D |-> reduce(vel[i], one, max_velocity(joints[i], set))]
           S == {one} \union {f[i] : i \in D}
<1>2. s = IF Stops THEN <<0, 1>> ELSE smallest(S)
  <2>1. {reduce(vel[i], one, max_velocity(joints[i], set)) : i \in D} = {f[i] : i \in D}
    OBVIOUS
  <2> QED BY <2>1 DEF computeJointLimitsScale
<1>3. CASE Stops
  <2>1. s = <<0, 1>>
    BY <1>2, <1>3
  <2>2. s \in Fraction /\ s[1] = 0 /\ s[2] = 1
    BY <2>1 DEF Fraction
  <2>3. \A i \in 1 .. n : abs(vel[i]) * 0 <= max_velocity(joints[i], set) * 1
    BY <1>1
  <2> QED BY <1>3, <2>2, <2>3
<1>4. CASE ~Stops
  <2>1. one \in Fraction /\ one[1] = 1 /\ one[2] = 1
    BY DEF one, Fraction
  <2>2. \A i \in D : f[i] = reduce(vel[i], one, max_velocity(joints[i], set)) /\ i \in 1 .. n
    OBVIOUS
  <2>3. \A i \in D : f[i] \in Fraction
    BY <1>1, <2>1, <2>2, ReduceKeeps
  <2>4. IsFiniteSet(D)
    <3>1. IsFiniteSet(1 .. n) /\ D \in SUBSET (1 .. n)
      BY FS_Interval
    <3> HIDE DEF D
    <3> QED BY <3>1, FS_Subset
  <2>5. IsFiniteSet(S) /\ S \in SUBSET Fraction /\ one \in S
    <3>1. f \in Surjection(D, {f[i] : i \in D})
      BY DEF Surjection
    <3>2. IsFiniteSet({f[i] : i \in D})
      <4> HIDE DEF D, f
      <4> QED BY <2>4, <3>1, FS_Surjection
    <3>3. IsFiniteSet({f[i] : i \in D} \union {one})
      <4> HIDE DEF D, f
      <4> QED BY <3>2, FS_AddElement
    <3>4. {f[i] : i \in D} \union {one} = S
      OBVIOUS
    <3> QED BY <2>1, <2>3, <3>3, <3>4
  <2>6. s \in S /\ \A r \in S : ~less(r, s)
    <3> HIDE DEF S, Stops
    <3> QED BY <1>2, <1>4, <2>5, SmallestIsIn
  <2>7. s \in Fraction /\ ~less(one, s)
    BY <2>5, <2>6
  <2>8. s[1] <= s[2] /\ s[1] \in Nat /\ s[2] \in Nat
    BY <2>7 DEF less, one, Fraction
  <2>9. ASSUME NEW i \in D
        PROVE  abs(vel[i]) * s[1] <= max_velocity(joints[i], set) * s[2]
    <3>1. ~less(reduce(vel[i], one, max_velocity(joints[i], set)), s)
      BY <2>2, <2>6
    <3>2. abs(vel[i]) * (one[1] * s[1]) <= max_velocity(joints[i], set) * (one[2] * s[2])
      BY <1>1, <2>1, <2>2, <2>7, <3>1, ReduceKeeps
    <3> QED BY <2>1, <2>8, <3>2
  <2>10. ASSUME KeepsJointLimits(joints, vel, set, one)
         PROVE  s = one
    <3>1. ASSUME NEW i \in D PROVE f[i] = one
      <4>1. abs(vel[i]) * one[1] <= max_velocity(joints[i], set) * one[2]
        BY <1>1, <2>1, <2>2, <2>10
      <4> QED BY <1>1, <2>1, <2>2, <4>1, ReduceKeeps
    <3> QED BY <2>6, <3>1
  <2> QED BY <1>4, <2>7, <2>8, <2>9, <2>10
<1> QED BY <1>3, <1>4

\* Products grow with their factors.
LEMMA Products ==
  ASSUME NEW x \in Nat, NEW y \in Nat, NEW c \in Nat, NEW d \in Nat, x <= y, c <= d
  PROVE  x * c <= y * d
<1>1. x * c \in Nat /\ y * c \in Nat /\ y * d \in Nat
  OBVIOUS
<1>2. x * c <= y * c /\ y * c <= y * d
  OBVIOUS
<1> QED BY <1>1, <1>2

\* What the user may ask for.
Params == [has_velocity_limit : BOOLEAN, max_velocity : Nat, stop_tolerance : Nat,
           max_linear_velocity : Nat, max_angular_velocity : Nat]

\* The share r of the velocities of the joints and of the tool that they make keeps
\* every limit, in the units of whoever gave it.
KeepsAll(joints, vel, cart, param, r) ==
  /\ KeepsJointLimits(joints, vel, initParam(param), r)
  /\ abs(cart.linear) * r[1] <= param.max_linear_velocity * r[2]
  /\ DEGREES * abs(cart.angular) * r[1] <= param.max_angular_velocity * r[2]
  /\ param.has_velocity_limit => \A i \in DOMAIN joints :
       DEGREES * abs(vel[i]) * r[1] <= param.max_velocity * r[2]

\* Settings in radians allow no more than the parameters in degrees.
LEMMA Settings ==
  ASSUME NEW param \in Params, NEW set, set = initParam(param)
  PROVE  /\ set.max_velocity \in Nat /\ DEGREES * set.max_velocity <= param.max_velocity
         /\ set.max_linear_velocity = param.max_linear_velocity /\ set.max_linear_velocity \in Nat
         /\ set.max_angular_velocity \in Nat
         /\ DEGREES * set.max_angular_velocity <= param.max_angular_velocity
         /\ \A x \in Nat : DEGREES * x <= param.max_angular_velocity => x <= set.max_angular_velocity
         /\ set.has_velocity_limit = param.has_velocity_limit
<1>1. /\ set.max_velocity = param.max_velocity \div 60
      /\ set.max_angular_velocity = param.max_angular_velocity \div 60
      /\ set.max_linear_velocity = param.max_linear_velocity
      /\ set.has_velocity_limit = param.has_velocity_limit
  BY DEF initParam, toRadians, DEGREES, Params
<1>2. /\ param.max_velocity \in Nat /\ param.max_angular_velocity \in Nat
      /\ param.max_linear_velocity \in Nat
  BY DEF Params
<1>3. \A p \in Nat : /\ p \div 60 \in Nat /\ 60 * (p \div 60) <= p
                     /\ \A x \in Nat : 60 * x <= p => x <= p \div 60
  OBVIOUS
<1> QED BY <1>1, <1>2, <1>3 DEF DEGREES

\* A limit kept in radians is kept in degrees.
LEMMA InDegrees ==
  ASSUME NEW a \in Nat, NEW max \in Nat, NEW p \in Nat, NEW x \in Nat, NEW y \in Nat,
         a * x <= max * y, DEGREES * max <= p
  PROVE  DEGREES * a * x <= p * y
<1>1. a * x \in Nat /\ max * y \in Nat /\ p * y \in Nat
  OBVIOUS
<1>2. (60 * max) * y <= p * y
  BY Products DEF DEGREES
<1>3. 60 * a * x = 60 * (a * x) /\ (60 * max) * y = 60 * (max * y)
  OBVIOUS
<1> QED BY <1>1, <1>2, <1>3 DEF DEGREES

\* Whatever the robot is, where it is, what its joints are told and what limits the user
\* gave (enforceLimits): what is left of the command is a share of it that keeps every
\* limit; nothing is left if a joint would move on where its position ends; and all of it
\* if it keeps the limits.
THEOREM EveryCommandKeepsLimits ==
  ASSUME NEW n \in Nat, n >= 2, NEW joints, RobotJoints(n, joints),
         NEW pos, NEW vel \in [1 .. n -> Int], NEW jacobian \in [{"linear", "angular"} -> [1 .. 2 -> Int]],
         NEW param \in Params,
         NEW set, set = initParam(param), NEW cart, cart = product(jacobian, vel),
         NEW r, r = enforceLimits(joints, pos, vel, jacobian, set)
  PROVE  /\ r[1] \in Nat /\ r[2] \in Nat \ {0} /\ r[1] <= r[2]
         /\ KeepsAll(joints, vel, cart, param, r)
         /\ StopsSome(joints, pos, vel, set) => r[1] = 0
         /\ ~StopsSome(joints, pos, vel, set) /\ KeepsAll(joints, vel, cart, param, one) => r[1] = r[2]
<1>1. /\ set.max_velocity \in Nat /\ DEGREES * set.max_velocity <= param.max_velocity
      /\ set.max_linear_velocity = param.max_linear_velocity /\ set.max_linear_velocity \in Nat
      /\ set.max_angular_velocity \in Nat
      /\ DEGREES * set.max_angular_velocity <= param.max_angular_velocity
      /\ \A x \in Nat : DEGREES * x <= param.max_angular_velocity => x <= set.max_angular_velocity
      /\ set.has_velocity_limit = param.has_velocity_limit
  BY Settings
<1>2. cart.linear \in Int /\ cart.angular \in Int
  <2>1. jacobian.linear \in [1 .. 2 -> Int] /\ jacobian.angular \in [1 .. 2 -> Int]
    OBVIOUS
  <2>2. vel[1] \in Int /\ vel[2] \in Int
    OBVIOUS
  <2>3. /\ cart.linear = jacobian.linear[1] * vel[1] + jacobian.linear[2] * vel[2]
        /\ cart.angular = jacobian.angular[1] * vel[1] + jacobian.angular[2] * vel[2]
    BY DEF product
  <2> QED BY <2>1, <2>2, <2>3
<1>3. PICK s : s = computeJointLimitsScale(joints, pos, vel, set)
  OBVIOUS
<1> DEFINE Stops == StopsSome(joints, pos, vel, set)
<1>5. /\ s \in Fraction /\ s[1] <= s[2]
      /\ KeepsJointLimits(joints, vel, set, s)
      /\ Stops => s[1] = 0
      /\ ~Stops /\ KeepsJointLimits(joints, vel, set, one) => s = one
  <2>1. set.max_velocity \in Nat
    BY <1>1
  <2> QED BY <1>3, <2>1, JointScale
<1>6. PICK lin : lin = reduce(cart.linear, s, set.max_linear_velocity)
  OBVIOUS
<1>7. PICK ang : ang = reduce(cart.angular, s, set.max_angular_velocity)
  OBVIOUS
<1>8. PICK c : c = smallest({lin, ang})
  OBVIOUS
<1>9. r = IF s[1] = 0 THEN s ELSE times(s, c)
  BY <1>3, <1>6, <1>7, <1>8 DEF enforceLimits, computeCartesianLimitsScale
<1>10. /\ lin \in Fraction /\ ang \in Fraction /\ ~less(one, lin) /\ ~less(one, ang)
       /\ \A d \in Fraction : ~less(lin, d) /\ ~less(one, d) =>
            abs(cart.linear) * (s[1] * d[1]) <= set.max_linear_velocity * (s[2] * d[2])
       /\ \A d \in Fraction : ~less(ang, d) /\ ~less(one, d) =>
            abs(cart.angular) * (s[1] * d[1]) <= set.max_angular_velocity * (s[2] * d[2])
       /\ abs(cart.linear) * s[1] <= set.max_linear_velocity * s[2] => lin = one
       /\ abs(cart.angular) * s[1] <= set.max_angular_velocity * s[2] => ang = one
  BY <1>1, <1>2, <1>5, <1>6, <1>7, ReduceKeeps
<1>11. c \in {lin, ang} /\ ~less(lin, c) /\ ~less(ang, c)
  <2>1. IsFiniteSet({lin, ang})
    <3>1. {lin, ang} = {lin} \union {ang}
      OBVIOUS
    <3>2. IsFiniteSet({lin})
      BY FS_Singleton
    <3>3. IsFiniteSet({lin} \union {ang})
      BY <3>2, FS_AddElement
    <3> QED BY <3>1, <3>3, Zenon
  <2> QED BY <1>8, <1>10, <2>1, SmallestIsIn
<1>12. c \in Fraction /\ ~less(one, c)
  BY <1>10, <1>11
<1>13. PICK s1 \in Nat, s2 \in Nat \ {0}, c1 \in Nat, c2 \in Nat \ {0} : s = <<s1, s2>> /\ c = <<c1, c2>>
  BY <1>5, <1>12 DEF Fraction
<1>14. c1 <= c2 /\ s1 <= s2
  BY <1>5, <1>12, <1>13 DEF less, one
\* The scale as two numbers, and what of the limits it keeps.
<1>15. PICK r1, r2 : /\ r = <<r1, r2>> /\ r1 \in Nat /\ r2 \in Nat \ {0} /\ r1 <= r2
                     /\ s1 = 0 => r1 = 0
                     /\ s = one /\ c = one => r1 = r2
                     /\ abs(cart.linear) * r1 <= set.max_linear_velocity * r2
                     /\ abs(cart.angular) * r1 <= set.max_angular_velocity * r2
                     /\ \A a, max \in Nat : a * s1 <= max * s2 => a * r1 <= max * r2
  <2>1. CASE s1 = 0
    <3>1. r = <<s1, s2>>
      BY <1>9, <1>13, <2>1
    <3>2. abs(cart.linear) * s1 <= set.max_linear_velocity * s2
      BY <1>1, <1>2, <2>1, SMTT(30) DEF abs
    <3>3. abs(cart.angular) * s1 <= set.max_angular_velocity * s2
      BY <1>1, <1>2, <2>1, SMTT(30) DEF abs
    <3>4. s = one => s1 = s2
      BY <1>13 DEF one
    <3> QED BY <1>14, <2>1, <3>1, <3>2, <3>3, <3>4
  <2>2. CASE s1 # 0
    <3>1. r = <<s1 * c1, s2 * c2>>
      BY <1>9, <1>13, <2>2 DEF times
    <3>2. s1 * c1 \in Nat /\ s2 * c2 \in Nat \ {0}
      OBVIOUS
    <3>3. s1 * c1 <= s2 * c2
      BY <1>14, Products
    <3>4. abs(cart.linear) * (s1 * c1) <= set.max_linear_velocity * (s2 * c2)
      BY <1>10, <1>11, <1>12, <1>13
    <3>5. abs(cart.angular) * (s1 * c1) <= set.max_angular_velocity * (s2 * c2)
      BY <1>10, <1>11, <1>12, <1>13
    <3>6. ASSUME NEW a \in Nat, NEW max \in Nat, a * s1 <= max * s2
          PROVE  a * (s1 * c1) <= max * (s2 * c2)
      <4>1. a * s1 \in Nat /\ max * s2 \in Nat
        OBVIOUS
      <4>2. (a * s1) * c1 <= (max * s2) * c2
        BY <1>14, <3>6, <4>1, Products
      <4>3. a * (s1 * c1) = (a * s1) * c1 /\ max * (s2 * c2) = (max * s2) * c2
        OBVIOUS
      <4> QED BY <4>2, <4>3
    <3>7. s = one /\ c = one => s1 * c1 = s2 * c2
      BY <1>13 DEF one
    <3> QED BY <2>2, <3>1, <3>2, <3>3, <3>4, <3>5, <3>6, <3>7
  <2> QED BY <2>1, <2>2
<1>16. KeepsAll(joints, vel, cart, param, r)
  <2>1. \A i \in 1 .. n : abs(vel[i]) \in Nat /\ max_velocity(joints[i], set) \in Nat
    <3>1. set.max_velocity \in Nat
      BY <1>1
    <3> QED BY <3>1, JointValues
  <2>2. \A i \in 1 .. n : isLimited(joints[i], set) => abs(vel[i]) * r1 <= max_velocity(joints[i], set) * r2
    <3> SUFFICES ASSUME NEW i \in 1 .. n, isLimited(joints[i], set)
                 PROVE  abs(vel[i]) * r1 <= max_velocity(joints[i], set) * r2
      OBVIOUS
    <3>1. abs(vel[i]) * s1 <= max_velocity(joints[i], set) * s2
      BY <1>5, <1>13 DEF KeepsJointLimits, RobotJoints
    <3> QED BY <1>15, <2>1, <3>1
  <2>3. DEGREES * abs(cart.angular) * r1 <= param.max_angular_velocity * r2
    <3>1. abs(cart.angular) \in Nat /\ param.max_angular_velocity \in Nat
      BY <1>2, SMTT(30) DEF abs, Params
    <3>2. /\ set.max_angular_velocity \in Nat /\ r1 \in Nat /\ r2 \in Nat
          /\ abs(cart.angular) * r1 <= set.max_angular_velocity * r2
      BY <1>1, <1>15
    <3>3. DEGREES * set.max_angular_velocity <= param.max_angular_velocity
      BY <1>1
    <3> QED BY <3>1, <3>2, <3>3, InDegrees
  <2>4. ASSUME param.has_velocity_limit, NEW i \in 1 .. n
        PROVE  DEGREES * abs(vel[i]) * r1 <= param.max_velocity * r2
    <3>1. isLimited(joints[i], set) /\ max_velocity(joints[i], set) <= set.max_velocity
      <4>1. /\ joints[i].max_velocity_ \in Nat /\ set.max_velocity \in Nat
            /\ set.has_velocity_limit
        BY <1>1, <2>4 DEF RobotJoints
      <4> QED BY <4>1, Limit DEF isLimited
    <3>2. abs(vel[i]) * r1 <= set.max_velocity * r2
      <4>1. abs(vel[i]) * r1 <= max_velocity(joints[i], set) * r2
        BY <2>2, <3>1
      <4>2. max_velocity(joints[i], set) * r2 <= set.max_velocity * r2
        <5>1. r2 \in Nat /\ r2 <= r2 /\ set.max_velocity \in Nat
          BY <1>1, <1>15
        <5> QED BY <2>1, <3>1, <5>1, Products
      <4>3. /\ abs(vel[i]) * r1 \in Nat /\ max_velocity(joints[i], set) * r2 \in Nat
            /\ set.max_velocity * r2 \in Nat
        <5>1. /\ abs(vel[i]) \in Nat /\ max_velocity(joints[i], set) \in Nat /\ set.max_velocity \in Nat
              /\ r1 \in Nat /\ r2 \in Nat
          BY <1>1, <1>15, <2>1
        <5>2. \A x, y \in Nat : x * y \in Nat
          OBVIOUS
        <5> QED BY <5>1, <5>2
      <4> QED BY <4>1, <4>2, <4>3
    <3>3. /\ abs(vel[i]) \in Nat /\ set.max_velocity \in Nat /\ param.max_velocity \in Nat
          /\ r1 \in Nat /\ r2 \in Nat /\ DEGREES * set.max_velocity <= param.max_velocity
      BY <1>1, <1>15, <2>1 DEF Params
    <3> QED BY <3>2, <3>3, InDegrees
  <2> QED BY <1>1, <1>15, <2>2, <2>3, <2>4 DEF KeepsAll, KeepsJointLimits, RobotJoints
<1>17. ASSUME ~Stops, KeepsAll(joints, vel, cart, param, one)
       PROVE  r[1] = r[2]
  <2>1. one[1] = 1 /\ one[2] = 1
    BY DEF one
  <2>2. s = one
    BY <1>5, <1>17 DEF KeepsAll
  <2>3. lin = one
    <3>1. abs(cart.linear) * s[1] <= set.max_linear_velocity * s[2]
      BY <1>1, <1>17, <2>1, <2>2 DEF KeepsAll
    <3> QED BY <1>10, <3>1
  <2>4. ang = one
    <3>1. abs(cart.angular) \in Nat /\ param.max_angular_velocity \in Nat
      BY <1>2, SMTT(30) DEF abs, Params
    <3>2. DEGREES * abs(cart.angular) * 1 <= param.max_angular_velocity * 1
      BY <1>17, <2>1 DEF KeepsAll
    <3>3. DEGREES * abs(cart.angular) <= param.max_angular_velocity
      BY <3>1, <3>2 DEF DEGREES
    <3>4. abs(cart.angular) <= set.max_angular_velocity
      BY <1>1, <3>1, <3>3
    <3>5. abs(cart.angular) * s[1] <= set.max_angular_velocity * s[2]
      BY <1>1, <2>1, <2>2, <3>1, <3>4
    <3> QED BY <1>10, <3>5
  <2> QED BY <1>11, <1>15, <2>2, <2>3, <2>4
<1>18. ASSUME Stops PROVE r[1] = 0
  <2>1. s1 = 0
    BY <1>5, <1>13, <1>18
  <2> QED BY <1>15, <2>1
<1> QED BY <1>15, <1>16, <1>17, <1>18

\* The fastest joint: its velocity is the smallest of the fractions 1 / (x + 1).
LEMMA LargestIsIn ==
  ASSUME NEW S \in SUBSET Nat, IsFiniteSet(S), S # {}
  PROVE  Max(S) \in S /\ \A x \in S : x <= Max(S)
<1> DEFINE f == [x \in S |-> <<1, x + 1>>]
           T == {f[x] : x \in S}
<1>1. T \in SUBSET Fraction /\ T # {}
  <2>1. \A x \in S : f[x] = <<1, x + 1>> /\ x + 1 \in Nat \ {0} /\ 1 \in Nat
    OBVIOUS
  <2>2. \A x \in S : f[x] \in Fraction
    BY <2>1 DEF Fraction
  <2> QED BY <2>2
<1>2. IsFiniteSet(T)
  <2>1. f \in Surjection(S, T)
    BY DEF Surjection
  <2> HIDE DEF f, T
  <2> QED BY <2>1, FS_Surjection
<1>3. smallest(T) \in T /\ \A r \in T : ~less(r, smallest(T))
  <2> HIDE DEF T
  <2> QED BY <1>1, <1>2, SmallestIsIn
<1>4. PICK m \in S : smallest(T) = <<1, m + 1>>
  BY <1>3
<1>5. \A x \in S : m >= x
  <2> SUFFICES ASSUME NEW x \in S PROVE m >= x
    OBVIOUS
  <2>1. <<1, x + 1>> \in T
    OBVIOUS
  <2>2. ~less(<<1, x + 1>>, <<1, m + 1>>)
    BY <1>3, <1>4, <2>1
  <2> QED BY <2>2 DEF less
<1>6. Max(S) \in S /\ \A y \in S : Max(S) >= y
  BY <1>5 DEF Max
<1> QED BY <1>6

\* The share of its nominal velocity that the controller lets a joint have
\* (sendVelocityConfig), which is all that limits the joints while they make a Cartesian
\* command, is at most all of it, and keeps the limit of the user, for any robot.
THEOREM AllowedVelocityKeepsLimits ==
  ASSUME NEW n \in Nat, n >= 1, NEW joints, RobotJoints(n, joints), NEW param \in Params,
         NEW set, set = initParam(param), NEW share, share = configVelocity(joints, set)
  PROVE  /\ share[1] \in Nat /\ share[2] \in Nat /\ share[1] <= share[2]
         /\ param.has_velocity_limit => \A i \in 1 .. n :
              DEGREES * joints[i].max_velocity_ * share[1] <= param.max_velocity * share[2]
<1>1. /\ set.max_velocity \in Nat /\ DEGREES * set.max_velocity <= param.max_velocity
      /\ set.has_velocity_limit = param.has_velocity_limit /\ param.max_velocity \in Nat
  BY Settings DEF Params
<1> DEFINE f == [i \in 1 .. n |-> joints[i].max_velocity_]
           S == {f[i] : i \in 1 .. n}
<1>2. S \in SUBSET Nat /\ S # {} /\ \A i \in 1 .. n : joints[i].max_velocity_ \in S
  BY DEF RobotJoints
<1>3. IsFiniteSet(S)
  <2>1. f \in Surjection(1 .. n, S)
    BY DEF Surjection
  <2>2. IsFiniteSet(1 .. n)
    BY FS_Interval
  <2> HIDE DEF f, S
  <2> QED BY <2>1, <2>2, FS_Surjection
<1>4. PICK nominal : nominal = Max(S)
  OBVIOUS
<1>5. nominal \in Nat /\ \A i \in 1 .. n : joints[i].max_velocity_ <= nominal
  <2>1. Max(S) \in S /\ \A x \in S : x <= Max(S)
    <3> HIDE DEF S
    <3> QED BY <1>2, <1>3, LargestIsIn
  <2> HIDE DEF S
  <2> QED BY <1>2, <1>4, <2>1
<1>6. PICK got : got = IF set.has_velocity_limit THEN Min({set.max_velocity, nominal}) ELSE nominal
  OBVIOUS
<1>7. share = <<got, nominal>>
  <2>1. {joints[i].max_velocity_ : i \in DOMAIN joints} = S
    BY DEF RobotJoints
  <2> HIDE DEF S
  <2> QED BY <1>4, <1>6, <2>1 DEF configVelocity
<1>8. got \in Nat /\ got <= nominal /\ (set.has_velocity_limit => got <= set.max_velocity)
  <2>1. \E z \in {set.max_velocity, nominal} : \A w \in {set.max_velocity, nominal} : z <= w
    BY <1>1, <1>5
  <2> QED BY <1>1, <1>5, <1>6, <2>1 DEF Min
<1>9. ASSUME param.has_velocity_limit, NEW i \in 1 .. n
      PROVE  DEGREES * joints[i].max_velocity_ * got <= param.max_velocity * nominal
  <2>1. joints[i].max_velocity_ \in Nat /\ joints[i].max_velocity_ <= nominal
    BY <1>5 DEF RobotJoints
  <2>2. got <= set.max_velocity
    BY <1>1, <1>8, <1>9
  <2>3. joints[i].max_velocity_ * got <= nominal * set.max_velocity
    BY <1>1, <1>5, <1>8, <2>1, <2>2, Products
  <2>4. nominal * set.max_velocity = set.max_velocity * nominal
    BY <1>1, <1>5
  <2>5. joints[i].max_velocity_ * got <= set.max_velocity * nominal
    BY <2>3, <2>4
  <2> QED BY <1>1, <1>5, <1>8, <2>1, <2>5, InDegrees
<1> QED BY <1>5, <1>7, <1>8, <1>9
-----------------------------------------------------------------------------
(* The limits of the joints of a robot model.                              *)

\* What holds before a loop and is kept by every turn holds after it.
LEMMA Loop ==
  ASSUME NEW n \in Nat, NEW T, 0 \in T, \A i \in 1 .. n : i - 1 \in T => i \in T
  PROVE  \A i \in 0 .. n : i \in T
<1> SUFFICES ASSUME NEW l \in 0 .. n, l \notin T PROVE FALSE
  OBVIOUS
<1> DEFINE Bad == {i \in 0 .. n : i \notin T}
<1>1. PICK i \in Bad : \A j \in Bad : <<j, i>> \notin OpToRel(<, Nat)
  <2>1. Bad \subseteq Nat /\ Bad # {}
    OBVIOUS
  <2>2. IsWellFoundedOn(OpToRel(<, Nat), Nat)
    BY NatLessThanWellFounded
  <2> HIDE DEF Bad
  <2> QED BY <2>1, <2>2, WFMin
<1>2. i \in 1 .. n /\ i - 1 \in 0 .. n /\ i - 1 < i /\ i \in Nat /\ i - 1 \in Nat
  OBVIOUS
<1>3. i - 1 \notin Bad
  BY <1>1, <1>2 DEF OpToRel
<1> QED BY <1>2, <1>3

\* The turns of the loop: what has been pushed after each.
Turn(joint_models, p, i) ==
  IF i = 0 THEN <<>>
  ELSE IF isSupported(joint_models[i]) THEN Append(p[i - 1], joint_models[i])
  ELSE p[i - 1]
Pushes(joint_models, k, p) == p = [i \in 0 .. k |-> Turn(joint_models, p, i)]

\* initSetup returns what has been pushed after the last turn.
LEMMA LoopPushes ==
  ASSUME NEW n \in Nat, NEW joint_models, Len(joint_models) = n
  PROVE  \E p : Pushes(joint_models, n, p) /\ joint_limits_(joint_models) = p[n]
<1> DEFINE T == {k \in 0 .. n : \E p : Pushes(joint_models, k, p)}
<1>1. 0 \in T
  <2>1. Pushes(joint_models, 0, [i \in 0 .. 0 |-> <<>>])
    BY DEF Pushes, Turn
  <2> QED BY <2>1
<1>2. ASSUME NEW k \in 1 .. n, k - 1 \in T PROVE k \in T
  <2>1. PICK p : Pushes(joint_models, k - 1, p)
    BY <1>2
  <2>2. PICK last : last = Turn(joint_models, p, k)
    OBVIOUS
  <2>3. PICK q : q = [i \in 0 .. k |-> IF i = k THEN last ELSE p[i]]
    OBVIOUS
  <2>4. \A i \in 0 .. k : q[i] = IF i = k THEN last ELSE p[i]
    BY <2>3
  <2>5. \A i \in 0 .. k - 1 : q[i] = p[i] /\ (i # 0 => q[i - 1] = p[i - 1])
    BY <2>4
  <2>6. \A i \in 0 .. k : q[i] = Turn(joint_models, q, i)
    <3> SUFFICES ASSUME NEW i \in 0 .. k PROVE q[i] = Turn(joint_models, q, i)
      OBVIOUS
    <3>1. CASE i = k
      <4>1. q[k - 1] = p[k - 1] /\ q[k] = last
        BY <2>4
      <4> QED BY <2>2, <3>1, <4>1 DEF Turn
    <3>2. CASE i # k
      <4>1. i \in 0 .. k - 1
        BY <3>2
      <4>2. p[i] = Turn(joint_models, p, i)
        BY <2>1, <4>1, Zenon DEF Pushes
      <4> QED BY <2>5, <4>1, <4>2 DEF Turn
    <3> QED BY <3>1, <3>2
  <2>7. Pushes(joint_models, k, q)
    <3>1. q = [i \in 0 .. k |-> q[i]]
      BY <2>3
    <3> QED BY <2>6, <3>1, Zenon DEF Pushes
  <2> QED BY <2>7
<1>3. \E p : Pushes(joint_models, n, p)
  <2>1. \A i \in 0 .. n : i \in T
    <3> HIDE DEF T
    <3> QED BY <1>1, <1>2, Loop
  <2> QED BY <2>1
<1>4. PICK p : p = CHOOSE w : Pushes(joint_models, n, w)
  OBVIOUS
<1>5. Pushes(joint_models, n, p)
  BY <1>3, <1>4, Zenon
<1>6. joint_limits_(joint_models) = p[n]
  BY <1>4 DEF joint_limits_, Pushes, Turn
<1> QED BY <1>5, <1>6

\* The limits that initSetup collects are those of the supported joints of the model, of
\* every one of them, and the model itself if it has no others.
LEMMA CollectsLimits ==
  ASSUME NEW M, NEW joint_models \in Seq(M), NEW limits, limits = joint_limits_(joint_models)
  PROVE  /\ limits \in Seq({m \in M : isSupported(m)})
         /\ \A i \in 1 .. Len(joint_models) : isSupported(joint_models[i]) =>
              \E j \in 1 .. Len(limits) : limits[j] = joint_models[i]
         /\ (\A i \in 1 .. Len(joint_models) : isSupported(joint_models[i])) => limits = joint_models
<1> DEFINE L == {m \in M : isSupported(m)}
           All == \A i \in 1 .. Len(joint_models) : isSupported(joint_models[i])
           Has(q, k) == \A i \in 1 .. k : isSupported(joint_models[i]) =>
                          \E j \in 1 .. Len(q) : q[j] = joint_models[i]
<1>1. PICK n \in Nat : n = Len(joint_models) /\ joint_models \in [1 .. n -> M]
  OBVIOUS
<1>2. PICK p : Pushes(joint_models, n, p) /\ limits = p[n]
  BY <1>1, LoopPushes
<1> DEFINE T == {k \in 0 .. n : /\ p[k] \in Seq(L) /\ Has(p[k], k)
                                /\ All => Len(p[k]) = k /\ \A i \in 1 .. k : p[k][i] = joint_models[i]}
<1>3. 0 \in T
  <2>1. p[0] = <<>>
    <3>1. 0 \in 0 .. n
      OBVIOUS
    <3>2. p[0] = Turn(joint_models, p, 0)
      BY <1>2, <3>1, Zenon DEF Pushes
    <3> QED BY <3>2 DEF Turn
  <2>2. p[0] \in Seq(L) /\ Len(p[0]) = 0
    <3> HIDE DEF L
    <3> QED BY <2>1, EmptySeq
  <2>3. 0 \in 0 .. n /\ Has(p[0], 0) /\ \A i \in 1 .. 0 : p[0][i] = joint_models[i]
    OBVIOUS
  <2> HIDE DEF L, All, Has
  <2> QED BY <2>2, <2>3
<1>4. ASSUME NEW k \in 1 .. n, k - 1 \in T PROVE k \in T
  <2>1. p[k] = IF isSupported(joint_models[k]) THEN Append(p[k - 1], joint_models[k]) ELSE p[k - 1]
    <3>1. k \in 0 .. n
      OBVIOUS
    <3>2. p[k] = Turn(joint_models, p, k)
      BY <1>2, <3>1, Zenon DEF Pushes
    <3> QED BY <3>2 DEF Turn
  <2>2. PICK s : s = p[k - 1]
    OBVIOUS
  <2>3. /\ s \in Seq(L) /\ Has(s, k - 1)
        /\ All => Len(s) = k - 1 /\ \A i \in 1 .. k - 1 : s[i] = joint_models[i]
    <3> HIDE DEF L, All, Has
    <3> QED BY <1>4, <2>2
  <2>4. CASE isSupported(joint_models[k])
    <3>1. joint_models[k] \in L
      BY <1>1, <2>4
    <3>2. p[k] = Append(s, joint_models[k])
      BY <2>1, <2>2, <2>4
    <3>3. /\ p[k] \in Seq(L) /\ Len(p[k]) = Len(s) + 1
          /\ \A i \in 1 .. Len(s) : p[k][i] = s[i]
          /\ p[k][Len(s) + 1] = joint_models[k]
      <4> HIDE DEF L
      <4>1. PICK e : e = joint_models[k] /\ e \in L
        BY <3>1
      <4> QED BY <2>3, <3>2, <4>1, AppendProperties
    <3>4. ASSUME All
          PROVE  Len(p[k]) = k /\ \A i \in 1 .. k : p[k][i] = joint_models[i]
      <4>1. Len(s) = k - 1 /\ \A i \in 1 .. k - 1 : s[i] = joint_models[i]
        BY <2>3, <3>4
      <4> QED BY <3>3, <4>1
    <3>5. Has(p[k], k)
      <4> SUFFICES ASSUME NEW i \in 1 .. k, isSupported(joint_models[i])
                   PROVE  \E j \in 1 .. Len(p[k]) : p[k][j] = joint_models[i]
        OBVIOUS
      <4>1. Len(s) \in Nat
        <5> HIDE DEF L
        <5> QED BY <2>3
      <4>2. CASE i = k
        <5>1. Len(s) + 1 \in 1 .. Len(p[k])
          BY <3>3, <4>1
        <5> QED BY <3>3, <4>2, <5>1
      <4>3. CASE i # k
        <5>1. i \in 1 .. k - 1
          BY <4>3
        <5>2. PICK j \in 1 .. Len(s) : s[j] = joint_models[i]
          BY <2>3, <5>1
        <5>3. j \in 1 .. Len(p[k]) /\ p[k][j] = s[j]
          BY <3>3, <4>1
        <5> QED BY <5>2, <5>3
      <4> QED BY <4>2, <4>3
    <3> HIDE DEF L, All, Has
    <3> QED BY <3>3, <3>4, <3>5
  <2>5. CASE ~isSupported(joint_models[k])
    <3>1. ~All
      BY <1>1, <2>5
    <3>2. p[k] = s
      BY <2>1, <2>2, <2>5
    <3>3. Has(s, k)
      <4> SUFFICES ASSUME NEW i \in 1 .. k, isSupported(joint_models[i])
                   PROVE  \E j \in 1 .. Len(s) : s[j] = joint_models[i]
        OBVIOUS
      <4>1. i \in 1 .. k - 1
        BY <2>5
      <4> QED BY <2>3, <4>1
    <3> HIDE DEF L, All, Has
    <3> QED BY <2>3, <3>1, <3>2, <3>3
  <2> QED BY <2>4, <2>5
<1>5. n \in T
  <2>1. \A i \in 0 .. n : i \in T
    <3> HIDE DEF T
    <3> QED BY <1>3, <1>4, Loop
  <2>2. n \in 0 .. n
    OBVIOUS
  <2> HIDE DEF T
  <2> QED BY <2>1, <2>2
<1>6. ASSUME All PROVE limits = joint_models
  <2>1. Len(limits) = n /\ limits \in Seq(L) /\ \A i \in 1 .. n : limits[i] = joint_models[i]
    BY <1>2, <1>5, <1>6
  <2>2. limits \in Seq(M)
    <3>1. L \subseteq M
      OBVIOUS
    <3> HIDE DEF L
    <3> QED BY <2>1, <3>1, SeqMonotonic
  <2> QED BY <1>1, <2>1, <2>2, SeqEqual
<1>7. Has(limits, n)
  <2> HIDE DEF L, All, Has
  <2> QED BY <1>2, <1>5
<1> QED BY <1>1, <1>2, <1>5, <1>6, <1>7

\* The robot of the run has two joints that are supported.
LEMMA JointsAreModels == Joints = JointModels
<1>1. PICK a, b : /\ JointModels = <<a, b>> /\ isSupported(a) /\ isSupported(b)
  <2>1. JointModels = <<JointModels[1], JointModels[2]>>
    BY DEF JointModels
  <2>2. isSupported(JointModels[1]) /\ isSupported(JointModels[2])
    BY DEF JointModels, isSupported
  <2> QED BY <2>1, <2>2, Zenon
<1>2. JointModels \in Seq({a, b}) /\ Len(JointModels) = 2
  BY <1>1
<1>3. \A i \in 1 .. Len(JointModels) : isSupported(JointModels[i])
  BY <1>1, <1>2
<1>4. PICK models : models = JointModels
  OBVIOUS
<1>5. PICK limits : limits = joint_limits_(models)
  OBVIOUS
<1>6. limits = models
  BY <1>2, <1>3, <1>4, <1>5, CollectsLimits
<1> QED BY <1>4, <1>5, <1>6 DEF Joints

\* The robot of the run has two supported joints, of which one has an end.
LEMMA JointsOfTheRun ==
  /\ RobotJoints(2, Joints)
  /\ \A p, v, w \in Int : \A set : set.stop_tolerance = 1 =>
       (StopsSome(Joints, <<p, 0>>, <<v, w>>, set) <=> (v < 0 /\ p <= 1) \/ (v > 0 /\ p >= 9))
<1>1. /\ DOMAIN JointModels = 1 .. 2
      /\ JointModels[1].max_velocity_ = 2 /\ JointModels[2].max_velocity_ = 0
      /\ JointModels[1].position_bounded_ /\ ~JointModels[2].position_bounded_
      /\ JointModels[1].min_position_ = 0 /\ JointModels[1].max_position_ = 10
  BY DEF JointModels
<1>2. RobotJoints(2, JointModels)
  BY <1>1 DEF RobotJoints
<1>3. ASSUME NEW p \in Int, NEW v \in Int, NEW w \in Int, NEW set, set.stop_tolerance = 1
      PROVE  StopsSome(JointModels, <<p, 0>>, <<v, w>>, set) <=> (v < 0 /\ p <= 1) \/ (v > 0 /\ p >= 9)
  <2>1. StopsSome(JointModels, <<p, 0>>, <<v, w>>, set) <=> stopsAt(JointModels[1], p, v, 1)
    BY <1>1, <1>3 DEF StopsSome, stopsAt
  <2>2. stopsAt(JointModels[1], p, v, 1) <=> (v < 0 /\ p <= 1) \/ (v > 0 /\ p >= 9)
    BY <1>1 DEF stopsAt
  <2> QED BY <2>1, <2>2
<1> QED BY <1>2, <1>3, JointsAreModels

\* The limits hold for the robot and the settings of the run.
LEMMA RunKeepsLimits == KeepsLimits
<1> SUFFICES ASSUME NEW p \in {1, 5, 9}, NEW v \in {-3, 0, 1}, NEW w \in {-2, 4},
                    NEW l \in {-1, 0, 2}, NEW a \in {-1, 0, 2}, NEW param \in Parameters
             PROVE
  LET set == initParam(param)
      vel == <<v, w>>
      jacobian == [linear |-> <<l, 1>>, angular |-> <<a, 0>>]
      s == enforceLimits(Joints, <<p, 0>>, vel, jacobian, set)
      cart == product(jacobian, vel)
      keeps(r) ==
        /\ \A i \in DOMAIN Joints : isLimited(Joints[i], set) =>
             abs(vel[i]) * r[1] <= max_velocity(Joints[i], set) * r[2]
        /\ abs(cart.linear) * r[1] <= set.max_linear_velocity * r[2]
        /\ DEGREES * abs(cart.angular) * r[1] <= param.max_angular_velocity * r[2]
        /\ param.has_velocity_limit => \A i \in DOMAIN Joints :
             DEGREES * abs(vel[i]) * r[1] <= param.max_velocity * r[2]
        /\ (v < 0 /\ p <= 1) \/ (v > 0 /\ p >= 9) => r[1] = 0
      share == configVelocity(Joints, set)
  IN /\ keeps(s) /\ ~less(one, s) /\ (keeps(one) => s[1] = s[2])
     /\ ~less(one, share)
     /\ \A i \in DOMAIN Joints : set.has_velocity_limit =>
          DEGREES * Joints[i].max_velocity_ * share[1] <= param.max_velocity * share[2]
  BY DEF KeepsLimits
<1>1. PICK set : set = initParam(param)
  OBVIOUS
<1>2. PICK vel : vel = <<v, w>>
  OBVIOUS
<1>3. PICK jacobian : jacobian = [linear |-> <<l, 1>>, angular |-> <<a, 0>>]
  OBVIOUS
<1>4. PICK s : s = enforceLimits(Joints, <<p, 0>>, vel, jacobian, set)
  OBVIOUS
<1>5. PICK cart : cart = product(jacobian, vel)
  OBVIOUS
<1>6. PICK share : share = configVelocity(Joints, set)
  OBVIOUS
<1>7. PICK joints : joints = Joints
  OBVIOUS
<1>8. PICK pos : pos = <<p, 0>>
  OBVIOUS
<1> DEFINE Stops == StopsSome(joints, pos, vel, set)
<1>9. /\ param \in Params /\ set.stop_tolerance = 1
      /\ set.max_linear_velocity = param.max_linear_velocity
      /\ set.has_velocity_limit = param.has_velocity_limit
  BY <1>1 DEF Parameters, Params, initParam, toRadians, DEGREES
<1>10. /\ RobotJoints(2, joints)
       /\ Stops <=> (v < 0 /\ p <= 1) \/ (v > 0 /\ p >= 9)
  BY <1>2, <1>7, <1>8, <1>9, JointsOfTheRun
<1>11. vel \in [1 .. 2 -> Int] /\ jacobian \in [{"linear", "angular"} -> [1 .. 2 -> Int]]
  BY <1>2, <1>3
<1>12. /\ s[1] \in Nat /\ s[2] \in Nat \ {0} /\ s[1] <= s[2]
       /\ KeepsAll(joints, vel, cart, param, s)
       /\ Stops => s[1] = 0
       /\ ~Stops /\ KeepsAll(joints, vel, cart, param, one) => s[1] = s[2]
  <2>1. s = enforceLimits(joints, pos, vel, jacobian, set)
    BY <1>4, <1>7, <1>8, Zenon
  <2>2. PICK n : n = 2
    OBVIOUS
  <2>3. /\ n \in Nat /\ n >= 2 /\ RobotJoints(n, joints) /\ vel \in [1 .. n -> Int]
        /\ jacobian \in [{"linear", "angular"} -> [1 .. 2 -> Int]] /\ param \in Params
    BY <1>9, <1>10, <1>11, <2>2
  <2> QED BY <1>1, <1>5, <2>1, <2>3, EveryCommandKeepsLimits
<1>13. /\ share[1] \in Nat /\ share[2] \in Nat /\ share[1] <= share[2]
       /\ param.has_velocity_limit => \A i \in 1 .. 2 :
            DEGREES * joints[i].max_velocity_ * share[1] <= param.max_velocity * share[2]
  <2>1. share = configVelocity(joints, set)
    BY <1>6, <1>7, Zenon
  <2>2. 2 \in Nat /\ 2 >= 1
    OBVIOUS
  <2> QED BY <1>1, <1>9, <1>10, <2>1, <2>2, AllowedVelocityKeepsLimits
<1> DEFINE keeps(r) ==
        /\ \A i \in DOMAIN joints : isLimited(joints[i], set) =>
             abs(vel[i]) * r[1] <= max_velocity(joints[i], set) * r[2]
        /\ abs(cart.linear) * r[1] <= set.max_linear_velocity * r[2]
        /\ DEGREES * abs(cart.angular) * r[1] <= param.max_angular_velocity * r[2]
        /\ param.has_velocity_limit => \A i \in DOMAIN joints :
             DEGREES * abs(vel[i]) * r[1] <= param.max_velocity * r[2]
        /\ (v < 0 /\ p <= 1) \/ (v > 0 /\ p >= 9) => r[1] = 0
<1>14. \A r : keeps(r) <=> KeepsAll(joints, vel, cart, param, r) /\ (Stops => r[1] = 0)
  BY <1>1, <1>9, <1>10 DEF KeepsAll, KeepsJointLimits
<1>15. one[1] = 1 /\ one[2] = 1
  BY DEF one
<1>16. keeps(s) /\ (keeps(one) => s[1] = s[2])
  <2> HIDE DEF keeps, Stops
  <2> QED BY <1>12, <1>14, <1>15
<1>17. ~less(one, s) /\ ~less(one, share)
  BY <1>12, <1>13, <1>15 DEF less
<1>18. \A i \in DOMAIN joints : set.has_velocity_limit =>
         DEGREES * joints[i].max_velocity_ * share[1] <= param.max_velocity * share[2]
  BY <1>9, <1>10, <1>13 DEF RobotJoints
<1> QED BY <1>1, <1>2, <1>3, <1>4, <1>5, <1>6, <1>7, <1>16, <1>17, <1>18, Zenon

\* Whatever initSetup finds in the robot model and whatever the user allows, a command
\* that enforceLimits lets through to the robot keeps the limits of every joint it has
\* collected, which are all revolute ones, and of the tool.
THEOREM CommandsOfAnyModelKeepLimits ==
  ASSUME NEW M, \A m \in M : m.max_velocity_ \in Nat, NEW joint_models \in Seq(M),
         NEW joints, joints = joint_limits_(joint_models), Len(joints) >= 2,
         NEW pos, NEW vel \in [1 .. Len(joints) -> Int],
         NEW jacobian \in [{"linear", "angular"} -> [1 .. 2 -> Int]],
         NEW param \in Params, NEW r, r = enforceLimits(joints, pos, vel, jacobian, initParam(param))
  PROVE  /\ r[1] \in Nat /\ r[2] \in Nat \ {0} /\ r[1] <= r[2]
         /\ KeepsAll(joints, vel, product(jacobian, vel), param, r)
         /\ StopsSome(joints, pos, vel, initParam(param)) => r[1] = 0
         /\ \A i \in 1 .. Len(joint_models) : isSupported(joint_models[i]) =>
              \E j \in 1 .. Len(joints) : joints[j] = joint_models[i]
<1>1. /\ joints \in Seq({m \in M : isSupported(m)})
      /\ \A i \in 1 .. Len(joint_models) : isSupported(joint_models[i]) =>
           \E j \in 1 .. Len(joints) : joints[j] = joint_models[i]
  <2> DEFINE Of(s) == /\ s \in Seq({m \in M : isSupported(m)})
                      /\ \A i \in 1 .. Len(joint_models) : isSupported(joint_models[i]) =>
                           \E j \in 1 .. Len(s) : s[j] = joint_models[i]
  <2>1. \A s : s = joint_limits_(joint_models) => Of(s)
    BY CollectsLimits
  <2> HIDE DEF Of
  <2>2. Of(joints)
    BY <2>1
  <2> QED BY <2>2 DEF Of
<1>2. PICK n : n = Len(joints)
  OBVIOUS
<1>3. n \in Nat /\ n >= 2 /\ DOMAIN joints = 1 .. n /\ \A i \in 1 .. n : joints[i] \in M
  BY <1>1, <1>2
<1>4. RobotJoints(n, joints) /\ vel \in [1 .. n -> Int]
  BY <1>2, <1>3 DEF RobotJoints
<1>5. PICK set : set = initParam(param)
  OBVIOUS
<1>6. PICK cart : cart = product(jacobian, vel)
  OBVIOUS
<1>7. r = enforceLimits(joints, pos, vel, jacobian, set)
  BY <1>5, Zenon
<1>8. /\ r[1] \in Nat /\ r[2] \in Nat \ {0} /\ r[1] <= r[2]
      /\ KeepsAll(joints, vel, cart, param, r)
      /\ StopsSome(joints, pos, vel, set) => r[1] = 0
  BY <1>3, <1>4, <1>5, <1>6, <1>7, EveryCommandKeepsLimits
<1> QED BY <1>1, <1>5, <1>6, <1>8, Zenon

\* RobotDriver keeps the limits of every command it sends: the settings of the run, with
\* the joints that initSetup collects from its robot model.
THEOREM KeepsItsLimits == Spec => []LimitsHold
<1>1. LimitsHold
  BY RunKeepsLimits DEF LimitsHold
<1> QED BY <1>1, PTL
=============================================================================
