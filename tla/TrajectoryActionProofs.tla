------------------------ MODULE TrajectoryActionProofs ------------------------
(***************************************************************************)
(* What the callbacks of JointTrajectoryAction and the threads of its      *)
(* goals keep, though nothing protects the members that they share.        *)
(***************************************************************************)
EXTENDS TrajectoryAction, SequenceTheorems, TLAPS

USE DEF None, Stop

GoalStates == {None, "executing", "canceling"} \union Ended
Lines == {None, "start", "publish", "canceling?", "succeeded?", "stop", "canceled", "succeed",
          "clear", "free", "done"}

\* The type invariant: the flags, what names a goal, and what belongs to one.
FlagType == /\ controller_alive_ \in BOOLEAN /\ has_active_goal_ \in BOOLEAN
            /\ has_moved_once_ \in BOOLEAN /\ has_succeeded_ \in BOOLEAN
            /\ halfway \in BOOLEAN /\ arrived \in BOOLEAN
NameType == /\ goal_handle_ \in Goals \union {None} /\ current_traj_ \in Goals \union {None}
            /\ commanded \in Goals \union {None, Stop}
            /\ terminated \in Goals \union {None, "watchdog"}
            /\ last_robot_status_ \in Statuses \union {None}
GoalType == goal \in [Goals -> GoalStates] /\ thread \in [Goals -> Lines]
TypeInv  == FlagType /\ NameType /\ GoalType

\* Where a thread is says how far its goal can have got: the watchdog may abort it at any
\* time, and nobody else interferes.
Running == {"start", "publish", "canceling?", "succeeded?", "succeed"}
ThreadOk(g) ==
  /\ thread[g] = None <=> goal[g] = None
  /\ thread[g] \in Running            => goal[g] \in {"executing", "canceling", "aborted"}
  /\ thread[g] \in {"stop", "canceled"} => goal[g] \in {"canceling", "aborted"}
  /\ thread[g] \in {"clear", "free", "done"} /\ terminated = None => goal[g] \in Ended
ThreadInv == \A g \in Goals : ThreadOk(g)

\* The active goal is the newest, and executes; a success ends its being active.
ActiveInv == has_active_goal_ /\ terminated = None =>
  /\ ~has_succeeded_ /\ current_traj_ # None
  /\ goal[current_traj_] = "executing" /\ thread[current_traj_] \in Running \ {"succeed"}

\* Whoever takes the newest goal for succeeded knows that the robot arrived.
ArrivedInv ==
  /\ current_traj_ # None => isValid(Trajectory[current_traj_])
  /\ has_succeeded_ => arrived
  /\ \A g \in Goals : current_traj_ = g /\ (thread[g] = "succeed" \/ goal[g] = "succeeded")
                        => arrived

Inv == TypeInv /\ ThreadInv /\ ActiveInv /\ OnlyAbortedTwice /\ ArrivedInv
-----------------------------------------------------------------------------
(* What the comparisons of two lists of joints tell (JointUtils).          *)

\* A similar list has every name of the other.
LEMMA SimilarNames ==
  ASSUME NEW S, NEW lhs \in Seq(S), NEW rhs \in Seq(S), isSimilar(lhs, rhs)
  PROVE  Range(lhs) \subseteq Range(rhs) /\ Len(lhs) = Len(rhs)
<1>1. PICK order \in Bijection(DOMAIN lhs, DOMAIN lhs) :
        lhs = [i \in DOMAIN lhs |-> rhs[order[i]]]
  BY DEF isSimilar, isSame
<1>2. DOMAIN lhs = DOMAIN rhs /\ Len(lhs) = Len(rhs)
  BY LenProperties DEF isSimilar
<1>3. \A i \in DOMAIN lhs : order[i] \in DOMAIN rhs
  BY <1>2 DEF Bijection, Injection
<1>4. ASSUME NEW i \in DOMAIN lhs
      PROVE  lhs[i] \in Range(rhs)
  BY <1>1, <1>3 DEF Range
<1> QED BY <1>2, <1>4 DEF Range

\* The value that a map has for a key stands in the list where the key stands in its.
LEMMA MapHasValue ==
  ASSUME NEW keys \in Seq(STRING), NEW values \in Seq(Int), canMap(keys, values),
         NEW k \in Range(keys)
  PROVE  \E i \in DOMAIN values : keys[i] = k /\ toMap(keys, values)[k] = values[i]
<1> DEFINE i == CHOOSE n \in DOMAIN keys : keys[n] = k
<1>1. i \in DOMAIN keys /\ keys[i] = k
  BY DEF Range
<1>2. DOMAIN keys = DOMAIN values
  BY LenProperties DEF canMap
<1>3. toMap(keys, values)[k] = values[i]
  BY DEF toMap
<1> QED BY <1>1, <1>2, <1>3

\* Two values within a range differ by at most half of it.
LEMMA WithinIsNear ==
  ASSUME NEW a \in Int, NEW b \in Int, NEW full_range \in Int, within(a, b, full_range)
  PROVE  2 * (a - b) <= full_range /\ -2 * (a - b) <= full_range
BY DEF within, Distance

\* What withinGoalConstraints computes of two lists in different orders is what it is to
\* find out, when the names of both are those of the node.
LEMMA WithinIsAtEnd ==
  ASSUME NEW msg \in Feedback, NEW g \in Goals, isValid(Trajectory[g]),
         isSimilar(joint_names_, msg.joint_names), withinGoalConstraints(msg, Trajectory[g])
  PROVE  AtEnd(msg, Trajectory[g])
<1> DEFINE traj == Trajectory[g]
           last == LastPoint(traj)
           lhs  == toMap(msg.joint_names, msg.positions)
           rhs  == toMap(traj.joint_names, last)
<1>1. /\ joint_names_ \in Seq(STRING) /\ goal_threshold_ \in Int
      /\ msg.joint_names \in Seq(STRING) /\ msg.positions \in Seq(Int)
      /\ traj.joint_names \in Seq(STRING) /\ traj.points \in Seq(Seq(Int))
  BY MessageAssumption
<1>2. last \in Seq(Int)
  <2>1. Len(traj.points) \in 1 .. Len(traj.points)
    BY <1>1, EmptySeq DEF isValid
  <2> QED BY <1>1, <2>1, ElementOfSeq DEF LastPoint
<1>3. /\ canMap(msg.joint_names, msg.positions) /\ canMap(traj.joint_names, last)
      /\ \A n \in DOMAIN msg.joint_names :
           within(lhs[msg.joint_names[n]], rhs[msg.joint_names[n]], goal_threshold_)
  BY DEF withinGoalConstraints, isWithinRange, mapsWithinRange
<1> SUFFICES ASSUME NEW j \in Range(joint_names_)
             PROVE  \E i \in DOMAIN msg.positions, k \in DOMAIN last :
                      /\ msg.joint_names[i] = j /\ traj.joint_names[k] = j
                      /\ LET d == msg.positions[i] - last[k]
                         IN  2 * d <= goal_threshold_ /\ -2 * d <= goal_threshold_
  BY DEF AtEnd
<1>4. j \in Range(msg.joint_names) /\ j \in Range(traj.joint_names)
  BY <1>1, SimilarNames DEF isValid
<1>5. PICK i \in DOMAIN msg.positions : msg.joint_names[i] = j /\ lhs[j] = msg.positions[i]
  <2>1. /\ msg.joint_names \in Seq(STRING) /\ msg.positions \in Seq(Int)
        /\ canMap(msg.joint_names, msg.positions) /\ j \in Range(msg.joint_names)
    BY <1>1, <1>3, <1>4
  <2> QED BY <2>1, MapHasValue
<1>6. PICK k \in DOMAIN last : traj.joint_names[k] = j /\ rhs[j] = last[k]
  <2>1. /\ traj.joint_names \in Seq(STRING) /\ last \in Seq(Int)
        /\ canMap(traj.joint_names, last) /\ j \in Range(traj.joint_names)
    BY <1>1, <1>2, <1>3, <1>4
  <2> QED BY <2>1, MapHasValue
<1>7. within(lhs[j], rhs[j], goal_threshold_)
  BY <1>3, <1>4 DEF Range
<1>8. msg.positions[i] \in Int /\ last[k] \in Int
  BY <1>1, <1>2, LenProperties, ElementOfSeq
<1>9. /\ 2 * (msg.positions[i] - last[k]) <= goal_threshold_
      /\ -2 * (msg.positions[i] - last[k]) <= goal_threshold_
  BY <1>1, <1>5, <1>6, <1>7, <1>8, WithinIsNear
<1> QED BY <1>5, <1>6, <1>9
-----------------------------------------------------------------------------
(* The callbacks.                                                          *)

\* What does not name a goal.
LEMMA NoGoal == None \notin Goals /\ "watchdog" \notin Goals
BY GoalAssumption

LEMMA InvInit == Init => Inv
<1> SUFFICES ASSUME Init PROVE Inv
  OBVIOUS
<1>1. FlagType /\ NameType
  BY DEF Init, FlagType, NameType
<1>2. GoalType
  BY DEF Init, GoalType, GoalStates, Lines
<1>3. ThreadInv
  BY DEF Init, ThreadInv, ThreadOk, Running
<1>4. ActiveInv /\ OnlyAbortedTwice
  BY NoGoal DEF Init, ActiveInv, OnlyAbortedTwice
<1>5. ArrivedInv
  BY NoGoal DEF Init, ArrivedInv
<1> QED BY <1>1, <1>2, <1>3, <1>4, <1>5 DEF Inv, TypeInv

\* A step that leaves the goals and their threads alone.
LEMMA GoalsStay ==
  ASSUME TypeInv, ThreadInv, OnlyAbortedTwice, UNCHANGED <<goal, thread, terminated>>
  PROVE  GoalType' /\ ThreadInv' /\ OnlyAbortedTwice'
BY DEF TypeInv, GoalType, ThreadInv, ThreadOk, OnlyAbortedTwice

\* Accepting a goal keeps the invariant.
LEMMA InvHandleGoal ==
  ASSUME Inv, terminated = None, NEW g \in Goals, handle_goal(g)
  PROVE  Inv'
<1> USE DEF Inv, TypeInv, leftSuccess
<1>1. CASE UNCHANGED <<has_active_goal_, has_moved_once_, current_traj_, halfway, goal, thread, arrived>>
  <2>1. FlagType' /\ NameType'
    BY <1>1 DEF handle_goal, FlagType, NameType
  <2>2. GoalType' /\ ThreadInv' /\ OnlyAbortedTwice'
    BY <1>1, GoalsStay DEF handle_goal
  <2>3. ActiveInv' /\ ArrivedInv'
    BY <1>1 DEF handle_goal, ActiveInv, ArrivedInv
  <2> QED BY <2>1, <2>2, <2>3
<1>2. CASE /\ isValid(Trajectory[g])
           /\ has_active_goal_' = TRUE /\ has_moved_once_' = FALSE
           /\ current_traj_' = g /\ halfway' = FALSE /\ arrived' = FALSE
           /\ goal' = Set(goal, g, "executing") /\ thread' = Set(thread, g, "start")
  <2>1. FlagType' /\ NameType'
    BY <1>2 DEF handle_goal, FlagType, NameType
  <2>2. GoalType' /\ goal'[g] = "executing" /\ thread'[g] = "start"
    BY <1>2 DEF GoalType, GoalStates, Lines, Set
  <2>3. \A h \in Goals \ {g} : goal'[h] = goal[h] /\ thread'[h] = thread[h]
    BY <1>2 DEF GoalType, Set
  <2>4. ThreadInv'
    <3>1. ThreadOk(g)'
      BY <2>2 DEF ThreadOk, Running
    <3>2. \A h \in Goals \ {g} : ThreadOk(h)'
      BY <2>3 DEF ThreadInv, ThreadOk, handle_goal
    <3> QED BY <3>1, <3>2 DEF ThreadInv
  <2>5. ActiveInv'
    BY <1>2, <2>2, NoGoal DEF handle_goal, ActiveInv, Running
  <2>6. ArrivedInv'
    BY <1>2, <2>2 DEF handle_goal, ArrivedInv
  <2>7. OnlyAbortedTwice'
    BY NoGoal DEF handle_goal, OnlyAbortedTwice
  <2> QED BY <2>1, <2>2, <2>4, <2>5, <2>6, <2>7
<1> QED BY <1>1, <1>2 DEF handle_goal

\* So does the cancellation of a goal ...
LEMMA InvHandleCancel ==
  ASSUME Inv, terminated = None, NEW g \in Goals, handle_cancel(g)
  PROVE  Inv'
<1> USE DEF Inv, TypeInv
<1>1. FlagType' /\ NameType'
  BY DEF handle_cancel, FlagType, NameType
<1>2. GoalType' /\ goal'[g] = "canceling"
  BY DEF handle_cancel, GoalType, GoalStates, Set
<1>3. \A h \in Goals \ {g} : goal'[h] = goal[h]
  BY DEF handle_cancel, GoalType, Set
<1>4. ThreadInv'
  <2>1. ThreadOk(g)'
    BY <1>2 DEF handle_cancel, ThreadInv, ThreadOk, Ended, Running
  <2>2. \A h \in Goals \ {g} : ThreadOk(h)'
    BY <1>3 DEF handle_cancel, ThreadInv, ThreadOk
  <2> QED BY <2>1, <2>2 DEF ThreadInv
<1>5. ActiveInv' /\ OnlyAbortedTwice'
  BY NoGoal DEF handle_cancel, ActiveInv, OnlyAbortedTwice
<1>6. ArrivedInv'
  BY <1>2, <1>3 DEF handle_cancel, ArrivedInv
<1> QED BY <1>1, <1>2, <1>4, <1>5, <1>6

\* The success is what withinGoalConstraints says of the newest goal.
LEMMA InvController ==
  ASSUME Inv, terminated = None, NEW m \in Feedback, controllerStateCB(m)
  PROVE  Inv'
<1> USE DEF Inv, TypeInv
<1>1. FlagType' /\ NameType'
  BY DEF controllerStateCB, FlagType, NameType, AtEnd
<1>2. GoalType' /\ ThreadInv' /\ OnlyAbortedTwice'
  BY GoalsStay DEF controllerStateCB
<1>3. ActiveInv'
  BY DEF controllerStateCB, ActiveInv
<1>4. arrived => arrived'
  BY DEF controllerStateCB
<1>5. has_succeeded_' => arrived'
  <2>1. CASE UNCHANGED has_succeeded_
    BY <1>4, <2>1 DEF ArrivedInv
  <2>2. CASE /\ has_active_goal_ /\ isSimilar(joint_names_, m.joint_names)
             /\ withinGoalConstraints(m, Trajectory[current_traj_])
    <3>1. current_traj_ \in Goals /\ current_traj_ # None
      BY <2>2 DEF ActiveInv, NameType
    <3>2. AtEnd(m, Trajectory[current_traj_])
      BY <2>2, <3>1, WithinIsAtEnd DEF ArrivedInv
    <3> QED BY <3>1, <3>2 DEF controllerStateCB
  <2> QED BY <2>1, <2>2 DEF controllerStateCB
<1>6. ArrivedInv'
  BY <1>4, <1>5 DEF controllerStateCB, ArrivedInv
<1> QED BY <1>1, <1>2, <1>3, <1>6

\* The watchdog aborts the goal whose thread started last, if it can; the members keep
\* what they know of others.
LEMMA InvWatchdog ==
  ASSUME Inv, terminated = None, watchdog
  PROVE  Inv'
<1> USE DEF Inv, TypeInv
<1>1. ~has_active_goal_' /\ has_succeeded_' = FALSE /\ UNCHANGED <<thread, arrived, current_traj_>>
  BY DEF watchdog, abortGoal, FlagType
<1>2. CASE goal_handle_ # None /\ CanEnd(goal_handle_, "aborted")
           /\ goal' = Set(goal, goal_handle_, "aborted") /\ UNCHANGED terminated
  <2>1. PICK h \in Goals : h = goal_handle_ /\ goal[h] \in {"executing", "canceling"}
    BY <1>2 DEF CanEnd, NameType
  <2>2. GoalType' /\ goal'[h] = "aborted" /\ \A g \in Goals \ {h} : goal'[g] = goal[g]
    <3>1. goal' = [goal EXCEPT ![h] = "aborted"] /\ goal \in [Goals -> GoalStates]
      BY <1>2, <2>1 DEF GoalType, Set
    <3>2. thread' \in [Goals -> Lines]
      BY <1>1 DEF GoalType
    <3> QED BY <2>1, <3>1, <3>2 DEF GoalType, GoalStates, Ended
  <2>3. ThreadInv'
    <3>1. ThreadOk(h)'
      <4>1. thread'[h] = thread[h] /\ goal'[h] = "aborted"
        BY <1>1, <2>2
      <4>2. thread[h] # None /\ ThreadOk(h)
        BY <2>1 DEF ThreadInv, ThreadOk
      <4> QED BY <4>1, <4>2 DEF ThreadOk, Ended
    <3>2. \A g \in Goals \ {h} : ThreadOk(g)'
      BY <1>1, <1>2, <2>2 DEF ThreadInv, ThreadOk
    <3> QED BY <3>1, <3>2 DEF ThreadInv
  <2>4. ArrivedInv' /\ OnlyAbortedTwice'
    BY <1>1, <1>2, <2>1, <2>2, NoGoal DEF ArrivedInv, OnlyAbortedTwice
  <2>5. FlagType' /\ NameType'
    BY <1>1, <1>2 DEF watchdog, abortGoal, FlagType, NameType
  <2> QED BY <1>1, <2>2, <2>3, <2>4, <2>5 DEF ActiveInv
<1>3. CASE terminated' \in {None, "watchdog"} /\ UNCHANGED goal
  <2>1. ThreadInv' /\ GoalType'
    BY <1>1, <1>3 DEF ThreadInv, ThreadOk, GoalType
  <2>2. ArrivedInv' /\ OnlyAbortedTwice'
    BY <1>1, <1>3, NoGoal DEF ArrivedInv, OnlyAbortedTwice
  <2>3. FlagType' /\ NameType'
    BY <1>1, <1>3 DEF watchdog, abortGoal, FlagType, NameType
  <2> QED BY <1>1, <2>1, <2>2, <2>3 DEF ActiveInv
<1> QED BY <1>2, <1>3 DEF watchdog, abortGoal, End

\* ... and what feedback, status and the watchdog do.
LEMMA InvCallback ==
  ASSUME Inv, terminated = None, Callback
  PROVE  Inv'
<1>1. ASSUME NEW status \in Statuses, robotStatusCB(status)
      PROVE  Inv'
  <2>1. FlagType' /\ NameType'
    BY <1>1 DEF Inv, TypeInv, robotStatusCB, FlagType, NameType
  <2>2. GoalType' /\ ThreadInv' /\ OnlyAbortedTwice'
    BY <1>1, GoalsStay DEF Inv, robotStatusCB
  <2> QED BY <1>1, <2>1, <2>2 DEF Inv, TypeInv, robotStatusCB, ActiveInv, ArrivedInv
<1>2. CASE TimePasses
  <2>1. FlagType' /\ NameType'
    BY <1>2 DEF Inv, TypeInv, TimePasses, FlagType, NameType
  <2>2. GoalType' /\ ThreadInv' /\ OnlyAbortedTwice'
    BY <1>2, GoalsStay DEF Inv, TimePasses
  <2> QED BY <1>2, <2>1, <2>2 DEF Inv, TypeInv, TimePasses, ActiveInv, ArrivedInv
<1> QED BY <1>1, <1>2, InvHandleGoal, InvHandleCancel, InvController, InvWatchdog DEF Callback
-----------------------------------------------------------------------------
(* The threads.                                                            *)

\* A thread goes on while its goal stays as it is.
LEMMA MoveKeeps ==
  ASSUME Inv, terminated = None, NEW g \in Goals, NEW from, NEW to \in Lines, At(g, from, to),
         UNCHANGED <<goal, terminated>>,
         to # None /\ from # None,
         to \in Running => from \in Running,
         to \in {"stop", "canceled"} => goal[g] \in {"canceling", "aborted"},
         to \in {"clear", "free", "done"} => goal[g] \in Ended
  PROVE  /\ GoalType' /\ ThreadInv' /\ OnlyAbortedTwice'
         /\ thread[g] = from /\ thread'[g] = to /\ \A h \in Goals \ {g} : thread'[h] = thread[h]
<1>1. /\ GoalType' /\ thread[g] = from /\ thread'[g] = to
      /\ \A h \in Goals \ {g} : thread'[h] = thread[h]
  BY DEF Inv, TypeInv, GoalType, At, Set
<1>2. ThreadOk(g)'
  BY <1>1 DEF Inv, ThreadInv, ThreadOk
<1>3. \A h \in Goals \ {g} : ThreadOk(h)'
  BY <1>1 DEF Inv, ThreadInv, ThreadOk
<1>4. OnlyAbortedTwice'
  BY DEF Inv, OnlyAbortedTwice
<1> QED BY <1>1, <1>2, <1>3, <1>4 DEF ThreadInv

\* The thread of a goal keeps the invariant: when it makes its goal the active one ...
LEMMA InvStart ==
  ASSUME Inv, terminated = None, NEW g \in Goals, Start(g)
  PROVE  Inv'
<1>1. /\ GoalType' /\ ThreadInv' /\ OnlyAbortedTwice'
      /\ thread[g] = "start" /\ thread'[g] = "publish"
      /\ \A h \in Goals \ {g} : thread'[h] = thread[h]
  BY MoveKeeps DEF Start, Lines, Running
<1>2. FlagType' /\ NameType'
  BY DEF Start, others, Inv, TypeInv, FlagType, NameType
<1>3. ActiveInv'
  BY <1>1 DEF Start, others, Inv, TypeInv, NameType, ActiveInv, Running
<1>4. ArrivedInv'
  BY <1>1 DEF Start, others, Inv, ArrivedInv
<1> QED BY <1>1, <1>2, <1>3, <1>4 DEF Inv, TypeInv

\* ... when it publishes the trajectory ...
LEMMA InvPublish ==
  ASSUME Inv, terminated = None, NEW g \in Goals, Publish(g)
  PROVE  Inv'
<1>1. /\ GoalType' /\ ThreadInv' /\ OnlyAbortedTwice'
      /\ thread[g] = "publish" /\ thread'[g] = "canceling?"
      /\ \A h \in Goals \ {g} : thread'[h] = thread[h]
  BY MoveKeeps DEF Publish, Lines, Running
<1>2. FlagType' /\ NameType'
  BY DEF Publish, members, Inv, TypeInv, FlagType, NameType
<1>3. ActiveInv'
  BY <1>1 DEF Publish, members, Inv, TypeInv, NameType, ActiveInv, Running
<1>4. ArrivedInv'
  BY <1>1 DEF Publish, members, Inv, ArrivedInv
<1> QED BY <1>1, <1>2, <1>3, <1>4 DEF Inv, TypeInv

\* ... when it looks whether the goal is cancelled ...
LEMMA InvLookCanceling ==
  ASSUME Inv, terminated = None, NEW g \in Goals, LookCanceling(g)
  PROVE  Inv'
<1>1. afterLook(g) \in {"stop", "succeeded?"} /\ (afterLook(g) = "stop" => goal[g] = "canceling")
  BY DEF afterLook
<1>2. /\ GoalType' /\ ThreadInv' /\ OnlyAbortedTwice'
      /\ thread[g] = "canceling?" /\ thread'[g] = afterLook(g)
      /\ \A h \in Goals \ {g} : thread'[h] = thread[h]
  BY <1>1, MoveKeeps DEF LookCanceling, Lines, Running
<1>3. FlagType' /\ NameType'
  BY DEF LookCanceling, members, Inv, TypeInv, FlagType, NameType
<1>4. ActiveInv'
  BY <1>1, <1>2 DEF LookCanceling, members, Inv, TypeInv, NameType, ActiveInv, Running
<1>5. ArrivedInv'
  BY <1>1, <1>2 DEF LookCanceling, members, Inv, ArrivedInv
<1> QED BY <1>2, <1>3, <1>4, <1>5 DEF Inv, TypeInv

\* Only a success that belongs to the newest goal is there to be seen by its thread.
LEMMA InvLookSucceeded ==
  ASSUME Inv, terminated = None, NEW g \in Goals, LookSucceeded(g)
  PROVE  Inv'
<1> DEFINE to == IF has_succeeded_ THEN "succeed" ELSE "canceling?"
<1>1. /\ GoalType' /\ ThreadInv' /\ OnlyAbortedTwice'
      /\ thread[g] = "succeeded?" /\ thread'[g] = to
      /\ \A h \in Goals \ {g} : thread'[h] = thread[h]
  <2>1. to \in Lines /\ to # None /\ to \notin {"stop", "canceled"} \union {"clear", "free", "done"}
    BY DEF Lines
  <2>2. At(g, "succeeded?", to) /\ UNCHANGED <<goal, terminated>>
    BY DEF LookSucceeded
  <2> HIDE DEF to
  <2> QED BY <2>1, <2>2, MoveKeeps DEF Running
<1>2. FlagType' /\ NameType'
  BY DEF LookSucceeded, members, Inv, TypeInv, FlagType, NameType
<1>3. ActiveInv'
  BY <1>1 DEF LookSucceeded, members, Inv, TypeInv, NameType, ActiveInv, Running
<1>4. ArrivedInv'
  BY <1>1 DEF LookSucceeded, members, Inv, ArrivedInv
<1> QED BY <1>1, <1>2, <1>3, <1>4 DEF Inv, TypeInv

\* ... when it publishes an empty trajectory to stop the robot ...
LEMMA InvPublishStop ==
  ASSUME Inv, terminated = None, NEW g \in Goals, PublishStop(g)
  PROVE  Inv'
<1>1. goal[g] \in {"canceling", "aborted"}
  BY DEF PublishStop, At, Inv, ThreadInv, ThreadOk
<1>2. /\ GoalType' /\ ThreadInv' /\ OnlyAbortedTwice'
      /\ thread[g] = "stop" /\ thread'[g] = "canceled"
      /\ \A h \in Goals \ {g} : thread'[h] = thread[h]
  BY <1>1, MoveKeeps DEF PublishStop, Lines, Running
<1>3. FlagType' /\ NameType'
  BY DEF PublishStop, members, Inv, TypeInv, FlagType, NameType
<1>4. ActiveInv'
  BY <1>1, <1>2 DEF PublishStop, members, Inv, TypeInv, NameType, ActiveInv
<1>5. ArrivedInv'
  BY <1>1, <1>2 DEF PublishStop, members, Inv, ArrivedInv
<1> QED BY <1>2, <1>3, <1>4, <1>5 DEF Inv, TypeInv

\* The handle of a goal takes its end, or the process ends.
LEMMA InvEnd ==
  ASSUME Inv, terminated = None, NEW g \in Goals, NEW as \in {"canceled", "succeeded"},
         NEW from \in {"canceled", "succeed"}, NEW to \in {"done", "clear"},
         At(g, from, to), End(g, as, g), from = "canceled" <=> as = "canceled"
  PROVE  /\ GoalType' /\ ThreadInv' /\ OnlyAbortedTwice' /\ terminated' \in {None, g}
         /\ thread[g] = from /\ thread'[g] = to
         /\ goal'[g] \in {as, "aborted"} /\ goal[g] \in {"executing", "canceling", "aborted"}
         /\ \A h \in Goals \ {g} : thread'[h] = thread[h] /\ goal'[h] = goal[h]
<1> USE DEF Inv, TypeInv
<1>1. /\ thread[g] = from /\ thread'[g] = to /\ thread' \in [Goals -> Lines]
      /\ \A h \in Goals \ {g} : thread'[h] = thread[h]
  BY DEF At, Set, GoalType, Lines
<1>2. goal[g] \in (IF as = "canceled" THEN {"canceling"} ELSE {"executing", "canceling"})
                     \union {"aborted"}
  BY <1>1 DEF ThreadInv, ThreadOk, Running
<1>3. CASE CanEnd(g, as) /\ goal' = Set(goal, g, as) /\ UNCHANGED terminated
  <2>1. /\ GoalType' /\ goal'[g] = as /\ \A h \in Goals \ {g} : goal'[h] = goal[h]
    BY <1>1, <1>3 DEF Set, GoalType, GoalStates, Ended
  <2>2. ThreadOk(g)' /\ \A h \in Goals \ {g} : ThreadOk(h)'
    BY <1>1, <1>3, <2>1 DEF ThreadInv, ThreadOk, Running, Ended
  <2>3. OnlyAbortedTwice'
    BY <1>3, NoGoal DEF OnlyAbortedTwice
  <2> QED BY <1>1, <1>2, <1>3, <2>1, <2>2, <2>3 DEF ThreadInv
<1>4. CASE ~CanEnd(g, as) /\ terminated' = g /\ UNCHANGED goal
  <2>1. goal[g] = "aborted"
    BY <1>2, <1>4 DEF CanEnd
  <2>2. ThreadOk(g)' /\ \A h \in Goals \ {g} : ThreadOk(h)'
    BY <1>1, <1>4, <2>1 DEF ThreadInv, ThreadOk, Running, Ended
  <2> QED BY <1>1, <1>2, <1>4, <2>1, <2>2 DEF ThreadInv, OnlyAbortedTwice, GoalType
<1> QED BY <1>3, <1>4, NoGoal DEF End

\* ... when it ends the goal as cancelled ...
LEMMA InvCanceled ==
  ASSUME Inv, terminated = None, NEW g \in Goals, Canceled(g)
  PROVE  Inv'
<1>1. /\ GoalType' /\ ThreadInv' /\ OnlyAbortedTwice' /\ terminated' \in {None, g}
      /\ thread[g] = "canceled" /\ thread'[g] = "done"
      /\ goal'[g] \in {"canceled", "aborted"}
      /\ \A h \in Goals \ {g} : thread'[h] = thread[h] /\ goal'[h] = goal[h]
  BY InvEnd DEF Canceled, thenDone
<1>2. FlagType' /\ NameType'
  BY <1>1 DEF Canceled, others, Inv, TypeInv, FlagType, NameType
<1>3. ActiveInv'
  BY <1>1 DEF Canceled, others, Inv, TypeInv, NameType, ActiveInv, Running
<1>4. ArrivedInv'
  BY <1>1 DEF Canceled, others, Inv, ArrivedInv
<1> QED BY <1>1, <1>2, <1>3, <1>4 DEF Inv, TypeInv

\* ... when it ends it as a success ...
LEMMA InvSucceed ==
  ASSUME Inv, terminated = None, NEW g \in Goals, Succeed(g)
  PROVE  Inv'
<1>1. /\ GoalType' /\ ThreadInv' /\ OnlyAbortedTwice' /\ terminated' \in {None, g}
      /\ thread[g] = "succeed" /\ thread'[g] = "clear"
      /\ goal'[g] \in {"succeeded", "aborted"}
      /\ \A h \in Goals \ {g} : thread'[h] = thread[h] /\ goal'[h] = goal[h]
  BY InvEnd DEF Succeed
<1>2. FlagType' /\ NameType'
  BY <1>1 DEF Succeed, members, Inv, TypeInv, FlagType, NameType
<1>3. ActiveInv'
  BY <1>1 DEF Succeed, members, Inv, TypeInv, NameType, ActiveInv, Running
<1>4. ArrivedInv'
  BY <1>1 DEF Succeed, members, Inv, ArrivedInv
<1> QED BY <1>1, <1>2, <1>3, <1>4 DEF Inv, TypeInv

\* ... and when it gives up the active goal.
LEMMA InvClearFree ==
  ASSUME Inv, terminated = None, NEW g \in Goals, Clear(g) \/ Free(g)
  PROVE  Inv'
<1>1. goal[g] \in Ended
  BY DEF Clear, Free, At, Inv, ThreadInv, ThreadOk
<1>2. PICK from \in {"clear", "free"}, to \in {"free", "done"} :
        At(g, from, to) /\ UNCHANGED <<goal, terminated>>
  BY DEF Clear, Free, thenDone
<1>3. /\ GoalType' /\ ThreadInv' /\ OnlyAbortedTwice'
      /\ thread[g] = from /\ thread'[g] = to
      /\ \A h \in Goals \ {g} : thread'[h] = thread[h]
  BY <1>1, <1>2, MoveKeeps DEF Lines, Running
<1>4. FlagType' /\ NameType'
  BY DEF Clear, Free, others, Inv, TypeInv, FlagType, NameType
<1>5. ActiveInv'
  BY <1>1, <1>3 DEF Clear, Free, others, Inv, TypeInv, NameType, ActiveInv, Running, Ended
<1>6. ArrivedInv'
  BY <1>3 DEF Clear, Free, others, Inv, ArrivedInv
<1> QED BY <1>3, <1>4, <1>5, <1>6 DEF Inv, TypeInv

\* Every step keeps the invariant.
LEMMA InvNext == Inv /\ [Next]_vars => Inv'
<1> SUFFICES ASSUME Inv, [Next]_vars PROVE Inv'
  OBVIOUS
<1>1. CASE Next
  <2>1. terminated = None
    BY <1>1 DEF Next
  <2>2. CASE Callback
    BY <2>1, <2>2, InvCallback
  <2>3. ASSUME NEW g \in Goals, Thread(g)
        PROVE  Inv'
    BY <2>1, <2>3, InvStart, InvPublish, InvLookCanceling, InvLookSucceeded, InvPublishStop,
       InvCanceled, InvSucceed, InvClearFree DEF Thread
  <2> QED BY <1>1, <2>2, <2>3 DEF Next
<1>2. CASE UNCHANGED vars
  <2>1. FlagType' /\ NameType'
    BY <1>2 DEF Inv, TypeInv, vars, members, FlagType, NameType
  <2>2. GoalType' /\ ThreadInv' /\ OnlyAbortedTwice'
    BY <1>2, GoalsStay DEF Inv, vars
  <2>3. ActiveInv' /\ ArrivedInv'
    BY <1>2 DEF Inv, vars, members, ActiveInv, ArrivedInv
  <2> QED BY <2>1, <2>2, <2>3 DEF Inv, TypeInv
<1> QED BY <1>1, <1>2

\* Whatever happens to its goals, the node's members and the handles keep Inv.
LEMMA ActionInvariant == Spec => []Inv
BY InvInit, InvNext, PTL DEF Spec
-----------------------------------------------------------------------------
\* While has_active_goal_ is set and the process runs, current_traj_ is a goal that
\* executes, and its thread is still in the loop of execute that waits for its end:
\* for any goals, trajectories and messages of the robot.
THEOREM ActiveGoalAlwaysRuns == Spec => []ActiveGoalRuns
<1>1. Inv => ActiveGoalRuns
  BY DEF Inv, ActiveInv, ActiveGoalRuns, Running
<1> QED BY ActionInvariant, <1>1, PTL

\* succeed and canceled of a handle throw in a thread of execute only after abortGoal of
\* the watchdog: two threads, or a thread and a cancel, never end one goal twice.
THEOREM ThrowsOnlyAfterAbort == Spec => []OnlyAbortedTwice
<1>1. Inv => OnlyAbortedTwice
  BY DEF Inv
<1> QED BY ActionInvariant, <1>1, PTL

\* The goal that handle_goal took last is reported as succeeded only after a message
\* showed every joint of the robot at the end of its trajectory: withinGoalConstraints
\* computes that for any two orders of the joints, and has_succeeded_ is never left from
\* an earlier goal.
THEOREM SuccessWasAtGoal == Spec => []SuccessAtGoal
<1>1. Inv => SuccessAtGoal
  BY DEF Inv, ArrivedInv, SuccessAtGoal
<1> QED BY ActionInvariant, <1>1, PTL
=============================================================================
