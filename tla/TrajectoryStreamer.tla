------------------------- MODULE TrajectoryStreamer -------------------------
(***************************************************************************)
(* The node motion_streaming_interface: JointTrajectoryInterface, whose    *)
(* callbacks run one at a time in the executor's thread, and the streaming *)
(* thread of JointTrajectoryStreamer.  mutex_ protects the trajectory, but *)
(* neither state_ nor the connection while a callback stops the robot.     *)
(***************************************************************************)
EXTENDS TcpConnection

CONSTANTS
  MaxTrajs,     \* bound: trajectories received
  MaxPoints,    \* bound: points of a trajectory
  MaxStops      \* bound: empty trajectories and stop_motion calls

ASSUME StreamerAssumption == /\ MaxTrajs \in Nat
                             /\ MaxPoints \in Nat \ {0}
                             /\ MaxStops \in Nat

VARIABLES
  state_, current_point_, connectRetryCount,
  traj, size,       \* current_traj_: its number, in the order of arrival, and
                    \* how many points it has
  threadPc, cbPc,   \* where the streaming thread and the callback are
  lastGot,          \* history: the newest point the robot received
  stopGot,          \* history: the trajectory the newest STOP was meant for
  raced,            \* history: a callback stopped the robot while the
                    \* thread held mutex_
  nStops

trajVars   == <<traj, size>>
robotVars  == <<lastGot, stopGot>>
vars == <<connectionVars, state_, current_point_, connectRetryCount, trajVars,
          threadPc, cbPc, robotVars, raced, nStops>>

\* A JointTrajPtMessage; for a STOP, traj is the trajectory it is meant for.
Message == [traj : 0 .. MaxTrajs, seq : -1 .. MaxPoints - 1]
STOP == -1
Point(t, k) == [traj |-> t, seq |-> k]
Stop(t) == [traj |-> t, seq |-> STOP]

Init ==
  /\ ConnectionInit
  /\ state_ = "IDLE" /\ current_point_ = 0 /\ connectRetryCount = 1
  /\ traj = 0 /\ size = 0
  /\ threadPc = "top" /\ cbPc = "idle"
  /\ lastGot = Point(0, 0) /\ stopGot = 0 /\ raced = FALSE
  /\ nStops = 0

-----------------------------------------------------------------------------
(* Callbacks.                                                              *)

\* Mutant: send_to_robot does not lock mutex_.
mutexIgnored == TRUE

\* The thread holds mutex_ from its switch until it has received the reply.
mutexFree == threadPc \in {"top", "connecting"}

\* jointTrajectorySubCB with a trajectory that is valid: send_to_robot.
ReceiveTrajectory(n) ==
  /\ cbPc = "idle" /\ mutexFree
  /\ traj < MaxTrajs
  /\ traj' = traj + 1 /\ size' = n
  /\ current_point_' = 0
  /\ state_' = "STREAMING"
  /\ UNCHANGED <<connectionVars, connectRetryCount, threadPc, cbPc, robotVars,
                 raced, nStops>>

CallbackOnly ==
  UNCHANGED <<current_point_, connectRetryCount, trajVars, threadPc, robotVars>>

\* trajectoryStop: STOP is sent, without mutex_ ...
StopSend ==
  /\ cbPc = "idle"
  /\ nStops < MaxStops
  /\ nStops' = nStops + 1
  /\ raced' = (raced \/ ~mutexFree)
  /\ \/ SendOk(Stop(traj)) /\ cbPc' = "length"
     \/ SendFails /\ cbPc' = "stopped"
  /\ UNCHANGED state_
  /\ CallbackOnly

\* ... the reply is received ...
StopReceive ==
  /\ \/ /\ cbPc = "length"
        /\ \/ ReceiveOk("length") /\ cbPc' = "body"
           \/ ReceiveGarbled("length") /\ cbPc' \in {"body", "stopped"}
           \/ ReceiveFails /\ cbPc' = "stopped"
     \/ /\ cbPc = "body" /\ cbPc' = "stopped"
        /\ ReceiveOk("body") \/ ReceiveGarbled("body") \/ ReceiveFails
  /\ UNCHANGED <<state_, raced, nStops>>
  /\ CallbackOnly

\* ... and only then the streamer enters the idle state, whatever came of it.
StopIdle ==
  /\ cbPc = "stopped" /\ cbPc' = "idle"
  /\ state_' = "IDLE"
  /\ UNCHANGED <<connectionVars, raced, nStops>>
  /\ CallbackOnly

-----------------------------------------------------------------------------
(* The streaming thread.                                                   *)

ThreadOnly == UNCHANGED <<trajVars, cbPc, robotVars, nStops>>

\* An attempt to connect (connectRetryCount counts on below zero in the code) ...
ThreadConnect ==
  /\ threadPc = "top" /\ threadPc' = "connecting"
  /\ connectRetryCount > 0
  /\ connectRetryCount' = connectRetryCount - 1
  /\ makeConnect
  /\ UNCHANGED <<state_, current_point_>>
  /\ ThreadOnly /\ UNCHANGED raced

\* ... and, a quarter of a second later, what came of it.  The last attempt
\* that fails drops the trajectory.
ThreadConnected ==
  /\ threadPc = "connecting" /\ threadPc' = "top"
  /\ connectRetryCount' = IF connected_ THEN 0 ELSE connectRetryCount
  /\ state_' = IF ~connected_ /\ connectRetryCount = 0 THEN "IDLE" ELSE state_
  /\ UNCHANGED <<connectionVars, current_point_>>
  /\ ThreadOnly /\ UNCHANGED raced

\* Mutant: one point too many.
CompleteLate == current_point_ > size

\* Every point was sent.
Complete == current_point_ >= size

\* The thread has locked mutex_ and looks at state_.
ThreadSwitch ==
  /\ threadPc = "top" /\ connectRetryCount = 0
  /\ \/ /\ state_ = "STREAMING" /\ ~Complete /\ connected_
        /\ threadPc' = "send"
        /\ raced' = (raced \/ cbPc # "idle")
        /\ UNCHANGED <<state_, connectRetryCount>>
     \/ /\ state_ = "STREAMING" /\ ~Complete /\ ~connected_
        /\ connectRetryCount' = 5
        /\ UNCHANGED <<state_, threadPc, raced>>
     \/ /\ state_ = "STREAMING" /\ Complete
        /\ state_' = "IDLE"
        /\ UNCHANGED <<connectRetryCount, threadPc, raced>>
  /\ UNCHANGED <<connectionVars, current_point_>>
  /\ ThreadOnly

\* Mutant: a point counts as sent although the call failed.
AdvanceAlways(ok) == current_point_ + 1

\* Mutant: the trajectory starts again when a point could not be sent.
Restart(ok) == IF ok THEN current_point_ + 1 ELSE 0

\* current_point_ after sendAndReceiveMsg returned ok.
Advance(ok) == IF ok THEN current_point_ + 1 ELSE current_point_

\* sendAndReceiveMsg returns, and mutex_ is unlocked.
ThreadReturn(ok) ==
  /\ current_point_' = Advance(ok)
  /\ threadPc' = "top"

ThreadSend ==
  /\ threadPc = "send"
  /\ \/ SendOk(Point(traj, current_point_)) /\ threadPc' = "length"
                                            /\ UNCHANGED current_point_
     \/ SendFails /\ ThreadReturn(FALSE)
  /\ UNCHANGED <<state_, connectRetryCount>>
  /\ ThreadOnly /\ UNCHANGED raced

ThreadReceive ==
  /\ \/ /\ threadPc = "length"
        /\ \/ /\ ReceiveOk("length") \/ ReceiveGarbled("length")
              /\ threadPc' = "body" /\ UNCHANGED current_point_
           \/ ReceiveGarbled("length") /\ ThreadReturn(FALSE)
           \/ ReceiveFails /\ ThreadReturn(FALSE)
     \/ /\ threadPc = "body"
        /\ \/ ReceiveOk("body") /\ ThreadReturn(TRUE)
           \/ ReceiveGarbled("body") /\ \E ok \in BOOLEAN : ThreadReturn(ok)
           \/ ReceiveFails /\ ThreadReturn(FALSE)
  /\ UNCHANGED <<state_, connectRetryCount>>
  /\ ThreadOnly /\ UNCHANGED raced

-----------------------------------------------------------------------------
(* The other end, and the network.                                         *)

RobotReceives ==
  /\ Answer
  /\ LET m == Head(requests)
     IN  IF m.seq = STOP
         THEN stopGot' = m.traj /\ UNCHANGED lastGot
         ELSE lastGot' = m /\ UNCHANGED stopGot
  /\ UNCHANGED <<state_, current_point_, connectRetryCount, trajVars, threadPc,
                 cbPc, raced, nStops>>

NetworkFails ==
  /\ LoseConnection
  /\ UNCHANGED <<state_, current_point_, connectRetryCount, trajVars, threadPc,
                 cbPc, robotVars, raced, nStops>>

Callback == \/ \E n \in 1 .. MaxPoints : ReceiveTrajectory(n)
            \/ StopSend \/ StopReceive \/ StopIdle
Thread   == ThreadConnect \/ ThreadConnected \/ ThreadSwitch \/ ThreadSend
            \/ ThreadReceive

Next == Callback \/ Thread \/ RobotReceives \/ NetworkFails

Spec == Init /\ [][Next]_vars

\* The thread runs, and the robot answers what it has received.
Fairness == WF_vars(Thread) /\ WF_vars(StopReceive \/ StopIdle) /\ WF_vars(RobotReceives)

FairSpec == Spec /\ Fairness

-----------------------------------------------------------------------------
(***************************************************************************)
(* Properties                                                              *)
(***************************************************************************)

TypeOK ==
  /\ connected_ \in BOOLEAN /\ link \in BOOLEAN /\ garbled \in BOOLEAN
  /\ requests \in Seq(Message) /\ replies \in Seq({"length", "body"})
  /\ nLosses \in 0 .. MaxLosses /\ nMisreads \in 0 .. MaxMisreads
  /\ state_ \in {"IDLE", "STREAMING"}
  /\ current_point_ \in 0 .. MaxPoints /\ current_point_ <= size
  /\ connectRetryCount \in 0 .. 5
  /\ traj \in 0 .. MaxTrajs /\ size \in 0 .. MaxPoints
  /\ threadPc \in {"top", "connecting", "send", "length", "body"}
  /\ cbPc \in {"idle", "length", "body", "stopped"}
  /\ lastGot \in Message /\ stopGot \in 0 .. MaxTrajs
  /\ raced \in BOOLEAN /\ nStops \in 0 .. MaxStops

Older(p, q) == p.traj < q.traj \/ (p.traj = q.traj /\ p.seq <= q.seq)

\* The robot receives the points of a trajectory in order, and those of an
\* older trajectory never after those of a newer one.
DeliveredInOrder == [][Older(lastGot, lastGot')]_vars

\* As long as no STOP met the streaming thread at work, no reply is misread and
\* a point that counts as sent was received by the robot.
SentMeansReceived ==
  ~raced => /\ ~garbled
            /\ current_point_ > 0
               => Older(Point(traj, current_point_ - 1), lastGot)

\* As long as that is so, no point is left out: the robot receives the first
\* point of a trajectory, or the one after the newest, or that one again (and
\* never one of a trajectory that was stopped).
NoGap ==
  [][LET p == lastGot'
     IN  p # lastGot /\ ~raced
         => /\ p.traj > stopGot
            /\ p.seq = 0 \/ p = Point(lastGot.traj, lastGot.seq + 1)]_vars

\* Streaming ends, with a dead connection too, as long as no STOP is sent.
StreamingEnds == [](nStops = 0) => (state_ = "STREAMING" ~> state_ = "IDLE")

\* joint_trajectory_interface.cpp:155, "canceling current trajectory": when the
\* robot has received the STOP it receives no more of that trajectory.
StopCancels == [][lastGot' # lastGot => lastGot'.traj > stopGot]_vars
=============================================================================
