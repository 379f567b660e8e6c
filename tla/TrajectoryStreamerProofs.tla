---------------------- MODULE TrajectoryStreamerProofs ----------------------
(***************************************************************************)
(* Type correctness of TrajectoryStreamer, the order in which the robot    *)
(* receives the points of trajectories, and what counts as sent.           *)
(***************************************************************************)
EXTENDS TrajectoryStreamer, SequenceTheorems, TLAPS

USE DEF STOP, Message, Point, Stop

\* The type invariant in three parts: what the two threads see of the
\* connection, the variables of the streamer, and the history.
FlagType == connected_ \in BOOLEAN /\ link \in BOOLEAN /\ garbled \in BOOLEAN
MessageType ==
  /\ requests \in Seq(Message) /\ replies \in Seq({"length", "body"})
CounterType == nLosses \in 0 .. MaxLosses /\ nMisreads \in 0 .. MaxMisreads
ConnectionType == FlagType /\ MessageType /\ CounterType
StreamerType ==
  /\ state_ \in {"IDLE", "STREAMING"}
  /\ current_point_ \in 0 .. MaxPoints /\ current_point_ <= size
  /\ connectRetryCount \in 0 .. 5
  /\ traj \in 0 .. MaxTrajs /\ size \in 0 .. MaxPoints
  /\ threadPc \in {"top", "connecting", "send", "length", "body"}
  /\ cbPc \in {"idle", "length", "body", "stopped"}
RobotType   == lastGot \in Message /\ stopGot \in 0 .. MaxTrajs
StopsType   == nStops \in 0 .. MaxStops
RacedType   == raced \in BOOLEAN
HistoryType == RobotType /\ StopsType /\ RacedType

\* While the thread sends a point or waits for the reply, there is a point to
\* be sent: current_point_ never passes the end of the trajectory.
Busy == threadPc \in {"send", "length", "body"} => current_point_ < size

TypeInv == ConnectionType /\ StreamerType /\ HistoryType /\ Busy

\* The type-correctness that is proved is the one the run checks.
LEMMA TypeParts == TypeInv => TypeOK
BY DEF TypeInv, TypeOK, ConnectionType, FlagType, MessageType, CounterType,
       StreamerType, HistoryType, RobotType, StopsType, RacedType

-----------------------------------------------------------------------------
(* What the operations of the connection preserve.                         *)

\* A request more is a sequence of messages still.
LEMMA AppendRequest ==
  ASSUME NEW m \in Message, requests \in Seq(Message)
  PROVE  Append(requests, m) \in Seq(Message)
BY AppendProperties

\* Sending keeps the types of the connection, whether it succeeds or not ...
LEMMA SendTyped ==
  ASSUME NEW m \in Message, ConnectionType, SendOk(m) \/ SendFails
  PROVE  ConnectionType'
<1>1. CASE SendOk(m)
  <2>1. FlagType'
    BY <1>1 DEF ConnectionType, FlagType, SendOk
  <2>2. requests' \in Seq(Message)
    BY <1>1, AppendRequest DEF ConnectionType, MessageType, SendOk
  <2>3. MessageType' /\ CounterType'
    BY <1>1, <2>2 DEF ConnectionType, MessageType, CounterType, SendOk, counters
  <2> QED BY <2>1, <2>3 DEF ConnectionType
<1>2. CASE SendFails
  <2>1. FlagType'
    BY <1>2 DEF ConnectionType, FlagType, SendFails
  <2>2. MessageType' /\ CounterType'
    BY <1>2 DEF ConnectionType, MessageType, CounterType, SendFails, counters
  <2> QED BY <2>1, <2>2 DEF ConnectionType
<1> QED BY <1>1, <1>2

\* ... and so does receiving, whatever is received ...
LEMMA ReceiveTyped ==
  ASSUME NEW half, ConnectionType,
         ReceiveOk(half) \/ ReceiveGarbled(half) \/ ReceiveFails
  PROVE  ConnectionType' /\ UNCHANGED requests
<1>1. replies # <<>> => Tail(replies) \in Seq({"length", "body"})
  BY HeadTailProperties DEF ConnectionType, MessageType
<1>2. CASE ReceiveOk(half)
  <2>1. FlagType'
    BY <1>2 DEF ConnectionType, FlagType, ReceiveOk
  <2>2. MessageType' /\ CounterType' /\ UNCHANGED requests
    BY <1>1, <1>2 DEF ConnectionType, MessageType, CounterType, ReceiveOk, counters
  <2> QED BY <2>1, <2>2 DEF ConnectionType
<1>3. CASE ReceiveGarbled(half)
  <2>1. FlagType'
    BY <1>3 DEF ConnectionType, FlagType, ReceiveGarbled
  <2>2. CounterType'
    BY <1>3, ConnectionAssumption DEF ConnectionType, CounterType, ReceiveGarbled
  <2>3. MessageType' /\ UNCHANGED requests
    BY <1>1, <1>3 DEF ConnectionType, MessageType, ReceiveGarbled
  <2> QED BY <2>1, <2>2, <2>3 DEF ConnectionType
<1>4. CASE ReceiveFails
  <2>1. FlagType'
    BY <1>4 DEF ConnectionType, FlagType, ReceiveFails
  <2>2. MessageType' /\ CounterType' /\ UNCHANGED requests
    BY <1>4 DEF ConnectionType, MessageType, CounterType, ReceiveFails, counters
  <2> QED BY <2>1, <2>2 DEF ConnectionType
<1> QED BY <1>2, <1>3, <1>4

\* ... and connecting.
LEMMA ConnectTyped ==
  ASSUME ConnectionType, makeConnect
  PROVE  ConnectionType'
<1>1. FlagType'
  BY DEF ConnectionType, FlagType, makeConnect, connectionVars
<1>2. <<>> \in Seq(Message) /\ <<>> \in Seq({"length", "body"})
  BY EmptySeq
<1>3. MessageType' /\ CounterType'
  BY <1>2 DEF ConnectionType, MessageType, CounterType, makeConnect, connectionVars,
              counters
<1> QED BY <1>1, <1>3 DEF ConnectionType

\* The end of sendAndReceiveMsg.
LEMMA ReturnTyped ==
  ASSUME StreamerType, NEW ok, ThreadReturn(ok), current_point_ < size,
         UNCHANGED <<state_, connectRetryCount, trajVars, cbPc>>
  PROVE  StreamerType' /\ Busy'
<1>1. current_point_' \in 0 .. MaxPoints /\ current_point_' <= size
  BY StreamerAssumption DEF StreamerType, ThreadReturn, Advance
<1> QED BY <1>1 DEF StreamerType, Busy, ThreadReturn, trajVars
-----------------------------------------------------------------------------
(* Type correctness.                                                       *)

\* A part whose variables do not change stays true.
LEMMA Frame ==
  /\ ConnectionType /\ UNCHANGED connectionVars => ConnectionType'
  /\ StreamerType /\ Busy /\ UNCHANGED <<state_, current_point_, connectRetryCount,
                                        trajVars, threadPc, cbPc>>
     => StreamerType' /\ Busy'
  /\ RobotType /\ UNCHANGED robotVars => RobotType'
  /\ StopsType /\ UNCHANGED nStops => StopsType'
  /\ RacedType /\ UNCHANGED raced => RacedType'
<1>1. ConnectionType /\ UNCHANGED connectionVars => ConnectionType'
  BY DEF ConnectionType, FlagType, MessageType, CounterType, connectionVars, counters
<1>2. StreamerType /\ Busy /\ UNCHANGED <<state_, current_point_, connectRetryCount,
                                        trajVars, threadPc, cbPc>>
      => StreamerType' /\ Busy'
  BY DEF StreamerType, Busy, trajVars
<1>3. RobotType /\ UNCHANGED robotVars => RobotType'
  BY DEF RobotType, robotVars
<1>4. StopsType /\ UNCHANGED nStops => StopsType'
  BY DEF StopsType
<1>5. RacedType /\ UNCHANGED raced => RacedType'
  BY DEF RacedType
<1> QED BY <1>1, <1>2, <1>3, <1>4, <1>5

LEMMA TypeInit == Init => TypeInv
<1> SUFFICES ASSUME Init PROVE TypeInv
  OBVIOUS
<1>1. FlagType
  BY DEF Init, ConnectionInit, FlagType
<1>2. MessageType
  BY EmptySeq DEF Init, ConnectionInit, MessageType
<1>3. CounterType /\ StopsType
  BY ConnectionAssumption, StreamerAssumption
     DEF Init, ConnectionInit, CounterType, StopsType
<1>4. StreamerType /\ Busy /\ RobotType
  BY StreamerAssumption DEF Init, StreamerType, Busy, RobotType
<1>5. RacedType
  BY DEF Init, RacedType
<1> QED BY <1>1, <1>2, <1>3, <1>4, <1>5 DEF TypeInv, ConnectionType, HistoryType

\* Callbacks keep types and place: no trajectory is replaced while the thread sends a
\* point of it.
LEMMA TypeCallback == TypeInv /\ Callback => TypeInv'
<1> SUFFICES ASSUME TypeInv, Callback PROVE TypeInv'
  OBVIOUS
<1> USE DEF TypeInv, HistoryType
<1>1. ASSUME NEW n \in 1 .. MaxPoints, ReceiveTrajectory(n)
      PROVE  TypeInv'
  <2>1. StreamerType' /\ Busy'
    BY <1>1, StreamerAssumption
       DEF ReceiveTrajectory, StreamerType, Busy, mutexFree
  <2> QED BY <1>1, <2>1, Frame DEF ReceiveTrajectory
<1>2. CASE StopSend
  <2>1. Stop(traj) \in Message
    BY StreamerAssumption DEF StreamerType
  <2>2. ConnectionType'
    BY <1>2, <2>1, SendTyped DEF StopSend
  <2>3. StreamerType' /\ Busy'
    BY <1>2 DEF StopSend, CallbackOnly, StreamerType, Busy, trajVars
  <2>4. StopsType'
    BY <1>2, StreamerAssumption DEF StopSend, StopsType
  <2>5. RacedType'
    BY <1>2 DEF StopSend, RacedType
  <2> QED BY <1>2, <2>2, <2>3, <2>4, <2>5, Frame DEF StopSend, CallbackOnly
<1>3. CASE StopReceive
  <2>1. ConnectionType'
    BY <1>3, ReceiveTyped DEF StopReceive
  <2>2. StreamerType' /\ Busy'
    BY <1>3 DEF StopReceive, CallbackOnly, StreamerType, Busy, trajVars
  <2> QED BY <1>3, <2>1, <2>2, Frame DEF StopReceive, CallbackOnly
<1>4. CASE StopIdle
  <2>1. StreamerType' /\ Busy'
    BY <1>4 DEF StopIdle, CallbackOnly, StreamerType, Busy, trajVars
  <2> QED BY <1>4, <2>1, Frame DEF StopIdle, CallbackOnly
<1> QED BY <1>1, <1>2, <1>3, <1>4 DEF Callback

\* The thread does not count beyond the last point.
LEMMA TypeThread == TypeInv /\ Thread => TypeInv'
<1> SUFFICES ASSUME TypeInv, Thread PROVE TypeInv'
  OBVIOUS
<1> USE DEF TypeInv, HistoryType
<1>1. CASE ThreadConnect
  <2>1. ConnectionType'
    BY <1>1, ConnectTyped DEF ThreadConnect
  <2>2. StreamerType' /\ Busy'
    BY <1>1 DEF ThreadConnect, ThreadOnly, StreamerType, Busy, trajVars
  <2> QED BY <1>1, <2>1, <2>2, Frame DEF ThreadConnect, ThreadOnly
<1>2. CASE ThreadConnected
  <2>1. connectRetryCount' \in 0 .. 5 /\ state_' \in {"IDLE", "STREAMING"}
    BY <1>2 DEF ThreadConnected, StreamerType
  <2>2. StreamerType' /\ Busy'
    BY <1>2, <2>1 DEF ThreadConnected, ThreadOnly, StreamerType, Busy, trajVars
  <2> QED BY <1>2, <2>2, Frame DEF ThreadConnected, ThreadOnly
<1>3. CASE ThreadSwitch
  <2>1. StreamerType' /\ Busy'
    BY <1>3, StreamerAssumption
       DEF ThreadSwitch, ThreadOnly, StreamerType, Busy, Complete, trajVars
  <2>2. RacedType'
    BY <1>3 DEF ThreadSwitch, RacedType
  <2> QED BY <1>3, <2>1, <2>2, Frame DEF ThreadSwitch, ThreadOnly
<1>4. CASE ThreadSend
  <2>1. Point(traj, current_point_) \in Message
    BY <1>4, StreamerAssumption DEF ThreadSend, StreamerType, Busy
  <2>2. ConnectionType'
    BY <1>4, <2>1, SendTyped DEF ThreadSend
  <2>3. StreamerType' /\ Busy'
    <3>1. CASE ThreadReturn(FALSE)
      BY <1>4, <3>1, ReturnTyped DEF ThreadSend, ThreadOnly, Busy
    <3>2. CASE threadPc' = "length" /\ UNCHANGED current_point_
      BY <1>4, <3>2 DEF ThreadSend, ThreadOnly, StreamerType, Busy, trajVars
    <3> QED BY <1>4, <3>1, <3>2 DEF ThreadSend
  <2> QED BY <1>4, <2>2, <2>3, Frame DEF ThreadSend, ThreadOnly
<1>5. CASE ThreadReceive
  <2>1. ConnectionType'
    BY <1>5, ReceiveTyped DEF ThreadReceive
  <2>2. threadPc \in {"length", "body"}
    BY <1>5 DEF ThreadReceive
  <2>3. StreamerType' /\ Busy'
    <3>1. ASSUME NEW ok, ThreadReturn(ok) PROVE StreamerType' /\ Busy'
      BY <1>5, <2>2, <3>1, ReturnTyped DEF ThreadReceive, ThreadOnly, Busy
    <3>2. CASE threadPc' = "body" /\ UNCHANGED current_point_
      BY <1>5, <2>2, <3>2 DEF ThreadReceive, ThreadOnly, StreamerType, Busy, trajVars
    <3> QED BY <1>5, <3>1, <3>2 DEF ThreadReceive
  <2> QED BY <1>5, <2>1, <2>3, Frame DEF ThreadReceive, ThreadOnly
<1> QED BY <1>1, <1>2, <1>3, <1>4, <1>5 DEF Thread

\* Neither robot nor network change what the streamer knows.
LEMMA TypeWorld == TypeInv /\ (RobotReceives \/ NetworkFails) => TypeInv'
<1> SUFFICES ASSUME TypeInv, RobotReceives \/ NetworkFails PROVE TypeInv'
  OBVIOUS
<1> USE DEF TypeInv, HistoryType
<1>1. CASE RobotReceives
  <2>1. Head(requests) \in Message /\ Tail(requests) \in Seq(Message)
    BY <1>1, HeadTailProperties DEF RobotReceives, Answer, ConnectionType, MessageType
  <2>2. replies \o Reply \in Seq({"length", "body"})
    BY ConcatProperties DEF ConnectionType, MessageType, Reply
  <2>3. FlagType'
    BY <1>1 DEF RobotReceives, Answer, ConnectionType, FlagType
  <2>4. MessageType' /\ CounterType'
    BY <1>1, <2>1, <2>2
       DEF RobotReceives, Answer, ConnectionType, MessageType, CounterType, counters
  <2>5. RobotType'
    BY <1>1, <2>1 DEF RobotReceives, RobotType
  <2> QED BY <1>1, <2>3, <2>4, <2>5, Frame DEF RobotReceives, ConnectionType
<1>2. CASE NetworkFails
  <2>1. FlagType'
    BY <1>2 DEF NetworkFails, LoseConnection, ConnectionType, FlagType
  <2>2. CounterType'
    BY <1>2, ConnectionAssumption
       DEF NetworkFails, LoseConnection, ConnectionType, CounterType
  <2>3. ASSUME NEW S, NEW s \in Seq(S), NEW n \in 0 .. Len(s)
        PROVE  SubSeq(s, 1, n) \in Seq(S)
    BY SubSeqProperties
  <2>4. MessageType'
    BY <1>2, <2>3 DEF NetworkFails, LoseConnection, ConnectionType, MessageType
  <2> QED BY <1>2, <2>1, <2>2, <2>4, Frame DEF NetworkFails, ConnectionType
<1> QED BY <1>1, <1>2

\* Every step keeps the types.
LEMMA TypeNext == TypeInv /\ [Next]_vars => TypeInv'
<1>1. TypeInv /\ UNCHANGED vars => TypeInv'
  BY Frame DEF vars, TypeInv, HistoryType
<1> QED BY <1>1, TypeCallback, TypeThread, TypeWorld DEF Next

\* The streamer is type-correct for every number of trajectories, points, stops
\* and losses: in particular current_point_ never passes the end of current_traj_.
THEOREM TypeCorrect == Spec => []TypeOK
<1>1. Spec => []TypeInv
  BY TypeInit, TypeNext, PTL DEF Spec
<1> QED BY <1>1, TypeParts, PTL
-----------------------------------------------------------------------------
(* The order of delivery.                                                  *)

\* The point to be sent next, and the points on their way.
Newest == Point(traj, current_point_)
IsPoint(m) == m.seq # STOP

\* What is on its way is in order, not older than the newest point received and
\* not newer than the one to be sent next.
OnTheWay(s) ==
  /\ \A i \in 1 .. Len(s) :
       IsPoint(s[i]) => Older(lastGot, s[i]) /\ Older(s[i], Newest)
  /\ \A i, j \in 1 .. Len(s) :
       i < j /\ IsPoint(s[i]) /\ IsPoint(s[j]) => Older(s[i], s[j])

OrderInv == Older(lastGot, Newest) /\ OnTheWay(requests)

Number == [traj : Int, seq : Int]

\* The order of points is transitive.
LEMMA OlderTransitive ==
  ASSUME NEW p \in Number, NEW q \in Number, NEW r \in Number,
         Older(p, q), Older(q, r)
  PROVE  Older(p, r)
BY DEF Older, Number

\* Points are numbered.
LEMMA Numbers ==
  ASSUME TypeInv
  PROVE  /\ lastGot \in Number /\ Newest \in Number
         /\ \A i \in 1 .. Len(requests) : requests[i] \in Number
<1>1. Message \subseteq Number
  BY StreamerAssumption DEF Number
<1>2. Newest \in Number
  BY StreamerAssumption DEF TypeInv, StreamerType, Newest, Number
<1>3. \A i \in 1 .. Len(requests) : requests[i] \in Message
  BY ElementOfSeq DEF TypeInv, ConnectionType, MessageType
<1> QED BY <1>1, <1>2, <1>3 DEF TypeInv, HistoryType, RobotType

\* The point to be sent next only gets newer.
LEMMA NewestGrows ==
  ASSUME TypeInv, [Next]_vars
  PROVE  Older(Newest, Newest') /\ Newest' \in Number
<1>1. Newest' \in Number
  BY TypeNext, Numbers, StreamerAssumption
     DEF TypeInv, StreamerType, Newest, Number
<1> SUFFICES Older(Newest, Newest')
  BY <1>1
<1>2. CASE UNCHANGED <<traj, current_point_>>
  BY <1>2 DEF Newest, Older, TypeInv, StreamerType
<1>3. ASSUME NEW n \in 1 .. MaxPoints, ReceiveTrajectory(n)
      PROVE  Older(Newest, Newest')
  BY <1>3 DEF ReceiveTrajectory, Newest, Older, TypeInv, StreamerType
<1>4. CASE UNCHANGED traj /\ \E ok : ThreadReturn(ok)
  BY <1>4 DEF ThreadReturn, Advance, Newest, Older, TypeInv, StreamerType
<1>5. CASE Callback
  BY <1>2, <1>3, <1>5
     DEF Callback, StopSend, StopReceive, StopIdle, CallbackOnly, trajVars
<1>6. CASE Thread
  <2>1. CASE ThreadConnect \/ ThreadConnected \/ ThreadSwitch
    BY <1>2, <2>1
       DEF ThreadConnect, ThreadConnected, ThreadSwitch, ThreadOnly, trajVars
  <2>2. CASE ThreadSend
    BY <1>2, <1>4, <2>2 DEF ThreadSend, ThreadOnly, trajVars
  <2>3. CASE ThreadReceive
    BY <1>2, <1>4, <2>3 DEF ThreadReceive, ThreadOnly, trajVars
  <2> QED BY <1>6, <2>1, <2>2, <2>3 DEF Thread
<1>7. CASE RobotReceives \/ NetworkFails \/ UNCHANGED vars
  BY <1>2, <1>7 DEF RobotReceives, NetworkFails, vars, trajVars
<1> QED BY <1>1, <1>5, <1>6, <1>7 DEF Next

\* Appending the newest point, or a STOP, keeps the order.
LEMMA AppendInOrder ==
  ASSUME TypeInv, OrderInv, NEW m \in Message, IsPoint(m) => m = Newest
  PROVE  OnTheWay(Append(requests, m))
<1> DEFINE s == Append(requests, m)
<1>1. /\ Len(s) = Len(requests) + 1 /\ s[Len(requests) + 1] = m
      /\ \A i \in 1 .. Len(requests) : s[i] = requests[i]
  BY AppendProperties DEF TypeInv, ConnectionType, MessageType
<1>2. Len(requests) \in Nat
  BY LenProperties DEF TypeInv, ConnectionType, MessageType
<1>3. Older(Newest, Newest)
  BY Numbers DEF Older, Number
<1>4. ASSUME NEW i \in 1 .. Len(s), IsPoint(s[i])
      PROVE  Older(lastGot, s[i]) /\ Older(s[i], Newest)
  BY <1>1, <1>2, <1>3, <1>4 DEF OrderInv, OnTheWay
<1>5. ASSUME NEW i \in 1 .. Len(s), NEW j \in 1 .. Len(s), i < j,
             IsPoint(s[i]), IsPoint(s[j])
      PROVE  Older(s[i], s[j])
  BY <1>1, <1>2, <1>4, <1>5 DEF OrderInv, OnTheWay
<1> QED BY <1>4, <1>5 DEF OnTheWay

\* What is on its way, or part of it, when the requests were not appended to:
\* it stays in order when the newest point grows.
LEMMA StaysInOrder ==
  ASSUME TypeInv, OrderInv, [Next]_vars, UNCHANGED lastGot,
         Len(requests') \in 0 .. Len(requests),
         \A i \in 1 .. Len(requests') : requests'[i] = requests[i]
  PROVE  OrderInv'
<1>1. /\ Older(Newest, Newest') /\ Newest' \in Number
      /\ lastGot \in Number /\ Newest \in Number
      /\ \A i \in 1 .. Len(requests) : requests[i] \in Number
  BY NewestGrows, Numbers
<1>2. Older(lastGot, Newest')
  BY <1>1, OlderTransitive DEF OrderInv
<1>3. Len(requests) \in Nat
  BY LenProperties DEF TypeInv, ConnectionType, MessageType
<1>4. ASSUME NEW i \in 1 .. Len(requests'), IsPoint(requests'[i])
      PROVE  Older(lastGot, requests'[i]) /\ Older(requests'[i], Newest')
  <2>1. i \in 1 .. Len(requests) /\ requests'[i] = requests[i]
    BY <1>3
  <2>2. Older(lastGot, requests[i]) /\ Older(requests[i], Newest)
    BY <1>4, <2>1 DEF OrderInv, OnTheWay
  <2> QED BY <1>1, <2>1, <2>2, OlderTransitive
<1>5. ASSUME NEW i \in 1 .. Len(requests'), NEW j \in 1 .. Len(requests'), i < j,
             IsPoint(requests'[i]), IsPoint(requests'[j])
      PROVE  Older(requests'[i], requests'[j])
  BY <1>3, <1>5 DEF OrderInv, OnTheWay
<1> QED BY <1>2, <1>4, <1>5 DEF OrderInv, OnTheWay, IsPoint

\* Whatever becomes of a message that is sent, the points on their way are in order.
LEMMA SendInOrder ==
  ASSUME TypeInv, OrderInv, [Next]_vars, NEW m \in Message, IsPoint(m) => m = Newest,
         SendOk(m) \/ SendFails, UNCHANGED <<lastGot, traj>>,
         UNCHANGED current_point_ \/ UNCHANGED requests
  PROVE  OrderInv'
<1>1. Len(requests) \in Nat
  BY LenProperties DEF TypeInv, ConnectionType, MessageType
<1>2. CASE UNCHANGED requests
  BY <1>1, <1>2, StaysInOrder
<1>3. CASE requests' = Append(requests, m) /\ UNCHANGED current_point_
  <2>1. OnTheWay(Append(requests, m))
    BY AppendInOrder
  <2>2. Newest' = Newest
    BY <1>3 DEF Newest
  <2> QED BY <1>3, <2>1, <2>2 DEF OrderInv, OnTheWay, IsPoint
<1> QED BY <1>2, <1>3 DEF SendOk, SendFails

\* The robot takes the oldest request.
LEMMA ReceiveInOrder ==
  ASSUME TypeInv, OrderInv, RobotReceives
  PROVE  OrderInv' /\ Older(lastGot, lastGot')
<1>1. /\ Len(requests) \in Nat \ {0}
      /\ Head(requests) = requests[1]
      /\ Len(requests') = Len(requests) - 1
      /\ \A i \in 1 .. Len(requests') : requests'[i] = requests[i + 1]
  BY HeadTailProperties, EmptySeq, LenProperties
     DEF RobotReceives, Answer, TypeInv, ConnectionType, MessageType
<1>2. Newest' = Newest
  BY DEF RobotReceives, Newest, trajVars
<1>3. /\ lastGot \in Number /\ Newest \in Number
      /\ \A i \in 1 .. Len(requests) : requests[i] \in Number
  BY Numbers
<1>4. lastGot' = IF IsPoint(requests[1]) THEN requests[1] ELSE lastGot
  BY <1>1 DEF RobotReceives, IsPoint
<1>5. Older(lastGot, lastGot') /\ Older(lastGot', Newest)
  BY <1>1, <1>3, <1>4 DEF OrderInv, OnTheWay, Older, Number
<1>6. ASSUME NEW i \in 1 .. Len(requests'), IsPoint(requests'[i])
      PROVE  Older(lastGot', requests'[i]) /\ Older(requests'[i], Newest)
  <2>1. i + 1 \in 1 .. Len(requests) /\ 1 \in 1 .. Len(requests) /\ 1 < i + 1
    BY <1>1
  <2>2. requests'[i] = requests[i + 1]
    BY <1>1
  <2> QED BY <1>4, <1>6, <2>1, <2>2 DEF OrderInv, OnTheWay
<1>7. ASSUME NEW i \in 1 .. Len(requests'), NEW j \in 1 .. Len(requests'), i < j,
             IsPoint(requests'[i]), IsPoint(requests'[j])
      PROVE  Older(requests'[i], requests'[j])
  <2>1. /\ i + 1 \in 1 .. Len(requests) /\ j + 1 \in 1 .. Len(requests)
        /\ i + 1 < j + 1
    BY <1>1, <1>7
  <2>2. requests'[i] = requests[i + 1] /\ requests'[j] = requests[j + 1]
    BY <1>1
  <2> QED BY <1>7, <2>1, <2>2 DEF OrderInv, OnTheWay
<1> QED BY <1>2, <1>5, <1>6, <1>7 DEF OrderInv, OnTheWay, IsPoint

\* Every step keeps points in order, and the newest that has arrived does not get
\* older.
LEMMA OrderNext ==
  ASSUME TypeInv, OrderInv, [Next]_vars
  PROVE  OrderInv' /\ Older(lastGot, lastGot')
<1>1. Older(lastGot, lastGot)
  BY Numbers DEF Older, Number
<1>2. Len(requests) \in Nat
  BY LenProperties DEF TypeInv, ConnectionType, MessageType
<1>3. CASE UNCHANGED <<requests, lastGot>>
  BY <1>1, <1>2, <1>3, StaysInOrder
<1>4. CASE Callback
  <2>1. CASE StopSend
    <3>1. Stop(traj) \in Message /\ ~IsPoint(Stop(traj))
      BY StreamerAssumption DEF TypeInv, StreamerType, IsPoint
    <3>2. UNCHANGED <<lastGot, traj, current_point_>>
      BY <2>1 DEF StopSend, CallbackOnly, robotVars, trajVars
    <3> QED BY <1>1, <2>1, <3>1, <3>2, SendInOrder DEF StopSend
  <2>2. ASSUME NEW n \in 1 .. MaxPoints, ReceiveTrajectory(n)
        PROVE  UNCHANGED <<requests, lastGot>>
    BY <2>2 DEF ReceiveTrajectory, connectionVars, robotVars
  <2>3. CASE StopReceive
    BY <1>3, <2>3, ReceiveTyped
       DEF StopReceive, CallbackOnly, robotVars, TypeInv
  <2>4. CASE StopIdle
    BY <1>3, <2>4 DEF StopIdle, CallbackOnly, connectionVars, robotVars
  <2> QED BY <1>3, <1>4, <2>1, <2>2, <2>3, <2>4 DEF Callback
<1>5. CASE Thread
  <2>1. CASE ThreadConnect
    <3>1. requests' = requests \/ requests' = <<>>
      BY <2>1 DEF ThreadConnect, makeConnect, connectionVars
    <3>2. UNCHANGED lastGot
      BY <2>1 DEF ThreadConnect, ThreadOnly, robotVars
    <3>3. CASE requests' = <<>>
      <4>1. Len(requests') = 0
        BY <3>3, EmptySeq
      <4> QED BY <1>1, <1>2, <3>2, <4>1, StaysInOrder
    <3> QED BY <1>3, <3>1, <3>2, <3>3
  <2>2. CASE ThreadConnected \/ ThreadSwitch
    BY <1>3, <2>2
       DEF ThreadConnected, ThreadSwitch, ThreadOnly, connectionVars, robotVars
  <2>3. CASE ThreadSend
    <3>1. Newest \in Message
      BY <2>3, StreamerAssumption
         DEF ThreadSend, TypeInv, StreamerType, Busy, Newest
    <3>2. UNCHANGED <<lastGot, traj>>
      BY <2>3 DEF ThreadSend, ThreadOnly, robotVars, trajVars
    <3>3. \/ SendOk(Newest) /\ UNCHANGED current_point_
          \/ SendFails /\ UNCHANGED requests
      BY <2>3 DEF ThreadSend, Newest, SendFails
    <3> QED BY <1>1, <3>1, <3>2, <3>3, SendInOrder
  <2>4. CASE ThreadReceive
    BY <1>3, <2>4, ReceiveTyped DEF ThreadReceive, ThreadOnly, robotVars, TypeInv
  <2> QED BY <1>5, <2>1, <2>2, <2>3, <2>4 DEF Thread
<1>6. CASE RobotReceives
  BY <1>6, ReceiveInOrder
<1>7. CASE NetworkFails
  <2>1. PICK n \in 0 .. Len(requests) : requests' = SubSeq(requests, 1, n)
    BY <1>7 DEF NetworkFails, LoseConnection
  <2>2. Len(requests') = n /\ \A i \in 1 .. n : requests'[i] = requests[i]
    BY <1>2, <2>1, SubSeqProperties DEF TypeInv, ConnectionType, MessageType
  <2>3. UNCHANGED lastGot
    BY <1>7 DEF NetworkFails, robotVars
  <2> QED BY <1>1, <2>2, <2>3, StaysInOrder
<1>8. CASE UNCHANGED vars
  BY <1>3, <1>8 DEF vars, connectionVars, robotVars
<1> QED BY <1>4, <1>5, <1>6, <1>7, <1>8 DEF Next

LEMMA OrderInit == Init => OrderInv
BY EmptySeq DEF Init, ConnectionInit, OrderInv, OnTheWay, Newest, Older

\* Whatever stops, races, lost connections and repeated points there are, the
\* robot receives the points of a trajectory in order, and none of an older
\* trajectory after one of a newer.
THEOREM InOrder == Spec => DeliveredInOrder
<1>1. TypeInv /\ OrderInv /\ [Next]_vars
      => (TypeInv /\ OrderInv)' /\ [Older(lastGot, lastGot')]_vars
  BY TypeNext, OrderNext
<1> QED BY <1>1, TypeInit, OrderInit, PTL DEF Spec, DeliveredInOrder
-----------------------------------------------------------------------------
(* What counts as sent, as long as no callback stops the robot while the   *)
(* thread sends.                                                           *)

\* Where a call of sendAndReceiveMsg for m is, by what is on its way: the request and
\* then the reply, less what was lost.
Call(half, m) ==
  /\ connected_
  /\ half = "length" => \/ requests \in {<<>>, <<m>>} /\ replies = <<>>
                        \/ requests = <<>> /\ replies \in {<<"length">>, Reply}
  /\ half = "body"   => requests = <<>> /\ replies \in {<<>>, <<"body">>}

Calling(at) == at \in {"length", "body"}

\* One thread at a time calls; the point whose reply the streaming thread reads is the
\* newest one that the robot has received.
Alone      == mutexFree \/ cbPc = "idle"
ThreadCall == Calling(threadPc) =>
                /\ Call(threadPc, Newest)
                /\ threadPc = "body" \/ replies # <<>> => lastGot = Newest
StopCall   == Calling(cbPc) => Call(cbPc, Stop(traj))

\* Between calls nothing is on its way on a connection that is believed to be up.
Quiet ==
  /\ connected_ /\ ~Calling(threadPc) /\ ~Calling(cbPc) => requests = <<>> /\ replies = <<>>
  /\ threadPc = "send" => connected_

\* A trajectory that was stopped is not streamed any more, or will not be when the
\* callback ends.
Stopped   == state_ = "IDLE" \/ cbPc # "idle"
StopMeant == stopGot <= traj /\ (stopGot = traj => Stopped)
Streams   == ~mutexFree => state_ = "STREAMING"

\* A point that the robot may receive next.
Follows(p) ==
  p.traj > stopGot /\ (p.seq = 0 \/ p = lastGot \/ p = Point(lastGot.traj, lastGot.seq + 1))

\* At most one request is on its way, from a call that runs or one that failed.
OneRequest ==
  requests = <<>> \/ \E m \in Message :
    /\ requests = <<m>>
    /\ IsPoint(m) => Follows(m)
    /\ ~IsPoint(m) => m.traj <= traj /\ (m.traj = traj => Stopped)

Sent == current_point_ > 0 => Older(Point(traj, current_point_ - 1), lastGot)

Lone == /\ Alone /\ ThreadCall /\ StopCall /\ Quiet /\ StopMeant /\ Streams /\ OneRequest
        /\ Sent /\ ~garbled
SentInv == ~raced => Lone

\* The sequences that this is about.
LEMMA OneMessage ==
  ASSUME NEW m
  PROVE  /\ Append(<<>>, m) = <<m>> /\ <<m>> # <<>>
         /\ Head(<<m>>) = m /\ Tail(<<m>>) = <<>>
         /\ Len(<<m>>) = 1
OBVIOUS

\* A reply has two halves.
LEMMA ReplyHalves ==
  /\ Reply # <<>> /\ Head(Reply) = "length" /\ Tail(Reply) = <<"body">>
  /\ <<>> \o Reply = Reply /\ Len(Reply) = 2 /\ <<"length">> # Reply
BY DEF Reply

\* What a loss can leave of what is under way: nothing, a half or all of it.
LEMMA Prefixes ==
  /\ \A n \in 0 .. Len(<<>>) : SubSeq(<<>>, 1, n) = <<>>
  /\ \A m : \A n \in 0 .. Len(<<m>>) : SubSeq(<<m>>, 1, n) \in {<<>>, <<m>>}
  /\ \A n \in 0 .. Len(Reply) : SubSeq(Reply, 1, n) \in {<<>>, <<"length">>, Reply}
<1>1. ASSUME NEW n \in 0 .. Len(<<>>)
      PROVE  SubSeq(<<>>, 1, n) = <<>>
  OBVIOUS
<1>2. ASSUME NEW m, NEW n \in 0 .. Len(<<m>>)
      PROVE  SubSeq(<<m>>, 1, n) \in {<<>>, <<m>>}
  <2>1. CASE n = 0
    BY <2>1
  <2>2. CASE n = 1
    <3>1. <<m>> \in Seq({m}) /\ Len(<<m>>) = 1
      OBVIOUS
    <3> QED BY <2>2, <3>1, SubSeqFull
  <2> QED BY <2>1, <2>2
<1>3. ASSUME NEW n \in 0 .. Len(Reply)
      PROVE  SubSeq(Reply, 1, n) \in {<<>>, <<"length">>, Reply}
  <2>0. Reply \in Seq({"length", "body"}) /\ Len(Reply) = 2 /\ Reply[1] = "length"
    BY DEF Reply
  <2>1. CASE n = 0
    BY <2>1, SubSeqEmpty
  <2>2. CASE n = 1
    <3>1. SubSeq(Reply, 1, 1) = <<"length">> \o SubSeq(Reply, 2, 1)
      BY <2>0, SubSeqRecursiveFirst
    <3>2. <<"length">> \o <<>> = <<"length">>
      OBVIOUS
    <3>3. SubSeq(Reply, 2, 1) = <<>>
      BY SubSeqEmpty
    <3> QED BY <2>2, <3>1, <3>2, <3>3
  <2>3. CASE n = 2
    BY <2>0, <2>3, SubSeqFull
  <2> QED BY <2>1, <2>2, <2>3 DEF Reply
<1> QED BY <1>1, <1>2, <1>3

LEMMA LoneInit == Init => Lone
BY DEF Init, ConnectionInit, Lone, Alone, mutexFree, ThreadCall, StopCall, Calling, Quiet, StopMeant,
       Stopped, Streams, OneRequest, Sent

\* No half is misread, and each comes in its turn: the length of a reply to a call
\* leaves the body, the body leaves nothing.
LEMMA CallReceives ==
  ASSUME NEW half, NEW m, Calling(half), Call(half, m), ~garbled
  PROVE  /\ ~ReceiveGarbled(half)
         /\ ReceiveOk(half) => /\ replies # <<>> /\ requests' = <<>> /\ requests = <<>>
                               /\ half = "length" => replies' \in {<<>>, <<"body">>}
                               /\ half = "body" => replies' = <<>>
<1>1. half = "length" \/ half = "body"
  BY DEF Calling
<1>2. CASE half = "length"
  <2>1. replies \in {<<>>, <<"length">>, Reply}
    BY <1>2 DEF Call
  <2>2. replies # <<>> => /\ Head(replies) = "length" /\ Tail(replies) \in {<<>>, <<"body">>}
                          /\ requests = <<>>
    BY <1>2, <2>1, OneMessage, ReplyHalves DEF Call
  <2> QED BY <1>2, <2>2 DEF ReceiveGarbled, ReceiveOk
<1>3. CASE half = "body"
  <2>1. requests = <<>> /\ replies \in {<<>>, <<"body">>}
    BY <1>3 DEF Call
  <2>2. replies # <<>> => Head(replies) = "body" /\ Tail(replies) = <<>>
    BY <2>1, OneMessage
  <2> QED BY <1>3, <2>1, <2>2 DEF ReceiveGarbled, ReceiveOk
<1> QED BY <1>1, <1>2, <1>3

\* Without a race the callbacks keep the conversation to one request or one reply.
LEMMA LoneCallback ==
  ASSUME TypeInv, Lone, Callback, ~raced'
  PROVE  Lone'
<1> USE DEF Lone, Alone, ThreadCall, StopCall, Calling, Quiet, Streams, Sent, StopMeant, Stopped,
            mutexFree
<1>1. ASSUME NEW n \in 1 .. MaxPoints, ReceiveTrajectory(n)
      PROVE  Lone'
  <2>1. OneRequest'
    BY <1>1, StreamerAssumption
       DEF ReceiveTrajectory, OneRequest, Follows, connectionVars, robotVars, TypeInv, StreamerType
  <2>2. Quiet' /\ StopMeant'
    BY <1>1 DEF ReceiveTrajectory, connectionVars, robotVars, TypeInv, StreamerType, HistoryType,
                RobotType
  <2> QED BY <1>1, <2>1, <2>2 DEF ReceiveTrajectory, connectionVars
<1>2. CASE StopSend
  <2>1. CASE SendOk(Stop(traj))
    <3>1. requests = <<>> /\ replies = <<>> /\ connected_
      BY <1>2, <2>1 DEF StopSend, CallbackOnly, SendOk
    <3>2. requests' \in {<<>>, <<Stop(traj)>>} /\ replies' = <<>> /\ connected_' /\ ~garbled'
      BY <2>1, <3>1, OneMessage DEF SendOk
    <3>3. cbPc' = "length"
      BY <1>2, <2>1 DEF StopSend, SendOk, SendFails
    <3>4. OneRequest'
      BY <1>2, <3>2, <3>3, StreamerAssumption
         DEF StopSend, CallbackOnly, OneRequest, IsPoint, TypeInv, StreamerType, trajVars
    <3> QED BY <1>2, <3>2, <3>3, <3>4 DEF StopSend, CallbackOnly, Call, trajVars, robotVars
  <2>2. CASE SendFails /\ cbPc' = "stopped"
    <3>1. OneRequest'
      BY <1>2, <2>2
         DEF StopSend, CallbackOnly, SendFails, OneRequest, Follows, IsPoint, trajVars, robotVars
    <3> QED BY <1>2, <2>2, <3>1 DEF StopSend, CallbackOnly, SendFails, trajVars, robotVars
  <2> QED BY <1>2, <2>1, <2>2 DEF StopSend
<1>3. CASE StopReceive
  <2>1. OneRequest'
    BY <1>3, ReceiveTyped
       DEF StopReceive, CallbackOnly, OneRequest, Follows, IsPoint, trajVars, robotVars, TypeInv
  <2>2. ReceiveOk(cbPc) \/ ReceiveFails
    BY <1>3, CallReceives DEF StopReceive
  <2>3. CASE ReceiveOk(cbPc)
    <3>1. replies' \in {<<>>, <<"body">>} /\ requests' = <<>> /\ connected_' = connected_ /\ ~garbled'
          /\ (cbPc = "body" => replies' = <<>>)
      BY <1>3, <2>3, CallReceives DEF StopReceive, ReceiveOk
    <3> QED BY <1>3, <2>1, <2>3, <3>1
            DEF StopReceive, CallbackOnly, trajVars, robotVars, Call, ReceiveOk, ReceiveFails,
                ReceiveGarbled
  <2>4. CASE ReceiveFails
    <3>1. connected_ /\ connected_' = FALSE /\ ~garbled'
      BY <1>3, <2>4 DEF StopReceive, ReceiveFails, Call
    <3>2. ~ReceiveOk(cbPc)
      BY <3>1 DEF ReceiveOk
    <3>3. cbPc' = "stopped"
      BY <1>3, <3>2, CallReceives DEF StopReceive
    <3> QED BY <1>3, <2>1, <3>1, <3>3 DEF StopReceive, CallbackOnly, trajVars, robotVars
  <2> QED BY <2>2, <2>3, <2>4
<1>4. CASE StopIdle
  <2>1. OneRequest'
    BY <1>4
       DEF StopIdle, CallbackOnly, OneRequest, Follows, IsPoint, trajVars, robotVars, connectionVars
  <2> QED BY <1>4, <2>1 DEF StopIdle, CallbackOnly, connectionVars, trajVars, robotVars
<1> QED BY <1>1, <1>2, <1>3, <1>4 DEF Callback

\* The newest point is one that the robot may receive next.
LEMMA NewestFollows ==
  ASSUME TypeInv, OrderInv, Lone, threadPc = "send", ~raced
  PROVE  Newest \in Message /\ Follows(Newest)
<1>1. Newest \in Message
  BY StreamerAssumption DEF TypeInv, StreamerType, Busy, Newest
<1>2. stopGot < traj
  <2>1. ~Stopped
    BY DEF Lone, Alone, mutexFree, Streams, Stopped
  <2>2. stopGot <= traj /\ stopGot # traj
    BY <2>1 DEF Lone, StopMeant
  <2>3. stopGot \in Int /\ traj \in Int
    BY StreamerAssumption DEF TypeInv, StreamerType, HistoryType, RobotType
  <2> QED BY <2>2, <2>3
<1>3. CASE current_point_ = 0
  BY <1>1, <1>2, <1>3 DEF Follows, Newest
<1>4. CASE current_point_ > 0
  <2>1. /\ lastGot.traj \in Int /\ lastGot.seq \in Int /\ traj \in Int /\ current_point_ \in Int
        /\ lastGot = Point(lastGot.traj, lastGot.seq)
    BY StreamerAssumption DEF TypeInv, StreamerType, HistoryType, RobotType
  <2>2. Older(Point(traj, current_point_ - 1), lastGot) /\ Older(lastGot, Newest)
    BY <1>4 DEF Lone, Sent, OrderInv
  <2>3. lastGot.traj = traj /\ lastGot.seq \in {current_point_ - 1, current_point_}
    BY <2>1, <2>2 DEF Older, Newest
  <2> QED BY <1>1, <1>2, <2>1, <2>3 DEF Follows, Newest
<1> QED BY <1>3, <1>4, StreamerAssumption DEF TypeInv, StreamerType

\* So does the thread, through retries and reconnections.
LEMMA LoneThread ==
  ASSUME TypeInv, OrderInv, Lone, Thread, ~raced'
  PROVE  Lone'
<1> USE DEF Lone, Alone, ThreadCall, StopCall, Calling, Quiet, Streams, Sent, StopMeant, Stopped,
            mutexFree
<1>1. CASE ThreadConnect
  <2>1. CASE connected_ /\ UNCHANGED connectionVars
    <3>1. OneRequest'
      BY <1>1, <2>1 DEF ThreadConnect, ThreadOnly, OneRequest, Follows, IsPoint, trajVars,
                        robotVars, connectionVars
    <3> QED BY <1>1, <2>1, <3>1
            DEF ThreadConnect, ThreadOnly, Call, trajVars, robotVars, connectionVars
  <2>2. CASE requests' = <<>> /\ replies' = <<>> /\ ~garbled' /\ ~connected_
    BY <1>1, <2>2 DEF ThreadConnect, ThreadOnly, OneRequest, Call, trajVars, robotVars
  <2> QED BY <1>1, <2>1, <2>2 DEF ThreadConnect, makeConnect
<1>2. CASE ThreadConnected
  <2>1. OneRequest'
    BY <1>2 DEF ThreadConnected, ThreadOnly, OneRequest, Follows, IsPoint, trajVars, robotVars,
                connectionVars
  <2> QED BY <1>2, <2>1
          DEF ThreadConnected, ThreadOnly, Call, trajVars, robotVars, connectionVars
<1>3. CASE ThreadSwitch
  <2>1. OneRequest'
    BY <1>3 DEF ThreadSwitch, ThreadOnly, OneRequest, Follows, IsPoint, trajVars, robotVars,
                connectionVars
  <2> QED BY <1>3, <2>1
          DEF ThreadSwitch, ThreadOnly, Call, trajVars, robotVars, connectionVars
<1>4. CASE ThreadSend
  <2>1. CASE SendOk(Newest) /\ threadPc' = "length" /\ UNCHANGED current_point_
    <3>1. requests = <<>> /\ replies = <<>> /\ connected_ /\ cbPc = "idle"
      BY <1>4, <2>1 DEF ThreadSend, SendOk
    <3>2. requests' \in {<<>>, <<Newest>>} /\ replies' = <<>> /\ connected_' /\ ~garbled'
      BY <2>1, <3>1, OneMessage DEF SendOk
    <3>3. Newest \in Message /\ Follows(Newest) /\ IsPoint(Newest)
      BY <1>4, NewestFollows, StreamerAssumption
         DEF ThreadSend, IsPoint, Newest, TypeInv, StreamerType
    <3>4. Newest' = Newest /\ UNCHANGED <<lastGot, stopGot, traj, state_, cbPc>>
      BY <1>4, <2>1 DEF ThreadSend, ThreadOnly, Newest, trajVars, robotVars
    <3>5. OneRequest'
      BY <3>2, <3>3, <3>4 DEF OneRequest, Follows, IsPoint
    <3> QED BY <1>4, <2>1, <3>1, <3>2, <3>4, <3>5 DEF ThreadSend, Call
  <2>2. CASE SendFails /\ ThreadReturn(FALSE)
    <3>1. OneRequest'
      BY <1>4, <2>2 DEF ThreadSend, ThreadOnly, SendFails, OneRequest, Follows, IsPoint,
                        trajVars, robotVars
    <3> QED BY <1>4, <2>2, <3>1 DEF ThreadSend, ThreadOnly, SendFails, ThreadReturn, Advance,
                                   trajVars, robotVars
  <2> QED BY <1>4, <2>1, <2>2 DEF ThreadSend, Newest
<1>5. CASE ThreadReceive
  <2>1. OneRequest'
    BY <1>5, ReceiveTyped DEF ThreadReceive, ThreadOnly, OneRequest, Follows, IsPoint, trajVars,
                              robotVars, TypeInv
  <2>2. /\ threadPc \in {"length", "body"} /\ cbPc = "idle"
        /\ connected_ /\ Call(threadPc, Newest) /\ ~garbled
    BY <1>5 DEF ThreadReceive, Call
  <2>3. ~ReceiveGarbled(threadPc)
    BY <2>2, CallReceives
  <2>4. CASE ReceiveOk(threadPc)
    <3>1. /\ replies # <<>> /\ requests' = <<>> /\ connected_' /\ ~garbled'
          /\ threadPc = "length" => replies' \in {<<>>, <<"body">>}
          /\ threadPc = "body" => replies' = <<>>
      BY <2>2, <2>4, CallReceives DEF ReceiveOk
    <3>2. ~ReceiveFails
      BY <3>1 DEF ReceiveFails
    <3>3. UNCHANGED <<traj, lastGot, stopGot, state_, cbPc>> /\ lastGot = Newest
      BY <1>5, <3>1 DEF ThreadReceive, ThreadOnly, trajVars, robotVars
    <3>4. CASE threadPc = "length"
      <4>1. threadPc' = "body" /\ UNCHANGED current_point_
        BY <1>5, <2>3, <3>2, <3>4 DEF ThreadReceive
      <4> QED BY <2>1, <2>2, <3>1, <3>3, <3>4, <4>1 DEF Call, Newest
    <3>5. CASE threadPc = "body"
      <4>1. threadPc' = "top" /\ current_point_' = current_point_ + 1
        BY <1>5, <2>3, <3>2, <3>5 DEF ThreadReceive, ThreadReturn, Advance
      <4>2. Sent'
        BY <3>3, <4>1, StreamerAssumption DEF Newest, Older, TypeInv, StreamerType
      <4> QED BY <2>1, <2>2, <3>1, <3>3, <3>5, <4>1, <4>2
    <3> QED BY <2>2, <3>4, <3>5
  <2>5. CASE ReceiveFails
    <3>1. connected_' = FALSE /\ ~garbled'
      BY <2>5 DEF ReceiveFails
    <3>2. ~ReceiveOk(threadPc)
      BY <2>2, <3>1 DEF ReceiveOk
    <3>3. ThreadReturn(FALSE)
      BY <1>5, <2>3, <3>2 DEF ThreadReceive
    <3> QED BY <1>5, <2>1, <2>2, <3>1, <3>3
            DEF ThreadReceive, ThreadOnly, ThreadReturn, Advance, trajVars, robotVars
  <2> QED BY <1>5, <2>3, <2>4, <2>5 DEF ThreadReceive
<1> QED BY <1>1, <1>2, <1>3, <1>4, <1>5 DEF Thread

\* The robot takes the only request: the newest point, the STOP, or the point of a call
\* that failed.
LEMMA LoneReceives ==
  ASSUME TypeInv, OrderInv, Lone, RobotReceives, ~raced
  PROVE  Lone' /\ (lastGot' # lastGot => Follows(lastGot'))
<1> USE DEF Lone, Alone, ThreadCall, StopCall, Calling, Quiet, Streams, Sent, StopMeant, Stopped,
            mutexFree
<1>1. PICK m \in Message : /\ requests = <<m>>
                           /\ IsPoint(m) => Follows(m)
                           /\ ~IsPoint(m) => m.traj <= traj /\ (m.traj = traj => Stopped)
  BY DEF RobotReceives, Answer, OneRequest
<1>2. Head(requests) = m /\ requests' = <<>> /\ requests # <<>>
  BY <1>1, OneMessage DEF RobotReceives, Answer
<1>3. UNCHANGED <<connected_, garbled, state_, current_point_, traj, threadPc, cbPc, raced>>
  BY DEF RobotReceives, Answer, trajVars
<1>4. /\ IsPoint(m)  => lastGot' = m /\ stopGot' = stopGot
      /\ ~IsPoint(m) => lastGot' = lastGot /\ stopGot' = m.traj
  BY <1>2 DEF RobotReceives, IsPoint
<1>5. replies = <<>> => replies' \in {<<>>, Reply}
  BY ReplyHalves DEF RobotReceives, Answer
<1>6. IsPoint(m) \/ m = Stop(m.traj)
  BY <1>1 DEF IsPoint
<1>7. ThreadCall'
  <2> SUFFICES ASSUME Calling(threadPc) PROVE ThreadCall'
    BY <1>3
  <2>1. threadPc = "length" /\ m = Newest /\ replies = <<>> /\ connected_
    BY <1>1, <1>2, OneMessage DEF Call
  <2>2. IsPoint(m)
    BY <2>1, StreamerAssumption DEF IsPoint, Newest, TypeInv, StreamerType
  <2>3. Newest' = Newest
    BY <1>3 DEF Newest
  <2> QED BY <1>2, <1>3, <1>4, <1>5, <2>1, <2>2, <2>3 DEF Call
<1>8. StopCall'
  <2> SUFFICES ASSUME Calling(cbPc) PROVE StopCall'
    BY <1>3
  <2>1. cbPc = "length" /\ replies = <<>> /\ connected_
    BY <1>1, <1>2, OneMessage DEF Call
  <2> QED BY <1>2, <1>3, <1>5, <2>1 DEF Call
<1>9. Quiet'
  BY <1>2, <1>3
<1>10. StopMeant'
  BY <1>1, <1>3, <1>4
<1>11. Sent'
  <2> SUFFICES ASSUME current_point_ > 0
               PROVE  Older(Point(traj, current_point_ - 1), lastGot')
    BY <1>3
  <2>1. Older(lastGot, lastGot')
    BY ReceiveInOrder
  <2>2. /\ Point(traj, current_point_ - 1) \in Number /\ lastGot \in Number /\ lastGot' \in Number
    BY <1>1, <1>4, Numbers, StreamerAssumption DEF TypeInv, StreamerType, Number
  <2>3. Older(Point(traj, current_point_ - 1), lastGot)
    OBVIOUS
  <2> QED BY <2>1, <2>2, <2>3, OlderTransitive
<1>12. OneRequest'
  BY <1>2 DEF OneRequest
<1> QED BY <1>1, <1>3, <1>4, <1>7, <1>8, <1>9, <1>10, <1>11, <1>12

\* The connection is lost, with the request or a part of the reply.
LEMMA LoneLoses ==
  ASSUME TypeInv, Lone, NetworkFails
  PROVE  Lone'
<1> USE DEF Lone, Alone, ThreadCall, StopCall, Calling, Quiet, Streams, Sent, StopMeant, Stopped,
            mutexFree
<1>1. /\ requests = <<>> => requests' = <<>>
      /\ \A m : requests = <<m>> => requests' \in {<<>>, <<m>>}
  BY Prefixes DEF NetworkFails, LoseConnection
<1>2. /\ replies = <<>> => replies' = <<>>
      /\ \A half : replies = <<half>> => replies' \in {<<>>, <<half>>}
      /\ replies = Reply => replies' \in {<<>>, <<"length">>, Reply}
  BY Prefixes DEF NetworkFails, LoseConnection
<1>3. UNCHANGED <<connected_, garbled, state_, current_point_, traj, threadPc, cbPc, raced,
                  lastGot, stopGot>>
  BY DEF NetworkFails, LoseConnection, trajVars, robotVars
<1>4. ASSUME NEW half, NEW m, Call(half, m)
      PROVE  Call(half, m)' /\ (replies' # <<>> => replies # <<>>)
  BY <1>1, <1>2, <1>3, <1>4, ReplyHalves, OneMessage DEF Call
<1>5. OneRequest'
  BY <1>1, <1>3 DEF OneRequest, Follows, IsPoint
<1> QED BY <1>1, <1>2, <1>3, <1>4, <1>5 DEF Newest

\* Whoever stopped the robot while the thread was sending, it stays known.
LEMMA RacedStays == TypeInv /\ [Next]_vars /\ ~raced' => ~raced
<1> SUFFICES ASSUME TypeInv, [Next]_vars, ~raced'
             PROVE  ~raced
  OBVIOUS
<1>1. CASE raced' = raced
  BY <1>1
<1>2. CASE StopSend
  BY <1>2 DEF StopSend
<1>3. CASE ThreadSwitch
  BY <1>3 DEF ThreadSwitch
<1> QED BY <1>1, <1>2, <1>3
        DEF Next, Callback, ReceiveTrajectory, StopReceive, StopIdle, Thread, ThreadConnect,
            ThreadConnected, ThreadSend, ThreadReceive, RobotReceives, NetworkFails, vars

\* Every step keeps what counts as sent, and the point that arrives follows the one
\* before it.
LEMMA SentNext ==
  ASSUME TypeInv, OrderInv, SentInv, [Next]_vars
  PROVE  SentInv' /\ (lastGot' # lastGot /\ ~raced => Follows(lastGot'))
<1>1. CASE UNCHANGED vars
  BY <1>1 DEF vars, connectionVars, trajVars, robotVars, SentInv, Lone, Alone, mutexFree, ThreadCall,
              Call, Newest, StopCall, Quiet, StopMeant, Stopped, Streams, OneRequest, Follows, IsPoint,
              Sent
<1>2. CASE raced'
  <2>1. ~raced => UNCHANGED lastGot \/ RobotReceives
    BY DEF Next, Callback, ReceiveTrajectory, StopSend, StopReceive, StopIdle, CallbackOnly, Thread,
           ThreadConnect, ThreadConnected, ThreadSwitch, ThreadSend, ThreadReceive, ThreadOnly,
           NetworkFails, vars, robotVars
  <2> QED BY <1>2, <2>1, LoneReceives DEF SentInv
<1>3. CASE ~raced'
  <2>1. ~raced /\ Lone
    BY <1>3, RacedStays DEF SentInv
  <2>2. CASE Callback \/ Thread \/ NetworkFails
    <3>1. UNCHANGED lastGot
      BY <2>2
         DEF Callback, ReceiveTrajectory, StopSend, StopReceive, StopIdle, CallbackOnly, Thread,
             ThreadConnect, ThreadConnected, ThreadSwitch, ThreadSend, ThreadReceive, ThreadOnly,
             NetworkFails, robotVars
    <3>2. Lone'
      BY <1>3, <2>1, <2>2, LoneCallback, LoneThread, LoneLoses
    <3> QED BY <3>1, <3>2 DEF SentInv
  <2>3. CASE RobotReceives
    BY <2>1, <2>3, LoneReceives DEF SentInv
  <2> QED BY <1>1, <2>2, <2>3 DEF Next
<1> QED BY <1>2, <1>3

\* The invariants hold throughout.
LEMMA StreamerInvariant == Spec => [](TypeInv /\ OrderInv /\ SentInv)
<1>1. Init => SentInv
  BY LoneInit DEF SentInv
<1>2. TypeInv /\ OrderInv /\ SentInv /\ [Next]_vars => (TypeInv /\ OrderInv /\ SentInv)'
  BY TypeNext, OrderNext, SentNext
<1> QED BY <1>1, <1>2, TypeInit, OrderInit, PTL DEF Spec

\* A point that sendAndReceiveMsg counted as sent was received by the robot, whatever
\* connections were lost meanwhile, as long as no callback sent a STOP while the streaming
\* thread had mutex_ and used the connection.
THEOREM SentWasReceived == Spec => []SentMeansReceived
<1>1. SentInv => SentMeansReceived
  BY DEF SentInv, Lone, Sent, SentMeansReceived
<1> QED BY <1>1, StreamerInvariant, PTL

\* As long as that is so, the robot receives the points of a trajectory without a gap, from
\* the first, and none of a trajectory whose STOP it has received.
THEOREM NoPointLeftOut == Spec => NoGap
<1> DEFINE Step == LET p == lastGot'
                   IN  p # lastGot /\ ~raced
                       => /\ p.traj > stopGot
                          /\ p.seq = 0 \/ p = Point(lastGot.traj, lastGot.seq + 1)
<1>1. TypeInv /\ OrderInv /\ SentInv /\ [Next]_vars => [Step]_vars
  BY SentNext DEF Follows
<1> QED BY <1>1, StreamerInvariant, PTL DEF Spec, NoGap
=============================================================================
