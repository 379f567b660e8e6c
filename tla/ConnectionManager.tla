--------------------------- MODULE ConnectionManager ---------------------------
(***************************************************************************)
(* SimpleSocketManager, TcpClientManager and TcpServerManager: for every   *)
(* connection of the middleware a task that connects it, sleeps on a       *)
(* condition variable, and connects it again when a call that failed wakes *)
(* it up.  The state connection has the motion connection for a friend.    *)
(***************************************************************************)
CONSTANTS
  Clients, Servers,   \* connections to the controller, and for clients
  Friend              \* the friend of those that have one

NoFriend    == "none"
Connections == Clients \union Servers

ASSUME ManagerAssumption ==
  /\ Clients \intersect Servers = {}
  /\ Friend \in [Connections -> Connections \union {NoFriend}]

\* RobotDriver::init and RobotServerProxy::init: a connection for motion and one for the
\* state to the robot, and to a client.
RobotClients == {"motion_client", "state_client"}
RobotServers == {"motion_server", "state_server"}

\* setFriendConnection
RobotFriend == [c \in RobotClients \union RobotServers |->
                  IF c = "state_client" THEN "motion_client" ELSE NoFriend]

VARIABLES
  connected_,        \* SimpleSocket::connected_
  connected_once_,
  reachable,         \* the peer accepts a connection (or asks for one)
  taskPc,            \* where connectionTask is
  userPc,            \* what the user of the connection does: "idle", "call",
                     \* "failed", or "orphan": a call on a replaced socket
  missed,            \* history: tasks not told of a loss: notified between their
                     \* test and their wait, or lost by an orphan
  outlived           \* history: connections whose friend is older than their
                     \* newest loss

vars == <<connected_, connected_once_, reachable, taskPc, userPc, missed, outlived>>

Set(f, c, v) == [f EXCEPT ![c] = v]

Init ==
  /\ connected_ = [c \in Connections |-> FALSE]
  /\ connected_once_ = [c \in Connections |-> FALSE]
  /\ reachable = [c \in Connections |-> FALSE]
  /\ taskPc = [c \in Connections |-> "test"]
  /\ userPc = [c \in Connections |-> "idle"]
  /\ missed = {} /\ outlived = {}

-----------------------------------------------------------------------------
(* connectionTask.                                                         *)

TaskStep(c, from, to) == taskPc[c] = from /\ taskPc' = Set(taskPc, c, to)

Test(c) ==
  /\ TaskStep(c, "test", IF connected_[c] THEN "sleep" ELSE "friend")
  /\ UNCHANGED <<connected_, connected_once_, reachable, userPc, missed, outlived>>

\* The wait has no predicate: what was lost since Test is not seen.
Sleep(c) ==
  /\ TaskStep(c, "sleep", "asleep")
  /\ UNCHANGED <<connected_, connected_once_, reachable, userPc, missed, outlived>>

\* notify_one on the condition variable of connection c.
Woken(c) == IF taskPc[c] = "asleep" THEN Set(taskPc, c, "test") ELSE taskPc
Miss(c)  == missed' = IF taskPc[c] = "sleep" THEN missed \union {c} ELSE missed \ {c}

\* Mutant: the friend is left alone while it connects.
keepFriend(c) == Friend[c] # NoFriend /\ connected_[Friend[c]] /\ ~connected_once_[c]

\* A friend that is connected now is older than a loss of c (a loss before connect()
\* returns does not count: connect() itself tries again), and is no longer once c, its
\* own, is lost.
Outlive(c) == (IF /\ Friend[c] # NoFriend /\ connected_[c] /\ taskPc[c] # "made"
                  /\ connected_[Friend[c]]
               THEN outlived \union {c} ELSE outlived) \ {d \in Connections : Friend[d] = c}

\* The friend is connected, and has to connect again.
disconnectsFriend(c) == Friend[c] # NoFriend /\ connected_[Friend[c]]

CloseFriend(c) ==
  /\ taskPc[c] = "friend"
  /\ IF disconnectsFriend(c)
     THEN /\ connected_' = Set(connected_, Friend[c], FALSE)
          /\ taskPc' = Set(Woken(Friend[c]), c, "connect")
          /\ outlived' = Outlive(Friend[c]) /\ Miss(Friend[c])
     ELSE taskPc' = Set(taskPc, c, "connect") /\ UNCHANGED <<connected_, missed, outlived>>
  /\ UNCHANGED <<connected_once_, reachable, userPc>>

\* A client that was connected before gets a new socket (init) ...
renewsSocket(c) == connected_once_[c] /\ c \in Clients

\* ... in connect(), whoever still uses the old one.
Reinit(c) ==
  /\ taskPc[c] = "connect"
  /\ IF connected_[c] THEN taskPc' = Set(taskPc, c, "test")
     ELSE taskPc' = Set(taskPc, c, "try")
  /\ userPc' = IF ~connected_[c] /\ renewsSocket(c) /\ userPc[c] = "call"
               THEN Set(userPc, c, "orphan") ELSE userPc
  /\ UNCHANGED <<connected_, connected_once_, reachable, missed, outlived>>

\* It tries until it is connected and still is a quarter of a second later.
Try(c) ==
  /\ taskPc[c] = "try"
  /\ IF reachable[c]
     THEN connected_' = Set(connected_, c, TRUE) /\ taskPc' = Set(taskPc, c, "made")
     ELSE UNCHANGED <<connected_, taskPc>>
  /\ UNCHANGED <<connected_once_, reachable, userPc, missed, outlived>>

Made(c) ==
  /\ TaskStep(c, "made", IF connected_[c] THEN "test" ELSE "try")
  /\ connected_once_' = Set(connected_once_, c, connected_once_[c] \/ connected_[c])
  /\ UNCHANGED <<connected_, reachable, userPc, missed, outlived>>

Task(c) == Test(c) \/ Sleep(c) \/ CloseFriend(c) \/ Reinit(c) \/ Try(c) \/ Made(c)

-----------------------------------------------------------------------------
(* The users of a connection: sendMsg, receiveMsg, sendAndReceiveMsg.      *)

\* They look at isConnected first.
Call(c) ==
  /\ userPc[c] = "idle" /\ connected_[c]
  /\ userPc' = Set(userPc, c, "call")
  /\ UNCHANGED <<connected_, connected_once_, reachable, taskPc, missed, outlived>>

CallOk(c) ==
  /\ userPc[c] = "call"
  /\ userPc' = Set(userPc, c, "idle")
  /\ UNCHANGED <<connected_, connected_once_, reachable, taskPc, missed, outlived>>

\* Mutant: the task is not told of a connection that was lost.
failQuietly(c) == userPc' = Set(userPc, c, "idle")

mustNotify(c) == userPc' = Set(userPc, c, "failed")

CallFails(c) ==
  /\ userPc[c] = "call"
  /\ connected_' = Set(connected_, c, FALSE)
  /\ mustNotify(c)
  /\ outlived' = Outlive(c)
  /\ UNCHANGED <<connected_once_, reachable, taskPc, missed>>

\* What becomes of a call on a socket that is gone is undefined.
OrphanEnds(c) ==
  /\ userPc[c] = "orphan"
  /\ connected_' \in {connected_, Set(connected_, c, FALSE)}
  /\ userPc' \in {Set(userPc, c, "idle"), Set(userPc, c, "failed")}
  /\ outlived' = IF connected_'[c] THEN outlived ELSE Outlive(c)
  /\ missed' = missed \union {c}
  /\ UNCHANGED <<connected_once_, reachable, taskPc>>

NotifyLost(c) ==
  /\ userPc[c] = "failed"
  /\ userPc' = Set(userPc, c, "idle")
  /\ taskPc' = Woken(c) /\ Miss(c)
  /\ UNCHANGED <<connected_, connected_once_, reachable, outlived>>

User(c) == Call(c) \/ CallOk(c) \/ CallFails(c) \/ OrphanEnds(c) \/ NotifyLost(c)

-----------------------------------------------------------------------------
\* The peer comes and goes.
PeerChanges(c) ==
  /\ reachable' = Set(reachable, c, ~reachable[c])
  /\ UNCHANGED <<connected_, connected_once_, taskPc, userPc, missed, outlived>>

Next == \E c \in Connections : Task(c) \/ User(c) \/ PeerChanges(c)

\* Tasks run, and who began a call ends it.
Fairness == \A c \in Connections : WF_vars(Task(c)) /\ WF_vars(NotifyLost(c))

Spec == Init /\ [][Next]_vars /\ Fairness
-----------------------------------------------------------------------------
\* Once a connection that was lost is up again, its friend is not the connection that
\* was up at the loss: that was closed.  (Not so if the connection is lost while
\* connect() still waits whether it lasts.)
FriendFollows == \A c \in outlived : ~connected_[c]

\* The task sleeps although the connection is lost, because the notification came
\* between Test and Sleep.
Overslept(c) == taskPc[c] = "asleep" /\ ~connected_[c] /\ c \in missed

\* A connection that is down is made again if its peer stays reachable, unless
\* the notification was lost.
Repaired == \A c \in Connections :
  <>[]reachable[c] => []<>(connected_[c] \/ Overslept(c))
=============================================================================
