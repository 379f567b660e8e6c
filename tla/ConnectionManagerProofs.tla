------------------------ MODULE ConnectionManagerProofs ------------------------
(***************************************************************************)
(* A connection and its friend, for any clients, servers and friends, also *)
(* where several have the same friend or a friend has one.                 *)
(***************************************************************************)
EXTENDS ConnectionManager, TLAPS

\* Where a task is while its connection is down, and makes it.
Making == {"friend", "connect", "try"}
Lines  == {"test", "sleep", "asleep", "made"} \union Making

TypeInv ==
  /\ connected_ \in [Connections -> BOOLEAN]
  /\ taskPc \in [Connections -> Lines]
  /\ outlived \subseteq Connections

\* Only the task connects, so a connection that it makes is down ...
MakingDown == \A c \in Connections : taskPc[c] \in Making => ~connected_[c]

\* ... and one whose friend is older than its loss is down, the friend still up, and the
\* task has yet to look at the friend.
FriendToClose == \A c \in outlived :
  /\ ~connected_[c] /\ connected_[Friend[c]]
  /\ Friend[c] \in Connections /\ Friend[c] # NoFriend
  /\ taskPc[c] \in {"test", "sleep", "asleep", "friend"}

Inv == TypeInv /\ MakingDown /\ FriendToClose
-----------------------------------------------------------------------------
\* The friend of a connection is one of the connections.
LEMMA FriendType == \A c \in Connections : Friend[c] # NoFriend => Friend[c] \in Connections
BY ManagerAssumption

LEMMA InvInit == Init => Inv
BY DEF Init, Inv, TypeInv, MakingDown, FriendToClose, Lines, Making

\* What the loss of a connection does: nothing that is made is up, and the connection
\* joins those that outlived their friend unless its task still waits in connect().
LEMMA Loss ==
  ASSUME Inv, NEW c \in Connections, connected_' = Set(connected_, c, FALSE),
         outlived' = Outlive(c), taskPc[c] \notin Making \/ ~connected_[c]
  PROVE  /\ connected_' \in [Connections -> BOOLEAN] /\ outlived' \subseteq Connections
         /\ \A d \in Connections : connected_'[d] => connected_[d]
         /\ \A d \in outlived' :
              /\ ~connected_'[d] /\ connected_'[Friend[d]]
              /\ Friend[d] \in Connections /\ Friend[d] # NoFriend
              /\ taskPc[d] \in {"test", "sleep", "asleep", "friend"}
<1>1. /\ connected_' \in [Connections -> BOOLEAN] /\ ~connected_'[c]
      /\ \A d \in Connections \ {c} : connected_'[d] = connected_[d]
  BY DEF Inv, TypeInv, Set
<1>2. outlived' \subseteq Connections
  BY DEF Outlive, Inv, TypeInv
<1>3. ASSUME NEW d \in outlived'
      PROVE  /\ ~connected_'[d] /\ connected_'[Friend[d]]
             /\ Friend[d] \in Connections /\ Friend[d] # NoFriend
             /\ taskPc[d] \in {"test", "sleep", "asleep", "friend"}
  <2>1. d \in Connections /\ Friend[d] # c
    BY <1>2 DEF Outlive
  <2>2. CASE d \in outlived
    BY <1>1, <2>1, <2>2 DEF Inv, FriendToClose
  <2>3. CASE /\ d = c /\ Friend[c] # NoFriend /\ connected_[c] /\ taskPc[c] # "made"
             /\ connected_[Friend[c]]
    <3>1. taskPc[c] \in Lines /\ taskPc[c] \notin Making
      BY <2>3 DEF Inv, TypeInv
    <3>2. Friend[c] \in Connections /\ Friend[c] # c
      BY <2>1, <2>3, FriendType
    <3> QED BY <1>1, <2>3, <3>1, <3>2 DEF Lines, Making
  <2> QED BY <2>2, <2>3 DEF Outlive
<1> QED BY <1>1, <1>2, <1>3

\* What a notification does: a task that waits looks again.
LEMMA Wakes ==
  ASSUME Inv, NEW c \in Connections
  PROVE  /\ Woken(c) \in [Connections -> Lines]
         /\ \A d \in Connections : \/ Woken(c)[d] = taskPc[d]
                                   \/ taskPc[d] = "asleep" /\ Woken(c)[d] = "test"
<1>1. taskPc \in [Connections -> Lines]
  BY DEF Inv, TypeInv
<1>2. CASE taskPc[c] = "asleep"
  BY <1>1, <1>2 DEF Woken, Set, Lines
<1>3. CASE taskPc[c] # "asleep"
  BY <1>1, <1>3 DEF Woken
<1> QED BY <1>2, <1>3

\* Before it connects anew a task closes the friend, which then has not outlived the loss.
LEMMA InvCloseFriend ==
  ASSUME Inv, NEW c \in Connections, CloseFriend(c)
  PROVE  Inv'
<1>1. CASE /\ disconnectsFriend(c) /\ connected_' = Set(connected_, Friend[c], FALSE)
           /\ taskPc' = Set(Woken(Friend[c]), c, "connect") /\ outlived' = Outlive(Friend[c])
  <2>1. PICK f \in Connections : f = Friend[c] /\ connected_[f] /\ taskPc[f] \notin Making
    BY <1>1, FriendType DEF disconnectsFriend, Inv, MakingDown
  <2>2. /\ connected_' \in [Connections -> BOOLEAN] /\ outlived' \subseteq Connections
        /\ \A d \in Connections : connected_'[d] => connected_[d]
        /\ \A d \in outlived' :
             /\ ~connected_'[d] /\ connected_'[Friend[d]]
             /\ Friend[d] \in Connections /\ Friend[d] # NoFriend
             /\ taskPc[d] \in {"test", "sleep", "asleep", "friend"}
    BY <1>1, <2>1, Loss
  <2>3. /\ taskPc' \in [Connections -> Lines] /\ taskPc'[c] = "connect"
        /\ \A d \in Connections \ {c} : \/ taskPc'[d] = taskPc[d]
                                        \/ taskPc[d] = "asleep" /\ taskPc'[d] = "test"
    BY <1>1, <2>1, Wakes DEF Set, Lines, Making
  <2>4. c \notin outlived'
    BY <1>1 DEF Outlive
  <2>5. TypeInv'
    BY <2>2, <2>3 DEF TypeInv
  <2>6. MakingDown'
    BY <2>2, <2>3 DEF CloseFriend, Inv, MakingDown, Making
  <2>7. FriendToClose'
    BY <2>2, <2>3, <2>4 DEF FriendToClose
  <2> QED BY <2>5, <2>6, <2>7 DEF Inv
<1>2. CASE /\ ~disconnectsFriend(c) /\ taskPc' = Set(taskPc, c, "connect")
           /\ UNCHANGED <<connected_, outlived>>
  <2>1. c \notin outlived
    BY <1>2 DEF disconnectsFriend, Inv, FriendToClose
  <2> QED BY <1>2, <2>1 DEF CloseFriend, Inv, TypeInv, MakingDown, FriendToClose, Set, Lines, Making
<1> QED BY <1>1, <1>2 DEF CloseFriend

\* No line of a task disturbs what is known of its own connection or of another that
\* shares its friend.
LEMMA InvTask ==
  ASSUME Inv, NEW c \in Connections, Task(c)
  PROVE  Inv'
<1> USE DEF Inv, TypeInv, MakingDown, FriendToClose, TaskStep, Set, Lines, Making
<1>1. CASE Test(c)
  BY <1>1 DEF Test
<1>2. CASE Sleep(c)
  BY <1>2 DEF Sleep
<1>3. CASE CloseFriend(c)
  BY <1>3, InvCloseFriend
<1>4. CASE Reinit(c)
  BY <1>4 DEF Reinit
<1>5. CASE Try(c)
  <2>1. c \notin outlived
    BY <1>5 DEF Try
  <2>2. CASE connected_' = Set(connected_, c, TRUE) /\ taskPc' = Set(taskPc, c, "made")
    <3>1. /\ connected_' \in [Connections -> BOOLEAN] /\ taskPc' \in [Connections -> Lines]
          /\ connected_'[c] /\ taskPc'[c] = "made"
          /\ \A d \in Connections \ {c} : connected_'[d] = connected_[d] /\ taskPc'[d] = taskPc[d]
      BY <2>2
    <3>2. outlived' = outlived
      BY <1>5 DEF Try
    <3>3. MakingDown'
      BY <3>1
    <3>4. FriendToClose'
      BY <2>1, <3>1, <3>2
    <3> QED BY <3>1, <3>2, <3>3, <3>4
  <2>3. CASE UNCHANGED <<connected_, taskPc>>
    BY <1>5, <2>3 DEF Try
  <2> QED BY <1>5, <2>2, <2>3 DEF Try
<1>6. CASE Made(c)
  BY <1>6 DEF Made
<1> QED BY <1>1, <1>2, <1>3, <1>4, <1>5, <1>6 DEF Task

\* A loss makes the friend older than it, and the task has yet to close it.
LEMMA InvUser ==
  ASSUME Inv, NEW c \in Connections, User(c)
  PROVE  Inv'
<1>1. CASE UNCHANGED <<connected_, taskPc, outlived>>
  BY <1>1 DEF Inv, TypeInv, MakingDown, FriendToClose
<1>2. CASE connected_' = Set(connected_, c, FALSE) /\ outlived' = Outlive(c) /\ UNCHANGED taskPc
  <2>1. taskPc[c] \notin Making \/ ~connected_[c]
    BY DEF Inv, MakingDown
  <2> QED BY <1>2, <2>1, Loss DEF Inv, TypeInv, MakingDown, FriendToClose
<1>3. CASE NotifyLost(c)
  BY <1>3, Wakes DEF NotifyLost, Inv, TypeInv, MakingDown, FriendToClose, Making
<1>4. CASE OrphanEnds(c)
  <2>1. CASE connected_' = connected_ /\ ~connected_[c] /\ outlived' = Outlive(c)
    <3>1. connected_ = Set(connected_, c, FALSE)
      BY <2>1 DEF Inv, TypeInv, Set
    <3> QED BY <1>2, <1>4, <2>1, <3>1 DEF OrphanEnds
  <2>2. CASE connected_' = Set(connected_, c, FALSE)
    BY <1>2, <1>4, <2>2 DEF OrphanEnds, Inv, TypeInv, Set
  <2> QED BY <1>1, <1>4, <2>1, <2>2 DEF OrphanEnds
<1> QED BY <1>1, <1>2, <1>3, <1>4 DEF User, Call, CallOk, CallFails

\* Every step keeps the invariant.
LEMMA InvNext == Inv /\ [Next]_vars => Inv'
<1> SUFFICES ASSUME Inv, [Next]_vars PROVE Inv'
  OBVIOUS
<1>1. CASE \E c \in Connections : PeerChanges(c)
  BY <1>1 DEF PeerChanges, vars, Inv, TypeInv, MakingDown, FriendToClose
<1>2. CASE UNCHANGED vars
  BY <1>2 DEF vars, Inv, TypeInv, MakingDown, FriendToClose
<1> QED BY <1>1, <1>2, InvTask, InvUser DEF Next

\* connectionTask makes a connection again only after it closed the friend that was up
\* when the connection was lost, whatever calls fail, peers vanish and notifications are
\* missed meanwhile.
THEOREM FriendIsMadeAgain == Spec => []FriendFollows
<1>1. Inv => FriendFollows
  BY DEF Inv, FriendToClose, FriendFollows
<1> QED BY InvInit, InvNext, <1>1, PTL DEF Spec
=============================================================================
