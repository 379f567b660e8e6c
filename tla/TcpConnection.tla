--------------------------- MODULE TcpConnection ---------------------------
(***************************************************************************)
(* A TcpClient that sends requests and receives replies: SmplMsgConnection *)
(* over SimpleSocket over TcpSocket.  sendAndReceiveMsg sends a message    *)
(* and then receives the length and the body of a reply, without a lock    *)
(* and without a look at what the reply answers; so two threads that use   *)
(* the connection at once may read each other's replies, or halves of      *)
(* them.  The robot (or the middleware) at the other end answers the       *)
(* requests in order.                                                      *)
(***************************************************************************)
EXTENDS Integers, Sequences

CONSTANTS
  MaxLosses,    \* bound: times the connection is lost
  MaxMisreads   \* bound: misread halves of replies (after that a call that
                \* misreads never returns)

ASSUME ConnectionAssumption == MaxLosses \in Nat /\ MaxMisreads \in Nat

VARIABLES
  connected_,   \* what SimpleSocket believes
  link,         \* the TCP connection exists
  requests,     \* sent, not yet taken by the other end
  replies,      \* the halves of replies not yet received
  garbled,      \* a half was taken for the other one
  nLosses, nMisreads

counters       == <<nLosses, nMisreads>>
connectionVars == <<connected_, link, requests, replies, garbled, counters>>

Reply == <<"length", "body">>

\* The constructor and makeConnect().
ConnectionInit ==
  /\ link \in BOOLEAN /\ connected_ = link
  /\ requests = <<>> /\ replies = <<>>
  /\ garbled = FALSE
  /\ nLosses = 0 /\ nMisreads = 0

\* makeConnect: nothing if connected; otherwise the stale handle is closed and
\* a new connection is tried.
makeConnect ==
  \/ connected_ /\ UNCHANGED connectionVars
  \/ /\ ~connected_
     /\ link' \in BOOLEAN /\ connected_' = link'
     /\ requests' = <<>> /\ replies' = <<>> /\ garbled' = FALSE
     /\ UNCHANGED counters

\* sendMsg succeeds; on a connection that is broken already the bytes are lost.
SendOk(m) ==
  /\ connected_
  /\ requests' = IF link THEN Append(requests, m) ELSE requests
  /\ UNCHANGED <<connected_, link, replies, garbled, counters>>

SendFails ==
  /\ ~(connected_ /\ link)
  /\ connected_' = FALSE
  /\ UNCHANGED <<link, requests, replies, garbled, counters>>

\* receiveBytes returns the half of a reply it was called for.
ReceiveOk(half) ==
  /\ ~garbled
  /\ replies # <<>> /\ Head(replies) = half
  /\ replies' = Tail(replies)
  /\ UNCHANGED <<connected_, link, requests, garbled, counters>>

\* The bytes are not those expected.  From here on lengths are read where there
\* are none, so a call may return anything, give up, or never return.
ReceiveGarbled(half) ==
  /\ replies # <<>>
  /\ garbled \/ Head(replies) # half
  /\ nMisreads < MaxMisreads
  /\ nMisreads' = nMisreads + 1
  /\ garbled' = TRUE
  /\ replies' = Tail(replies)
  /\ connected_' \in {connected_, FALSE}
  /\ UNCHANGED <<link, requests, nLosses>>

\* Mutant: a failed receive leaves the socket in the connected state.
ReceiveFailsConnected ==
  /\ ~connected_ \/ (~link /\ replies = <<>>)
  /\ UNCHANGED connectionVars

\* The connection is broken, or was found to be by the other thread.
ReceiveFails ==
  /\ ~connected_ \/ (~link /\ replies = <<>>)
  /\ connected_' = FALSE
  /\ UNCHANGED <<link, requests, replies, garbled, counters>>

-----------------------------------------------------------------------------
\* The other end takes the oldest request and answers it.
Answer ==
  /\ requests # <<>>
  /\ requests' = Tail(requests)
  /\ replies' = IF link THEN replies \o Reply ELSE replies
  /\ UNCHANGED <<connected_, link, garbled, counters>>

\* The connection is lost, with any part of what was on its way.
LoseConnection ==
  /\ link
  /\ nLosses < MaxLosses
  /\ nLosses' = nLosses + 1
  /\ link' = FALSE
  /\ \E n \in 0 .. Len(requests) : requests' = SubSeq(requests, 1, n)
  /\ \E n \in 0 .. Len(replies) : replies' = SubSeq(replies, 1, n)
  /\ UNCHANGED <<connected_, garbled, nMisreads>>
=============================================================================
