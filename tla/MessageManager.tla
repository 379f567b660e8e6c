----------------------------- MODULE MessageManager -----------------------------
(***************************************************************************)
(* RobotStateInterface: a MessageManager that takes the messages of the    *)
(* controller from a TCP connection, in whatever pieces they arrive, and   *)
(* hands them to its handlers, which publish what they get and answer      *)
(* requests.  A message travels as two pieces for its length and two for   *)
(* its body.                                                               *)
(***************************************************************************)
EXTENDS ServiceNodes

CONSTANTS
  JointNames,    \* all_joint_names_: "" stands for a joint that is not published
  Frames,        \* what the controller may send
  MaxSent,       \* bound: messages the controller sends
  MaxLosses      \* bound: losses of the connection

ASSUME ManagerAssumption ==
  /\ MaxSent \in Nat /\ MaxLosses \in Nat
  /\ Frames \subseteq [type : Types, comm : {"INVALID", "TOPIC", "SERVICE_REQUEST", "SERVICE_REPLY"},
                       code : {"INVALID", "SUCCESS", "FAILURE"}, valid : SUBSET ValidFields,
                       short : BOOLEAN, parts : Nat]
  /\ \A f \in Frames : f.short => Layout[f.type].load # <<>>

VARIABLES
  connected_,    \* SimpleSocket::connected_
  link,          \* the connection exists
  wire,          \* pieces on their way to the client
  pc,            \* where spinOnce is
  remainBytes,   \* pieces receiveBytes still waits for
  buffer_,       \* pieces it has got
  sent,          \* history: the messages of the controller
  received,      \* history: numbers of those that arrived
  published,     \* history: what was published
  replies,       \* history: the replies that were sent, or tried to
  nLosses

net  == <<link, sent, nLosses>>
vars == <<net, connected_, wire, pc, remainBytes, buffer_, received, published, replies>>

-----------------------------------------------------------------------------
(* The handlers.                                                           *)

MsgType == [ping |-> "PING", joint |-> "JOINT", status |-> "STATUS", feedback |-> "JOINT_FEEDBACK"]

\* The constructor adds two handlers that have no type yet; init() gives every
\* handler its type and adds it (again).
Setup == <<[h |-> "joint", typed |-> FALSE], [h |-> "status", typed |-> FALSE],
           [h |-> "ping", typed |-> TRUE], [h |-> "joint", typed |-> TRUE],
           [h |-> "status", typed |-> TRUE], [h |-> "feedback", typed |-> TRUE]>>

\* MessageManager::getHandlerIdx: the first handler of that type, or 0.
getHandlerIdx(hs, types, type) ==
  SelectInSeq(hs, LAMBDA h : types[h] = type)

\* MessageManager::add: a handler takes the place of one of the same type.
add(hs, types, h) ==
  LET i == getHandlerIdx(hs, types, types[h])
  IN IF i = 0 THEN Append(hs, h) ELSE [hs EXCEPT ![i] = h]

\* Mutant: init() does not add the handlers the constructor has added.
addOnce(steps) == [i \in 1 .. 4 |-> steps[<<1, 2, 3, 6>>[i]]]

addAgain(steps) == steps

register(s, step) ==
  LET types == IF step.typed THEN [s.types EXCEPT ![step.h] = MsgType[step.h]] ELSE s.types
  IN  [types |-> types, hs |-> add(s.hs, types, step.h)]

handlers_ ==
  LET steps == addAgain(Setup)
      after[i \in 0 .. Len(steps)] ==
        IF i = 0 THEN [types |-> [h \in DOMAIN MsgType |-> "INVALID"], hs |-> <<>>]
        ELSE register(after[i - 1], steps[i])
  IN  after[Len(steps)].hs

-----------------------------------------------------------------------------
(* What the controller sends (its own code writes the same bytes).         *)

\* Every member of message number k has a value of its own; the members of a
\* status are numbers, one of them none that is known.
Object(f, k, ms) ==
  IF f.type = "STATUS"
  THEN [m \in ms |-> CASE m[1] \in {"in_motion_", "mode_"} -> 1
                       [] m[1] = "e_stopped_" -> 0
                       [] m[1] = "trajectory_complete_" -> 7
                       [] OTHER -> -1]
  ELSE [m \in ms |-> IF m = valid_fields_ THEN f.valid ELSE <<k, m>>]

\* A short message lacks its last byte.
cut(f, whole) == IF f.short THEN Front(whole) ELSE whole
Data(f, k, class) == cut(f, serialize(class.load, Object(f, k, Members(class))))

MessageWith(f, data) ==
  CASE f.comm = "TOPIC" -> toTopic(f.type, data)
    [] f.comm = "SERVICE_REQUEST" /\ f.code = "INVALID" -> toRequest(f.type, data)
    [] OTHER -> initMessage(NewMessage, f.type, f.comm, f.code, data)

SentMessage(f, k) == MessageWith(f, Data(f, k, Layout[f.type]))

\* Its body, which may be shorter than a header.
stump(f, bytes) == IF f.parts = 1 THEN SubSeq(bytes, 1, 6) ELSE bytes
Body(f, k) == stump(f, toByteArray(SentMessage(f, k)))

\* The pieces: parts is 2 but for a message without a body or with a stump of one.
Pieces(f, k) == <<<<k, "length">>, <<k, "length">>>> \o [i \in 1 .. f.parts |-> <<k, "body">>]

Send(f) ==
  /\ link /\ Len(sent) < MaxSent
  /\ sent' = Append(sent, f)
  /\ wire' = wire \o Pieces(f, Len(sent) + 1)
  /\ UNCHANGED <<link, nLosses, connected_, pc, remainBytes, buffer_, received, published, replies>>

LoseConnection ==
  /\ link /\ nLosses < MaxLosses
  /\ link' = FALSE /\ nLosses' = nLosses + 1
  /\ \E n \in 0 .. Len(wire) : wire' = SubSeq(wire, 1, n)
  /\ UNCHANGED <<sent, connected_, pc, remainBytes, buffer_, received, published, replies>>

-----------------------------------------------------------------------------
(* spinOnce.                                                               *)

\* Mutant: the fault handler does not try to connect again.
staysDown == FALSE

makesAgain == TRUE

\* A connection that is down is made again (or not); nothing of the old one is left.
Check ==
  /\ pc = "check"
  /\ pc' = "length" /\ remainBytes' = 2 /\ buffer_' = <<>>
  /\ IF connected_ \/ ~makesAgain THEN UNCHANGED <<connected_, link, wire>>
     ELSE link' \in BOOLEAN /\ connected_' = link' /\ wire' = <<>>
  /\ UNCHANGED <<sent, nLosses, received, published, replies>>

\* A failure of receiveBytes is one of the connection; its callback does nothing.
Fail ==
  /\ pc' = "check" /\ connected_' = FALSE
  /\ UNCHANGED <<remainBytes, buffer_>>

\* There is something to read, or the end of the connection.  The peer sends nothing out
\* of band, so select has no error to report.
rawPoll == [ready |-> wire # <<>> \/ ~link, error |-> FALSE]

\* How many pieces recv may return: none at the end.
rawReceiveBytes == IF wire = <<>> THEN {0} ELSE 1 .. Min({remainBytes, Len(wire)})

\* send may not notice that the connection is lost.
rawSendBytes == IF link THEN {TRUE} ELSE BOOLEAN

\* Mutant: what recv returned is taken for everything.
oneRecv(n) == 0

nowRemain(n) == remainBytes - n

\* After the length, its value says how much to wait for; nothing is a failure.
LengthOf(pieces) == IF \A i \in DOMAIN pieces : pieces[i] = <<pieces[1][1], "length">>
                    THEN sent[pieces[1][1]].parts ELSE 2

Receive ==
  /\ pc \in {"length", "body"} /\ connected_
  /\ rawPoll.ready
  /\ \E n \in rawReceiveBytes \ {0} :
       /\ wire' = SubSeq(wire, n + 1, Len(wire))
       /\ LET pieces == buffer_ \o SubSeq(wire, 1, n) IN
          IF nowRemain(n) > 0
          THEN remainBytes' = nowRemain(n) /\ buffer_' = pieces /\ UNCHANGED <<pc, connected_, received>>
          ELSE IF pc = "body"
          THEN /\ pc' = "handle" /\ buffer_' = pieces /\ received' = Append(received, pieces[1][1])
               /\ UNCHANGED <<remainBytes, connected_>>
          ELSE /\ UNCHANGED received
               /\ IF LengthOf(pieces) = 0 THEN Fail
                  ELSE /\ pc' = "body" /\ remainBytes' = LengthOf(pieces) /\ buffer_' = <<>>
                       /\ UNCHANGED connected_
  /\ UNCHANGED <<net, published, replies>>

\* The socket is not connected, or the connection is found to have ended.
ReceiveFails ==
  /\ pc \in {"length", "body"}
  /\ ~connected_ \/ rawPoll.error \/ (rawPoll.ready /\ 0 \in rawReceiveBytes)
  /\ Fail
  /\ UNCHANGED <<net, wire, received, published, replies>>

-----------------------------------------------------------------------------
(* Handlers and dispatch.                                                  *)

\* select: the joints without a name are left out.
selected(object, f) ==
  LET named == SelectSeq([i \in DOMAIN JointNames |-> i], LAMBDA i : JointNames[i] # "")
  IN [i \in DOMAIN named |-> getJoint(object, f, named[i] - 1)]

pub_joint_names == SelectSeq(JointNames, LAMBDA n : n # "")

\* createMessages of JointFeedbackRelayHandler: what is not valid is left out.
feedbackState(o) ==
  LET valid == o[valid_fields_] \intersect {"positions_", "velocities_"} IN
  [names |-> IF valid = {} THEN <<>> ELSE pub_joint_names,
   positions |-> IF "positions_" \in valid THEN selected(o, "positions_") ELSE <<>>,
   velocities |-> IF "velocities_" \in valid THEN selected(o, "velocities_") ELSE <<>>]

\* create_messages of JointRelayHandler.
jointState(o) == [names |-> pub_joint_names, positions |-> selected(o, "joints_"), velocities |-> <<>>]

\* TriStates::toROSMsgEnum and RobotModes::toROSMsgEnum: what is not known is -1.
toROSMsgEnum(v, enum) == IF \E n \in DOMAIN enum : enum[n] = v THEN v ELSE -1

statusMessage(o) == [m \in DOMAIN o |-> CASE m[1] = "error_code_" -> o[m]
                                          [] m[1] = "mode_" -> toROSMsgEnum(o[m], RobotMode)
                                          [] OTHER -> toROSMsgEnum(o[m], TriState)]

\* internalCB: what the handlers publish of a message that they can read ...
published_(type, o) ==
  CASE type = "JOINT" -> <<jointState(o)>>
    [] type = "STATUS" -> <<statusMessage(o)>>
    [] type = "JOINT_FEEDBACK" -> <<feedbackState(o)>>
    [] OTHER -> <<>>

\* Mutant: the status handler compares the type of the message, as its fellows do.
neverAnswers(type, comm) == type = "PING"

\* ... and whether they answer it; two of them compare the wrong number.
answers(type, comm) == type = "PING" \/ (type = "STATUS" /\ comm = "SERVICE_REQUEST")

hasHandler(type) == getHandlerIdx(handlers_, MsgType, type) # 0
getHandler(type) == handlers_[getHandlerIdx(handlers_, MsgType, type)]

\* A message that no handler knows is answered with a failure.
refuses(msg) == ~hasHandler(msg.message_type_) /\ msg.comm_type_ = "SERVICE_REQUEST"

\* callback: what a body does, which is published and which is answered.
nothing == [published |-> <<>>, replies |-> <<>>]

reply(k, type, data, code) == <<[to |-> k, msg |-> toReply(type, data, code)]>>

\* The handler that was found by the type looks at it once more.
validateMsg(h, msg) == validateMessage(msg) /\ msg.message_type_ = MsgType[h]

dispatch(k, h, msg, o) ==
  IF ~validateMsg(h, msg) \/ ~o.ok THEN nothing
  ELSE [published |-> published_(msg.message_type_, o.object),
        replies |-> IF answers(msg.message_type_, msg.comm_type_)
                    THEN reply(k, msg.message_type_, msg.data_, "SUCCESS") ELSE <<>>]

handle(k, r) ==
  IF ~r.ok THEN nothing
  ELSE IF refuses(r.msg) THEN [nothing EXCEPT !.replies = reply(k, r.msg.message_type_, <<>>, "FAILURE")]
  ELSE IF ~hasHandler(r.msg.message_type_) THEN nothing
  ELSE dispatch(k, getHandler(r.msg.message_type_), r.msg,
                initTyped(Layout[r.msg.message_type_], r.msg))

callback(f, k) == handle(k, initFrom(NewMessage, Body(f, k)))

outcome == [f \in Frames |-> [k \in 1 .. MaxSent |-> callback(f, k)]]

\* sendMsg closes the socket if it fails.
Handle ==
  /\ pc = "handle" /\ pc' = "check"
  /\ LET k == buffer_[1][1]
         done == outcome[sent[k]][k]
     IN /\ published' = published \o done.published
        /\ replies' = replies \o done.replies
        /\ connected_' \in IF done.replies = <<>> THEN {connected_}
                           ELSE {connected_ /\ ok : ok \in rawSendBytes}
  /\ UNCHANGED <<net, wire, remainBytes, buffer_, received>>

SpinOnce == Check \/ Receive \/ ReceiveFails \/ Handle

-----------------------------------------------------------------------------
\* init() tries to connect before the manager spins.
Init ==
  /\ link \in BOOLEAN /\ connected_ = link
  /\ wire = <<>> /\ sent = <<>> /\ nLosses = 0
  /\ pc = "check" /\ remainBytes = 0 /\ buffer_ = <<>>
  /\ received = <<>> /\ published = <<>> /\ replies = <<>>

Next == SpinOnce \/ LoseConnection \/ \E f \in Frames : Send(f)

Spec == Init /\ [][Next]_vars /\ WF_vars(SpinOnce)
-----------------------------------------------------------------------------
\* Whatever pieces arrive, a message is read from its first byte to its last:
\* when a length is read, a length comes.
Aligned ==
  /\ LET coming == buffer_ \o wire IN
       pc = "length" /\ connected_ /\ coming # <<>> =>
         coming[1][2] = "length" /\ (Len(coming) > 1 => coming[2] = coming[1])
  /\ pc \in {"body", "handle"} => \A i, j \in DOMAIN buffer_ :
       buffer_[i] = buffer_[j] /\ buffer_[i][2] = "body"

\* No message arrives twice, or after a later one, over whatever connections.
EachOnce == \A i, j \in DOMAIN received : i < j => received[i] < received[j]

\* What was published is what the controller had sent, in its order, once for every
\* message that arrived whole.
PublishesWhatWasSent == pc = "check" =>
  /\ EachOnce
  /\ published = FlattenSeq([i \in DOMAIN received |->
       LET f == sent[received[i]] IN
       IF f.short \/ f.parts = 1 \/ ~validateMessage(MessageWith(f, <<>>)) THEN <<>>
       ELSE published_(f.type, Object(f, received[i], Members(Layout[f.type])))])

\* A request that can be read; one whose type has no handler need not be, to be refused.
asks(f) ==
  /\ f.comm = "SERVICE_REQUEST" /\ f.code = "INVALID" /\ f.parts # 1
  /\ hasHandler(f.type) => ~f.short

\* What the comments of the handlers promise, "Reply back to the controller if the sender
\* requested it" (joint_relay_handler.cpp:90, joint_feedback_relay_handler.cpp:164): every
\* request that arrived and can be read is answered.
EveryRequestAnswered == pc = "check" => \A i \in DOMAIN received :
  asks(sent[received[i]]) => \E j \in DOMAIN replies : replies[j].to = received[i]

\* That of joint states is not.  Whether it is is left open in the next property.
ofJoints(f) == f.type \in {"JOINT", "JOINT_FEEDBACK"}

\* No message is answered twice, or after the answer to a later one; a request that is not
\* for joint states is answered if and only if it can be read; and every answer there is
\* belongs to the type of what it answers and says whether somebody can handle it.
AnswersRequests == pc = "check" =>
  /\ \A i, j \in DOMAIN replies : i < j => replies[i].to < replies[j].to
  /\ FlattenSeq([i \in DOMAIN replies |-> LET k == replies[i].to IN
       IF sent[k].comm = "SERVICE_REQUEST" /\ ~ofJoints(sent[k]) THEN <<k>> ELSE <<>>])
       = FlattenSeq([i \in DOMAIN received |-> LET k == received[i] IN
           IF asks(sent[k]) /\ ~ofJoints(sent[k]) THEN <<k>> ELSE <<>>])
  /\ \A i \in DOMAIN replies : LET r == replies[i] IN
       /\ validateMessage(r.msg) /\ r.msg.message_type_ = sent[r.to].type
       /\ r.msg.reply_code_ = "SUCCESS" <=> hasHandler(sent[r.to].type)

\* What a class writes into a message ...
ReadsWhatItWrote(f, class, object) ==
  LET r == initTyped(class, SentMessage(f, 1))
  IN IF f.short THEN ~r.ok ELSE r = [ok |-> TRUE, object |-> object, buffer |-> <<>>]

\* ... the points of a trajectory ...
ReadsPoints(n) ==
  LET points == [i \in 1 .. n |-> [m \in Members(JointTrajPtMessage) |-> <<i, m>>]]
      added[i \in 0 .. n] == IF i = 0 THEN initTraj ELSE addPoint(added[i - 1], points[i]).points
      stored == added[n]
  IN /\ unloadTraj(loadTraj(stored).buffer) = [ok |-> TRUE, points |-> points]
     /\ equalTraj(copyTraj(stored), points)
     /\ addPoint(stored, points[1]).ok <=> n < MAX_NUM_POINTS

\* ... from either end of the bytes ...
ReadsFromFront(class) ==
  LET o == [m \in Members(class) |-> <<1, m>>]
      bytes == serialize(class.load, o)
      after(i) == unloadFront(bytes, size(class.load, i)).buffer
  IN /\ \A i \in DOMAIN class.load :
          Value(unloadFront(after(i - 1), class.load[i].size).bytes) = o[class.load[i].name]
     /\ ~unloadFront(bytes, getBufferSize(bytes) + 1).ok

\* ... which members of an object are valid, and that only those count ...
CopiesMarks(class, copied, compared) == \A valid \in SUBSET ValidFields :
  LET o == [m \in Members(class) |-> IF m = valid_fields_ THEN valid ELSE <<1, m>>]
      copy == copyFull(initObject(class), o, copied)
      counts(m) == m[1] \in valid \union (DOMAIN class.init \ ValidFields)
  IN /\ equalFull(copy, o, compared) /\ copy = o /\ copy = initFull(initObject(class), o, valid)
     /\ \A m \in Members(class) \ {valid_fields_} :
          equalFull([copy EXCEPT ![m] = <<2, m>>], o, compared) <=> ~counts(m)
     /\ \A f \in ValidFields : LET cleared == clearField(copy, f) IN
          /\ cleared[valid_fields_] = valid \ {f}
          /\ setField(cleared, f, o) = mark(copy, valid \union {f})

\* ... and that it differs from what is not a copy of it, whichever member that is.
Differs(class, copy(_), equal(_, _)) ==
  LET o == [m \in Members(class) |-> <<1, m>>] IN
  /\ equal(copy(o), o) /\ copy(o) = o
  /\ \A m \in Members(class) : ~equal([o EXCEPT ![m] = <<2, m>>], o)

CopiesMembers ==
  /\ Differs(JointTrajPtMessage, LAMBDA o : copyPoint(initObject(JointTrajPtMessage), o), equalPoint)
  /\ Differs(RobotStatusMessage,
             LAMBDA o : copyMembers(initObject(RobotStatusMessage), o, RobotStatusCopied),
             LAMBDA a, b : equalMembers(a, b, RobotStatusCompared))
  /\ Differs(WriteSingleIOMessage,
             LAMBDA o : copyMembers(initObject(WriteSingleIOMessage), o, WriteSingleIOCopied),
             LAMBDA a, b : a = b)

\* Every class reads from a message what it wrote into it, all of it (its members can be
\* read from the front as well), and refuses one that lacks a byte; so does a trajectory of any length but zero; a copy has the
\* same members, the same of them are valid, and an object with another member is not
\* equal.  A request of the service nodes asks for what the caller wanted, and its reply
\* is what the caller gets.  No state matters to this: it is looked at before the first message.
RoundTrip == pc = "check" /\ sent = <<>> =>
  /\ \A f \in [type : Types, comm : {"TOPIC"}, code : {"INVALID"}, valid : SUBSET ValidFields,
               short : BOOLEAN, parts : {2}] :
       LET class == Layout[f.type] IN
       ~f.short \/ class.load # <<>> => ReadsWhatItWrote(f, class, Object(f, 1, Members(class)))
  /\ \A n \in 1 .. MAX_NUM_POINTS : ReadsPoints(n)
  /\ \A type \in Types : ReadsFromFront(Layout[type])
  /\ CopiesMarks(JointTrajPtFullMessage, JointTrajPtFullCopied, JointTrajPtFullCompared)
  /\ CopiesMarks(JointFeedbackMessage, JointFeedbackCopied, JointFeedbackCompared)
  /\ CopiesMembers
  /\ AsksForIt /\ TellsTheAnswer /\ ConnectsToPort

\* Every message that is on its way is taken from there: the manager never stops
\* reading, and a connection that it gave up is made again.
Drained == \A k \in 1 .. MaxSent :
  (\E i \in DOMAIN wire : wire[i][1] = k) ~> ~(\E i \in DOMAIN wire : wire[i][1] = k)
=============================================================================
