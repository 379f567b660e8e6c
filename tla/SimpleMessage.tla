----------------------------- MODULE SimpleMessage -----------------------------
(***************************************************************************)
(* ByteArray, SimpleSerialize, SimpleMessage and TypedMessage: how data    *)
(* becomes bytes and bytes become data.  A byte is a pair of the value it  *)
(* belongs to and its place in it, so bytes that are taken apart at the    *)
(* wrong place give Garbled.  Byte order is left out.  A member is named   *)
(* by a pair: the elements of an array have its name and their index.      *)
(***************************************************************************)
EXTENDS Integers, SequencesExt

Garbled == "garbled"

\* Sizes: shared_int and shared_real have four bytes, shared_bool has one.
Word(f) == [name |-> <<f, 0>>, size |-> 4]
Flag(f) == [name |-> <<f, 0>>, size |-> 1]
Words(fs) == [i \in DOMAIN fs |-> Word(fs[i])]
Array(f, n) == [i \in 1 .. n |-> [name |-> <<f, i>>, size |-> 4]]

Bytes(f, v, n) == [i \in 1 .. n |-> <<f, v, i>>]
Value(bytes) == IF bytes = Bytes(bytes[1][1], bytes[1][2], Len(bytes)) THEN bytes[1][2] ELSE Garbled

-----------------------------------------------------------------------------
(* ByteArray.                                                              *)

getBufferSize(buffer) == Len(buffer)

load(buffer, f, v, size) == buffer \o Bytes(f, v, size)
loadArray(buffer, other) == buffer \o other

\* The last bytes of the buffer, and what is left.
unload(buffer, size) ==
  IF size <= Len(buffer)
  THEN [ok |-> TRUE, bytes |-> SubSeq(buffer, Len(buffer) - size + 1, Len(buffer)),
        buffer |-> SubSeq(buffer, 1, Len(buffer) - size)]
  ELSE [ok |-> FALSE, bytes |-> <<>>, buffer |-> buffer]

\* The first bytes, and what is left.
unloadFront(buffer, size) ==
  IF size <= Len(buffer)
  THEN [ok |-> TRUE, bytes |-> SubSeq(buffer, 1, size),
        buffer |-> SubSeq(buffer, size + 1, Len(buffer))]
  ELSE [ok |-> FALSE, bytes |-> <<>>, buffer |-> buffer]

\* As unload, to the end of another buffer.
unloadArray(buffer, value, size) ==
  LET u == unload(buffer, size) IN [u EXCEPT !.bytes = loadArray(value, u.bytes)]

\* An empty array is not copied: the old content stays.
copyFrom(old, new) == IF getBufferSize(new) # 0 THEN new ELSE old

-----------------------------------------------------------------------------
(* SimpleSerialize: a class writes its members one by one to the end of a  *)
(* buffer, and reads them from there.                                      *)

serialize(members, object) ==
  LET written[i \in 0 .. Len(members)] ==
        IF i = 0 THEN <<>>
        ELSE load(written[i - 1], members[i].name, object[members[i].name], members[i].size)
  IN written[Len(members)]

\* The bytes of the first i members.
size(members, i) == 4 * i - 3 * Cardinality({j \in 1 .. i : members[j].size = 1})

\* The first member that fails ends it; those read before have been changed.
deserialize(members, object, buffer) ==
  LET n == Max({i \in 0 .. Len(members) : size(members, i) <= Len(buffer)})
      before(i) == unload(buffer, size(members, i)).buffer
      Member(m) == {i \in 1 .. n : members[i].name = m}
  IN [ok |-> n = Len(members), buffer |-> before(n),
      object |-> [m \in DOMAIN object |->
        IF Member(m) = {} THEN object[m]
        ELSE LET i == Max(Member(m)) IN Value(unload(before(i - 1), members[i].size).bytes)]]

-----------------------------------------------------------------------------
(* SimpleMessage: a header of three words, and data.                       *)

header == Words(<<"message_type_", "comm_type_", "reply_code_">>)
HEADER_SIZE == 12

validateMessage(msg) ==
  /\ msg.message_type_ # "INVALID"
  /\ msg.comm_type_ # "INVALID"
  /\ msg.comm_type_ = "SERVICE_REPLY" <=> msg.reply_code_ # "INVALID"

\* The header as members, and a message of members and data.
members(msg) == [m \in {<<f, 0>> : f \in DOMAIN msg \ {"data_"}} |-> msg[m[1]]]
message(ms, data) == [f \in {m[1] : m \in DOMAIN ms} \union {"data_"} |->
                        IF f = "data_" THEN data ELSE ms[<<f, 0>>]]

initMessage(msg, type, comm, code, data) ==
  [msg EXCEPT !.message_type_ = type, !.comm_type_ = comm, !.reply_code_ = code,
              !.data_ = copyFrom(msg.data_, data)]

toByteArray(msg) == loadArray(serialize(header, members(msg)), msg.data_)

\* The data of an earlier message stays in front of the new data.
initFrom(msg, bytes) ==
  IF getBufferSize(bytes) < HEADER_SIZE THEN [ok |-> FALSE, msg |-> msg]
  ELSE LET u == unloadArray(bytes, msg.data_, getBufferSize(bytes) - HEADER_SIZE)
           h == deserialize(Reverse(header), members(msg), u.buffer)
           read == message(h.object, u.bytes)
       IN [ok |-> validateMessage(read), msg |-> read]

\* A message on the stack whose members nothing initialized.
NewMessage == [message_type_ |-> Garbled, comm_type_ |-> Garbled, reply_code_ |-> Garbled,
               data_ |-> <<>>]

-----------------------------------------------------------------------------
(* TypedMessage.                                                           *)

toRequest(type, data) == initMessage(NewMessage, type, "SERVICE_REQUEST", "INVALID", data)
toTopic(type, data)   == initMessage(NewMessage, type, "TOPIC", "INVALID", data)
toReply(type, data, code) == initMessage(NewMessage, type, "SERVICE_REPLY", code, data)
=============================================================================
