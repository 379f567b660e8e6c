------------------------------ MODULE ServiceNodes ------------------------------
(***************************************************************************)
(* IOInterface and SystemInterface: nodes of one service each, whose       *)
(* callback sends a request to the controller and reads the reply, on a    *)
(* connection that is made once, when the node starts, and never again.    *)
(***************************************************************************)
EXTENDS MessageTypes

-----------------------------------------------------------------------------
(* init.                                                                   *)

\* htons keeps 16 bits.
sin_port(port_num) == port_num % 65536

empty(ip) == ip = ""

\* A node with an address and a port in range connects; without a connection it ends.
initIO(ip, port, made)     == ~empty(ip) /\ port > 0 /\ port <= 65535 /\ made
initSystem(ip, port, made) == ~empty(ip) /\ port > 0 /\ port <= 65535 /\ made

-----------------------------------------------------------------------------
(* The services.                                                           *)

\* The members that init() of the data gives, by name.
membersOf(data) == [m \in {<<f, 0>> : f \in DOMAIN data} |-> data[m[1]]]

\* What the callbacks send: the module may be one that nobody knows.
writeSingleIO(module_id, pin, state) ==
  toRequest("WRITE_SINGLE_IO", serialize(WriteSingleIOLoad,
    membersOf([module_id_ |-> module_id, pin_ |-> pin, state_ |-> state])))

setDrivePower(value) ==
  toRequest("SET_DRIVE_POWER", serialize(SetDrivePowerLoad, membersOf([drive_power_ |-> value])))

\* sendAndReceiveMsg, of which only the reply is looked at: the body that came, empty if
\* it failed.
received_(body) == initFrom(NewMessage, body).msg

\* The codes the service may answer.  A reply that never came has the code that was
\* on the stack.
ServiceReturnCode(ok) == IF ok THEN "SUCCESS" ELSE "FAILURE"

serviceAnswers(body) ==
  LET code == received_(body).reply_code_
  IN  {ServiceReturnCode(c = "SUCCESS") :
         c \in IF code = Garbled THEN {"SUCCESS", "FAILURE"} ELSE {code}}

-----------------------------------------------------------------------------
\* A controller that reads a request does what the caller asked for, with any pin of any
\* module ...
AsksForIt ==
  /\ \A id \in {0} \union {IOModule[n] : n \in DOMAIN IOModule}, pin \in 0 .. 1, state \in BOOLEAN :
       LET msg == initFrom(NewMessage, toByteArray(writeSingleIO(id, pin, state))) IN
       /\ msg.ok
       /\ initTyped(WriteSingleIOMessage, msg.msg).object
            = membersOf([module_id_ |-> id, pin_ |-> pin, state_ |-> state])
  /\ \A value \in BOOLEAN :
       LET msg == initFrom(NewMessage, toByteArray(setDrivePower(value))) IN
       /\ msg.ok
       /\ initTyped(SetDrivePowerMessage, msg.msg).object = membersOf([drive_power_ |-> value])

\* ... and a service whose request was answered says what the controller said.  Nothing is
\* asked here of one whose request was not.
TellsTheAnswer ==
  \A type \in {"WRITE_SINGLE_IO", "SET_DRIVE_POWER"}, code \in {"SUCCESS", "FAILURE"} :
    serviceAnswers(toByteArray(toReply(type, <<>>, code))) = {code}

\* A node that starts has connected to the port it was given, be it the last that has
\* 16 bits.
Addresses == {"", "address"}
Ports     == {-1, 0, 1, 65535, 65536, 65537}

ConnectsToPort == \A ip \in Addresses, port \in Ports :
  /\ initIO(ip, port, TRUE) => ~empty(ip) /\ sin_port(port) = port
  /\ initSystem(ip, port, TRUE) => ~empty(ip) /\ sin_port(port) = port
=============================================================================
