--------------------------- MODULE MCMessageManager ---------------------------
(***************************************************************************)
(* The state interface with three joints, one of them without a name, and  *)
(* the messages that make a difference to it.                              *)
(***************************************************************************)
EXTENDS MessageManager

McJointNames == <<"a", "", "b">>

Frame(type, comm) == [type |-> type, comm |-> comm, code |-> "INVALID", valid |-> {},
                      short |-> FALSE, parts |-> 2]

McFrames ==
  {Frame("STATUS", "TOPIC"), Frame("JOINT", "TOPIC"), Frame("JOINT", "INVALID"),
   [Frame("JOINT_FEEDBACK", "TOPIC") EXCEPT !.valid = {"velocities_"}]}
  \union {Frame(t, "SERVICE_REQUEST") : t \in {"PING", "STATUS", "JOINT_FEEDBACK", "WRITE_SINGLE_IO"}}
  \union {[Frame("STATUS", "SERVICE_REQUEST") EXCEPT !.short = TRUE],
          [Frame("STATUS", "SERVICE_REQUEST") EXCEPT !.code = "SUCCESS"],
          [Frame("WRITE_SINGLE_IO", "SERVICE_REQUEST") EXCEPT !.short = TRUE],
          [Frame("STATUS", "TOPIC") EXCEPT !.parts = 0],
          [Frame("STATUS", "TOPIC") EXCEPT !.parts = 1]}
=============================================================================
