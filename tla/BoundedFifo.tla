---------------------------- MODULE BoundedFifo ----------------------------
(***************************************************************************)
(* What a motion buffer of the VAL3 ros_server promises to its two users,  *)
(* the task that receives trajectory points and the task that moves the    *)
(* arm: a first-in first-out store of at most Size commands that refuses a *)
(* command when it is full, reports emptiness instead of returning a stale *)
(* command, and can be emptied at once.                                    *)
(***************************************************************************)
EXTENDS Naturals, Sequences

CONSTANTS
  Cmd,    \* the motion commands
  Size    \* the capacity

VARIABLES
  fifo,   \* the commands stored, oldest first
  res,    \* x_bRes of the last push or pop
  out     \* x_mCmd as the last successful pop left it

fifoVars == <<fifo, res, out>>

FifoInit ==
  /\ fifo = <<>>
  /\ res = FALSE
  /\ out \in Cmd

FifoPush(x) ==
  \/ /\ Len(fifo) < Size
     /\ fifo' = Append(fifo, x)
     /\ res' = TRUE
     /\ UNCHANGED out
  \/ /\ Len(fifo) = Size
     /\ res' = FALSE
     /\ UNCHANGED <<fifo, out>>

FifoPop ==
  \/ /\ fifo # <<>>
     /\ out' = Head(fifo)
     /\ fifo' = Tail(fifo)
     /\ res' = TRUE
  \/ /\ fifo = <<>>
     /\ res' = FALSE
     /\ UNCHANGED <<fifo, out>>

FifoClear ==
  /\ fifo' = <<>>
  /\ UNCHANGED <<res, out>>

FifoNext ==
  \/ \E x \in Cmd : FifoPush(x)
  \/ FifoPop
  \/ FifoClear

FifoSpec == FifoInit /\ [][FifoNext]_fifoVars
=============================================================================
