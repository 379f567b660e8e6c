---------------------------- MODULE MotionQueue ----------------------------
(***************************************************************************)
(* The ring buffer of library libQueueFuncs, of which the VAL3 ros_server  *)
(* has two instances, qTrajPtBuffer and qMoveBuffer.  push, pop and clear  *)
(* are only called by synchronous tasks, whose iterations never interrupt  *)
(* one another, so each call is one step.                                  *)
(***************************************************************************)
EXTENDS Integers, Sequences

CONSTANTS
  Cmd,    \* the motion commands (type MotionCmd)
  Size    \* size(x_qQueue.buffer); 10 in ros_server.dtx

ASSUME SizeAssumption == Size \in Nat \ {0}

VARIABLES
  buffer,   \* x_qQueue.buffer, indexed from 0 as in VAL3
  nElems,   \* x_qQueue.nElems, the number of commands stored
  nPush,    \* x_qQueue.nPush, the slot the next push writes
  nPop,     \* x_qQueue.nPop, the slot the next pop reads
  res,      \* x_bRes, the result of the last push or pop
  out       \* the caller's x_mCmd, written by a successful pop only

vars == <<buffer, nElems, nPush, nPop, res, out>>

Slot == 0 .. Size - 1

TypeOK ==
  /\ buffer \in [Slot -> Cmd]
  /\ nElems \in 0 .. Size
  /\ nPush \in Slot
  /\ nPop \in Slot
  /\ res \in BOOLEAN
  /\ out \in Cmd

-----------------------------------------------------------------------------
(* A fresh Queue: the counters are zero, the slots hold whatever they hold *)

Init ==
  /\ buffer \in [Slot -> Cmd]
  /\ nElems = 0
  /\ nPush = 0
  /\ nPop = 0
  /\ res = FALSE
  /\ out \in Cmd

\* Mutant: the wrap test of push and pop is one too late.
NextSlotLate(i) == IF i + 1 > Size THEN 0 ELSE i + 1

\* The slot after i, with the wrap of push and pop.
NextSlot(i) == IF i + 1 >= Size THEN 0 ELSE i + 1

push(x) ==
  \/ /\ nElems < Size
     /\ buffer' = [buffer EXCEPT ![nPush] = x]
     /\ nElems' = nElems + 1
     /\ nPush' = NextSlot(nPush)
     /\ res' = TRUE
     /\ UNCHANGED <<nPop, out>>
  \/ /\ nElems >= Size
     /\ res' = FALSE
     /\ UNCHANGED <<buffer, nElems, nPush, nPop, out>>

\* Mutant: pop returns the slot the next push will write.
OldestNewest == buffer[nPush]

\* The command pop returns.
Oldest == buffer[nPop]

pop ==
  \/ /\ nElems > 0
     /\ out' = Oldest
     /\ nElems' = nElems - 1
     /\ nPop' = NextSlot(nPop)
     /\ res' = TRUE
     /\ UNCHANGED <<buffer, nPush>>
  \/ /\ nElems <= 0
     /\ res' = FALSE
     /\ UNCHANGED <<buffer, nElems, nPush, nPop, out>>

\* Mutant: clear resets the count but leaves the write slot where it was.
clearCountOnly ==
  /\ nElems' = 0
  /\ UNCHANGED <<buffer, nPush, nPop, res, out>>

clear ==
  /\ nElems' = 0
  /\ nPush' = nPop
  /\ UNCHANGED <<buffer, nPop, res, out>>

Next ==
  \/ \E x \in Cmd : push(x)
  \/ pop
  \/ clear

Spec == Init /\ [][Next]_vars

-----------------------------------------------------------------------------
(***************************************************************************)
(* Properties                                                              *)
(***************************************************************************)

\* A slot index that may have run past the end once.
Wrap(i) == IF i >= Size THEN i - Size ELSE i

\* The three counters agree: the write slot is the read slot advanced by the
\* number of stored commands.  push, pop and clear each maintain the counters
\* separately (nPush and nElems, nPop and nElems, nPush and nElems), so any
\* sequence of the three that let them drift would make pop return a slot
\* that was never written or was already read.
RingInv == nPush = Wrap(nPop + nElems)

\* The commands stored, oldest first.
Contents == [i \in 1 .. nElems |-> buffer[Wrap(nPop + i - 1)]]

Fifo == INSTANCE BoundedFifo WITH fifo <- Contents

\* The ring is a bounded FIFO: it never returns a command twice, out of order
\* or after clear, and refuses a command only when Size of them are stored.
ImplementsFifo == Fifo!FifoSpec
=============================================================================
