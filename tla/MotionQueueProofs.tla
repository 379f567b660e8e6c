------------------------- MODULE MotionQueueProofs -------------------------
(***************************************************************************)
(* For every capacity and every set of commands, the ring buffer of        *)
(* libQueueFuncs keeps its counters consistent and implements a bounded    *)
(* first-in first-out store.                                               *)
(***************************************************************************)
EXTENDS MotionQueue, SequenceTheorems, TLAPS

\* The inductive invariant: the type invariant and the agreement of the
\* three counters.  Neither is inductive alone: nPush stays a slot only
\* because NextSlot wraps, and RingInv needs the ranges of nPop and nElems.
Inv == TypeOK /\ RingInv

LEMMA InitInv == Init => Inv
<1> SUFFICES ASSUME Init PROVE Inv
  OBVIOUS
<1>1. TypeOK
  <2>1. nElems \in 0 .. Size /\ nPush \in Slot /\ nPop \in Slot
    BY SizeAssumption DEF Init, Slot
  <2>2. buffer \in [Slot -> Cmd] /\ res \in BOOLEAN /\ out \in Cmd
    BY DEF Init
  <2> QED
    BY <2>1, <2>2 DEF TypeOK
<1>2. RingInv
  BY SizeAssumption DEF Init, RingInv, Wrap
<1> QED
  BY <1>1, <1>2 DEF Inv

\* Every operation keeps the three counters in agreement.
LEMMA StepInv == Inv /\ [Next]_vars => Inv'
<1> SUFFICES ASSUME Inv, [Next]_vars PROVE TypeOK' /\ RingInv'
  BY DEF Inv
<1> USE SizeAssumption DEF Inv, TypeOK, Slot
<1>1. ASSUME NEW x \in Cmd, push(x) PROVE TypeOK' /\ RingInv'
  <2>1. buffer' \in [Slot -> Cmd] /\ out' \in Cmd
    BY <1>1 DEF push
  <2>2. nElems' \in 0 .. Size /\ nPush' \in Slot /\ nPop' \in Slot
    BY <1>1 DEF push, NextSlot
  <2>3. res' \in BOOLEAN
    BY <1>1 DEF push
  <2>4. RingInv'
    BY <1>1 DEF push, NextSlot, RingInv, Wrap
  <2> QED
    BY <2>1, <2>2, <2>3, <2>4
<1>2. CASE pop
  <2>1. buffer' \in [Slot -> Cmd] /\ out' \in Cmd
    BY <1>2 DEF pop, Oldest
  <2>2. nElems' \in 0 .. Size /\ nPush' \in Slot /\ nPop' \in Slot
    BY <1>2 DEF pop, NextSlot
  <2>3. res' \in BOOLEAN
    BY <1>2 DEF pop
  <2>4. RingInv'
    BY <1>2 DEF pop, NextSlot, RingInv, Wrap
  <2> QED
    BY <2>1, <2>2, <2>3, <2>4
<1>3. CASE clear
  BY <1>3 DEF clear, RingInv, Wrap
<1>4. CASE UNCHANGED vars
  BY <1>4 DEF vars, RingInv, Wrap
<1> QED
  BY <1>1, <1>2, <1>3, <1>4 DEF Next

\* Every reachable state is type-correct.
THEOREM TypeCorrect == Spec => []TypeOK
<1>1. Inv => TypeOK
  BY DEF Inv
<1> QED
  BY <1>1, InitInv, StepInv, PTL DEF Spec

\* The write slot is always the read slot advanced by the element count.
THEOREM RingCorrect == Spec => []RingInv
<1>1. Inv => RingInv
  BY DEF Inv
<1> QED
  BY <1>1, InitInv, StepInv, PTL DEF Spec

-----------------------------------------------------------------------------
(* The refinement.  One lemma per operation says what it does to Contents. *)

\* The queue holds as many commands as nElems says.
LEMMA ContentsLength ==
  Inv => Contents \in Seq(Cmd) /\ Len(Contents) = nElems
<1> SUFFICES ASSUME Inv
             PROVE  Contents \in Seq(Cmd) /\ Len(Contents) = nElems
  OBVIOUS
<1>1. \A i \in 1 .. nElems : buffer[Wrap(nPop + i - 1)] \in Cmd
  BY SizeAssumption DEF Inv, TypeOK, Wrap, Slot
<1>2. nElems \in Nat
  BY SizeAssumption DEF Inv, TypeOK
<1> QED
  BY <1>1, <1>2 DEF Contents

\* A push adds the command behind all others, wherever the ring wraps.
LEMMA PushContents ==
  ASSUME Inv, Inv', NEW x \in Cmd, nElems < Size,
         buffer' = [buffer EXCEPT ![nPush] = x],
         nElems' = nElems + 1, nPop' = nPop
  PROVE  Contents' = Append(Contents, x)
<1>1. Contents \in Seq(Cmd) /\ Len(Contents) = nElems
  BY ContentsLength
<1>2. Contents' \in Seq(Cmd) /\ Len(Contents') = nElems + 1
  <2>1. (Inv => Contents \in Seq(Cmd) /\ Len(Contents) = nElems)'
    BY ContentsLength, PTL
  <2> QED
    BY <2>1
<1>3. /\ Append(Contents, x) \in Seq(Cmd)
      /\ Len(Append(Contents, x)) = nElems + 1
      /\ \A i \in 1 .. nElems : Append(Contents, x)[i] = Contents[i]
      /\ Append(Contents, x)[nElems + 1] = x
  BY <1>1, AppendProperties
<1>4. ASSUME NEW i \in 1 .. nElems
      PROVE  Contents'[i] = Contents[i]
  <2>1. buffer'[Wrap(nPop + i - 1)] = buffer[Wrap(nPop + i - 1)]
    BY SizeAssumption DEF Inv, TypeOK, RingInv, Wrap, Slot
  <2> QED
    BY <2>1, SizeAssumption DEF Contents, Inv, TypeOK
<1>5. Contents'[nElems + 1] = x
  <2>1. buffer'[Wrap(nPop + nElems)] = x
    BY SizeAssumption DEF Inv, TypeOK, RingInv, Wrap, Slot
  <2>2. nElems + 1 \in 1 .. nElems' /\ nPop' + (nElems + 1) - 1 = nPop + nElems
    BY SizeAssumption DEF Inv, TypeOK, Slot
  <2> QED
    BY <2>1, <2>2 DEF Contents
<1>6. \A i \in 1 .. nElems + 1 : Contents'[i] = Append(Contents, x)[i]
  BY <1>3, <1>4, <1>5, SizeAssumption DEF Inv, TypeOK
<1> QED
  BY <1>2, <1>3, <1>6, SeqEqual

\* A pop removes the oldest command, wherever the ring wraps.
LEMMA PopContents ==
  ASSUME Inv, Inv', nElems > 0, nElems' = nElems - 1,
         nPop' = NextSlot(nPop), buffer' = buffer
  PROVE  /\ Contents # <<>>
         /\ Oldest = Head(Contents)
         /\ Contents' = Tail(Contents)
<1>1. Contents \in Seq(Cmd) /\ Len(Contents) = nElems /\ Contents # <<>>
  BY ContentsLength
<1>2. Contents' \in Seq(Cmd) /\ Len(Contents') = nElems - 1
  <2>1. (Inv => Contents \in Seq(Cmd) /\ Len(Contents) = nElems)'
    BY ContentsLength, PTL
  <2> QED
    BY <2>1
<1>3. Oldest = Head(Contents)
  <2>1. Contents[1] = buffer[nPop]
    BY SizeAssumption DEF Contents, Inv, TypeOK, Wrap, Slot
  <2> QED
    BY <1>1, <2>1 DEF Oldest
<1>4. /\ Tail(Contents) \in Seq(Cmd)
      /\ Len(Tail(Contents)) = nElems - 1
      /\ \A i \in 1 .. nElems - 1 : Tail(Contents)[i] = Contents[i + 1]
  BY <1>1, HeadTailProperties
<1>5. ASSUME NEW i \in 1 .. nElems - 1
      PROVE  Contents'[i] = Contents[i + 1]
  <2>1. i \in 1 .. nElems' /\ i + 1 \in 1 .. nElems
    BY SizeAssumption DEF Inv, TypeOK
  <2>2. Wrap(nPop' + i - 1) = Wrap(nPop + (i + 1) - 1)
    BY SizeAssumption DEF Inv, TypeOK, NextSlot, Wrap, Slot
  <2> QED
    BY <2>1, <2>2 DEF Contents
<1> QED
  BY <1>1, <1>2, <1>3, <1>4, <1>5, SeqEqual

\* A queue without elements has no contents.
LEMMA EmptyContents ==
  ASSUME Inv, nElems = 0
  PROVE  Contents = <<>>
  BY ContentsLength, EmptySeq

\* Initial states map to initial states of the bounded FIFO.
LEMMA InitRefines == Init => Fifo!FifoInit
<1> SUFFICES ASSUME Init PROVE Fifo!FifoInit
  OBVIOUS
<1>1. Contents = <<>>
  BY InitInv, EmptyContents DEF Init
<1> QED
  BY <1>1 DEF Init, Fifo!FifoInit

\* Every step of the ring is a step of the bounded FIFO or leaves it alone.
LEMMA StepRefines ==
  Inv /\ Inv' /\ [Next]_vars => [Fifo!FifoNext]_(Fifo!fifoVars)
<1> SUFFICES ASSUME Inv, Inv', [Next]_vars
             PROVE  [Fifo!FifoNext]_(Fifo!fifoVars)
  OBVIOUS
<1>1. ASSUME NEW x \in Cmd, push(x) PROVE Fifo!FifoPush(x)
  <2>1. CASE nElems < Size
    <3>1. /\ buffer' = [buffer EXCEPT ![nPush] = x]
          /\ nElems' = nElems + 1
          /\ res' = TRUE
          /\ UNCHANGED <<nPop, out>>
      BY <1>1, <2>1, SizeAssumption DEF push, Inv, TypeOK
    <3>2. Contents' = Append(Contents, x)
      BY <2>1, <3>1, PushContents
    <3> QED
      BY <2>1, <3>1, <3>2, ContentsLength DEF Fifo!FifoPush
  <2>2. CASE nElems >= Size
    <3>1. nElems = Size
      BY <2>2, SizeAssumption DEF Inv, TypeOK
    <3>2. Contents' = Contents
      BY <1>1, <2>2, <3>1, SizeAssumption DEF push, Contents, Wrap
    <3> QED
      BY <1>1, <2>2, <3>1, <3>2, SizeAssumption, ContentsLength
      DEF push, Fifo!FifoPush
  <2> QED
    BY <2>1, <2>2, SizeAssumption DEF Inv, TypeOK
<1>2. ASSUME pop PROVE Fifo!FifoPop
  <2>1. CASE nElems > 0
    <3>1. /\ out' = Oldest
          /\ nElems' = nElems - 1
          /\ nPop' = NextSlot(nPop)
          /\ res' = TRUE
          /\ UNCHANGED <<buffer, nPush>>
      BY <1>2, <2>1, SizeAssumption DEF pop, Inv, TypeOK
    <3> QED
      BY <2>1, <3>1, PopContents DEF Fifo!FifoPop
  <2>2. CASE nElems <= 0
    <3>1. nElems = 0
      BY <2>2, SizeAssumption DEF Inv, TypeOK
    <3>2. Contents = <<>> /\ Contents' = Contents
      BY <1>2, <2>2, <3>1, EmptyContents DEF pop, Contents, Wrap
    <3> QED
      BY <1>2, <2>2, <3>1, <3>2 DEF pop, Fifo!FifoPop
  <2> QED
    BY <2>1, <2>2, SizeAssumption DEF Inv, TypeOK
<1>3. ASSUME clear PROVE Fifo!FifoClear
  <2>1. Contents' = <<>>
    BY <1>3 DEF clear, Contents
  <2> QED
    BY <1>3, <2>1 DEF clear, Fifo!FifoClear
<1>4. ASSUME UNCHANGED vars PROVE UNCHANGED Fifo!fifoVars
  BY <1>4 DEF vars, Contents, Wrap, Fifo!fifoVars
<1> QED
  BY <1>1, <1>2, <1>3, <1>4 DEF Next, Fifo!FifoNext

\* The ring buffer implements the bounded FIFO.
THEOREM RingImplementsFifo == Spec => ImplementsFifo
<1>1. Spec => []Inv
  BY InitInv, StepInv, PTL DEF Spec
<1> QED
  BY <1>1, InitRefines, StepRefines, PTL
  DEF Spec, ImplementsFifo, Fifo!FifoSpec
=============================================================================
