-------------------------- MODULE SunxiQueueProofs -------------------------
(***************************************************************************)
(* Proofs about SunxiQueue, for every capacity and every set of events:    *)
(* the type invariant, that the slot a Dequeue copies is stable, and that  *)
(* the ring with its preemptible Dequeue implements the abstract FIFO.     *)
(***************************************************************************)
EXTENDS SunxiQueue, SequenceTheorems, TLAPS

USE MaxItermAssumption, ItemAssumption

(* Taking the successor modulo MaxItermCount + 1 wraps at the last slot    *)
(* and nowhere else.                                                       *)
LEMMA SuccessorValue ==
  ASSUME NEW i \in Slots
  PROVE  /\ Successor(i) = IF i = MaxItermCount THEN 0 ELSE i + 1
         /\ Successor(i) \in Slots
<1>1. i + 1 \in 0..(MaxItermCount + 1)
  BY DEF Slots
<1>2. CASE i = MaxItermCount
  BY <1>2 DEF Successor, Slots
<1>3. CASE i # MaxItermCount
  <2>1. i + 1 \in 0..MaxItermCount
    BY <1>3 DEF Slots
  <2>2. (i + 1) % (MaxItermCount + 1) = i + 1
    BY <2>1
  <2> QED
    BY <1>3, <2>1, <2>2 DEF Successor, Slots
<1> QED
  BY <1>2, <1>3

(* The inductive invariant is the conjunction of the two invariants: what  *)
(* keeps the slot under copy stable is that Enqueue writes at Tail, which  *)
(* differs from Head as long as the queue is not empty, and stops before   *)
(* Tail would reach Head.                                                  *)
IInv == TypeOK /\ CopiedSlotStable

(* InitQueue leaves an empty ring.                                         *)
LEMMA InitIInv == Init => IInv
  BY DEF Init, IInv, TypeOK, CopiedSlotStable, Slots

(* No Enqueue, wherever it interrupts Dequeue, breaks it.                  *)
LEMMA StepIInv == IInv /\ [Next]_vars => IInv'
<1> SUFFICES ASSUME IInv, [Next]_vars PROVE IInv'
  OBVIOUS
<1> USE DEF IInv, TypeOK, CopiedSlotStable
<1>1. CASE InitQueue
  BY <1>1 DEF InitQueue, Slots
<1>2. ASSUME NEW x \in Item, EnqueueItem(x) PROVE IInv'
  <2>1. Successor(TailIdx) \in Slots
    BY SuccessorValue
  <2>2. TypeOK'
    BY <1>2, <2>1 DEF EnqueueItem
  <2>3. CopiedSlotStable'
    <3>1. HeadIdx' = HeadIdx /\ TailIdx' = Successor(TailIdx) /\ pc' = pc /\ copy' = copy
      BY <1>2 DEF EnqueueItem
    <3>2. HeadIdx' # TailIdx'
      BY <1>2, <3>1 DEF EnqueueItem, IsQueueFull
    <3>3. pc = "advance" => Buffer'[HeadIdx] = Buffer[HeadIdx]
      BY <1>2 DEF EnqueueItem, IsQueueEmpty
    <3> QED
      BY <3>1, <3>2, <3>3 DEF IsQueueEmpty
  <2> QED
    BY <2>2, <2>3
<1>3. CASE EnqueueRefused
  BY <1>3 DEF EnqueueRefused, IsQueueEmpty
<1>4. CASE DequeueEmpty
  BY <1>4 DEF DequeueEmpty, IsQueueEmpty
<1>5. CASE DequeueStart
  BY <1>5 DEF DequeueStart, IsQueueEmpty
<1>6. CASE DequeueCopy
  BY <1>6 DEF DequeueCopy, IsQueueEmpty
<1>7. CASE DequeueAdvance
  <2>1. Successor(HeadIdx) \in Slots
    BY SuccessorValue
  <2> QED
    BY <1>7, <2>1 DEF DequeueAdvance, IsQueueEmpty
<1>8. CASE UNCHANGED vars
  BY <1>8 DEF vars, IsQueueEmpty
<1> QED
  BY <1>1, <1>2, <1>3, <1>4, <1>5, <1>6, <1>7, <1>8 DEF Next, Enqueue, Dequeue

(* The fields of the queue keep their types and Dequeue copies a slot that *)
(* the interrupt handler does not touch, for every capacity of the ring.   *)
THEOREM QueueInvariant == Spec => [](TypeOK /\ CopiedSlotStable)
<1>1. Init => IInv
  BY InitIInv
<1>2. IInv /\ [Next]_vars => IInv'
  BY StepIInv
<1> QED
  BY <1>1, <1>2, PTL DEF Spec, IInv

-----------------------------------------------------------------------------
(* How the queued items change when the ring's indices move.               *)

(* The indices tell an empty ring from a full one.                         *)
LEMMA CountFacts ==
  ASSUME TypeOK
  PROVE  /\ Count \in 0..MaxItermCount
         /\ IsQueueEmpty <=> Count = 0
         /\ IsQueueFull <=> Count = MaxItermCount
<1>1. Successor(TailIdx) = IF TailIdx = MaxItermCount THEN 0 ELSE TailIdx + 1
  BY SuccessorValue DEF TypeOK
<1> QED
  BY <1>1 DEF TypeOK, Count, IsQueueEmpty, IsQueueFull, Slots

(* The queued items are as many as the indices say.                        *)
LEMMA ContentsType ==
  ASSUME TypeOK
  PROVE  /\ Contents \in Seq(Item)
         /\ Len(Contents) = Count
<1>1. Count \in Nat
  BY CountFacts
<1>2. ASSUME NEW i \in 1..Count PROVE SlotFrom(i - 1) \in Slots
  BY <1>1, CountFacts DEF SlotFrom, TypeOK, Slots
<1>3. Contents \in [1..Count -> Item]
  BY <1>2 DEF Contents, TypeOK
<1> QED
  BY <1>1, <1>3 DEF Contents

(* The same of the next state.                                             *)
LEMMA ContentsTypeNext ==
  (TypeOK => (Contents \in Seq(Item) /\ Len(Contents) = Count))'
<1>1. TypeOK => (Contents \in Seq(Item) /\ Len(Contents) = Count)
  BY ContentsType
<1> QED
  BY <1>1, PTL

(* Enqueue appends its item, across the wrap of Tail, too.                 *)
LEMMA EnqueueContents ==
  ASSUME TypeOK, NEW x \in Item, EnqueueItem(x)
  PROVE  Contents' = Append(Contents, x)
<1>1. Successor(TailIdx) = IF TailIdx = MaxItermCount THEN 0 ELSE TailIdx + 1
  BY SuccessorValue DEF TypeOK
<1>2. Count' = Count + 1 /\ Count \in Nat
  BY <1>1, CountFacts DEF EnqueueItem, Count, TypeOK, IsQueueFull, Slots
<1>3. SlotFrom(Count) = TailIdx
  BY DEF SlotFrom, Count, TypeOK, Slots
<1>4. ASSUME NEW i \in 1..Count
      PROVE  SlotFrom(i - 1) \in Slots /\ SlotFrom(i - 1) # TailIdx
  BY CountFacts DEF SlotFrom, Count, TypeOK, Slots
<1>5. ASSUME NEW i \in 1..Count + 1
      PROVE  Buffer'[SlotFrom(i - 1)] = IF i <= Count THEN Buffer[SlotFrom(i - 1)] ELSE x
  <2>1. CASE i <= Count
    BY <2>1, <1>2, <1>4 DEF EnqueueItem, TypeOK
  <2>2. CASE i = Count + 1
    BY <2>2, <1>2, <1>3 DEF EnqueueItem, TypeOK
  <2> QED
    BY <1>2, <2>1, <2>2
<1>6. \A n : SlotFrom(n)' = SlotFrom(n)
  BY DEF SlotFrom, EnqueueItem
<1>7. Contents' = [i \in 1..Count + 1 |-> Buffer'[SlotFrom(i - 1)]]
  BY <1>2, <1>6 DEF Contents
<1>8. /\ Append(Contents, x) \in Seq(Item)
      /\ Len(Append(Contents, x)) = Count + 1
      /\ \A i \in 1..Count : Append(Contents, x)[i] = Contents[i]
      /\ Append(Contents, x)[Count + 1] = x
  BY <1>2, ContentsType, AppendProperties
<1>9. ASSUME NEW i \in 1..Count + 1 PROVE Contents'[i] = Append(Contents, x)[i]
  BY <1>2, <1>5, <1>7, <1>8 DEF Contents
<1>10. Contents' \in Seq(Item) /\ Len(Contents') = Count + 1
  <2>1. TypeOK'
    BY SuccessorValue DEF TypeOK, EnqueueItem
  <2> QED
    BY <1>2, <2>1, ContentsTypeNext
<1> QED
  BY <1>8, <1>9, <1>10, SeqEqual

(* The update of Head removes the item it stood at, and no other.          *)
LEMMA AdvanceContents ==
  ASSUME TypeOK, ~IsQueueEmpty, DequeueAdvance
  PROVE  /\ Contents # <<>>
         /\ Head(Contents) = Buffer[HeadIdx]
         /\ Contents' = Tail(Contents)
<1>1. Successor(HeadIdx) = IF HeadIdx = MaxItermCount THEN 0 ELSE HeadIdx + 1
  BY SuccessorValue DEF TypeOK
<1>2. Count \in Nat /\ Count > 0 /\ Count' = Count - 1
  BY <1>1, CountFacts DEF DequeueAdvance, Count, TypeOK, IsQueueEmpty, Slots
<1>3. Contents # <<>> /\ Head(Contents) = Contents[1]
  BY <1>2, ContentsType
<1>4. Contents[1] = Buffer[HeadIdx]
  BY <1>2 DEF Contents, SlotFrom, TypeOK, Slots
<1>5. ASSUME NEW i \in 1..Count - 1
      PROVE  SlotFrom(i - 1)' = SlotFrom(i)
  BY <1>1, <1>2, CountFacts DEF SlotFrom, DequeueAdvance, TypeOK, Slots
<1>6. Contents' = [i \in 1..Count - 1 |-> Buffer[SlotFrom(i)]]
  BY <1>2, <1>5 DEF Contents, DequeueAdvance
<1>7. /\ Tail(Contents) \in Seq(Item)
      /\ Len(Tail(Contents)) = Count - 1
      /\ \A i \in 1..Count - 1 : Tail(Contents)[i] = Contents[i + 1]
  BY <1>2, <1>3, ContentsType, HeadTailProperties
<1>8. ASSUME NEW i \in 1..Count - 1
      PROVE  Contents[i + 1] = Buffer[SlotFrom(i)]
  <2>1. i + 1 \in 1..Count /\ (i + 1) - 1 = i
    BY <1>2
  <2> QED
    BY <2>1 DEF Contents
<1>9. Contents' \in Seq(Item) /\ Len(Contents') = Count - 1
  <2>1. TypeOK'
    BY SuccessorValue DEF TypeOK, DequeueAdvance
  <2> QED
    BY <1>2, <2>1, ContentsTypeNext
<1>10. Contents' = Tail(Contents)
  BY <1>6, <1>7, <1>8, <1>9, SeqEqual
<1> QED
  BY <1>3, <1>4, <1>10

(* The empty ring is the empty abstract queue.                             *)
LEMMA InitRefines == Init => Fifo!FifoInit
<1> SUFFICES ASSUME Init PROVE Fifo!FifoInit
  OBVIOUS
<1>1. TypeOK
  BY InitIInv DEF IInv
<1>2. Contents = <<>>
  BY <1>1, ContentsType DEF Init, Count
<1> QED
  BY <1>2 DEF Init, Fifo!FifoInit

(* Each step is one of the abstract queue, or leaves it alone.             *)
LEMMA StepRefines == IInv /\ IInv' /\ [Next]_vars => [Fifo!FifoNext]_Fifo!fifoVars
<1> SUFFICES ASSUME IInv, IInv', [Next]_vars
             PROVE  Fifo!FifoNext \/ UNCHANGED Fifo!fifoVars
  OBVIOUS
<1> USE DEF IInv
<1>0. Len(Contents) = Count /\ Contents \in Seq(Item)
  BY ContentsType
<1>1. CASE InitQueue
  <2>1. Contents' = <<>>
    BY <1>1, ContentsType DEF InitQueue, Count, Contents
  <2> QED
    BY <1>1, <2>1 DEF InitQueue, Fifo!FifoNext, Fifo!Flush
<1>2. ASSUME NEW x \in Item, EnqueueItem(x) PROVE Fifo!FifoNext
  <2>1. Contents' = Append(Contents, x)
    BY <1>2, EnqueueContents
  <2>2. Len(Contents) < MaxItermCount
    BY <1>2, <1>0, CountFacts DEF EnqueueItem
  <2> QED
    BY <1>2, <2>1, <2>2 DEF EnqueueItem, Fifo!FifoNext, Fifo!Put
<1>3. CASE EnqueueRefused
  <2>1. Len(Contents) = MaxItermCount
    BY <1>3, <1>0, CountFacts DEF EnqueueRefused
  <2>2. Contents' = Contents
    BY <1>3 DEF EnqueueRefused, Contents, SlotFrom, Count
  <2> QED
    BY <1>3, <2>1, <2>2 DEF EnqueueRefused, Fifo!FifoNext, Fifo!Refuse
<1>4. CASE DequeueEmpty
  <2>1. Contents = <<>>
    BY <1>4, <1>0, CountFacts DEF DequeueEmpty
  <2>2. Contents' = Contents
    BY <1>4 DEF DequeueEmpty, Contents, SlotFrom, Count
  <2> QED
    BY <1>4, <2>1, <2>2 DEF DequeueEmpty, Fifo!FifoNext, Fifo!Nothing
<1>5. CASE DequeueStart
  BY <1>5 DEF DequeueStart, Contents, SlotFrom, Count, Fifo!fifoVars
<1>6. CASE DequeueCopy
  BY <1>6 DEF DequeueCopy, Contents, SlotFrom, Count, Fifo!fifoVars
<1>7. CASE DequeueAdvance
  <2>1. ~IsQueueEmpty /\ copy = Buffer[HeadIdx]
    BY <1>7 DEF DequeueAdvance, CopiedSlotStable
  <2>2. Contents # <<>> /\ Head(Contents) = copy /\ Contents' = Tail(Contents)
    BY <1>7, <2>1, AdvanceContents
  <2> QED
    BY <1>7, <2>2 DEF DequeueAdvance, Fifo!FifoNext, Fifo!Get
<1>8. CASE UNCHANGED vars
  BY <1>8 DEF vars, Contents, SlotFrom, Count, Fifo!fifoVars
<1> QED
  BY <1>1, <1>2, <1>3, <1>4, <1>5, <1>6, <1>7, <1>8 DEF Next, Enqueue, Dequeue

(* The ring implements the bounded FIFO: whatever the capacity and however *)
(* the handler's Enqueue falls between the steps of a Dequeue, events come *)
(* out once, whole and in order, and are refused only at full capacity.    *)
THEOREM QueueImplementsFifo == Spec => ImplementsFifo
<1>1. Init => Fifo!FifoInit
  BY InitRefines
<1>2. IInv /\ IInv' /\ [Next]_vars => [Fifo!FifoNext]_Fifo!fifoVars
  BY StepRefines
<1>3. Spec => []IInv
  <2>1. Init => IInv
    BY InitIInv
  <2>2. IInv /\ [Next]_vars => IInv'
    BY StepIInv
  <2> QED
    BY <2>1, <2>2, PTL DEF Spec
<1> QED
  BY <1>1, <1>2, <1>3, PTL DEF Spec, ImplementsFifo, Fifo!FifoSpec
=============================================================================
