----------------------------- MODULE SunxiQueue ----------------------------
(***************************************************************************)
(* Library/SunxiQueueLib/SunxiQueueLib.c: the ring buffer between the USB  *)
(* interrupt handler and the code that polls EventHandler.                 *)
(*                                                                         *)
(* The ring has MaxItermCount + 1 slots; Head is the slot of the oldest    *)
(* item, Tail the slot the next item goes to, and the two are equal when   *)
(* the queue is empty, so one slot is always unused.                       *)
(*                                                                         *)
(* There is no lock.  Enqueue is only called by sunxi_usb_irq, which runs  *)
(* to its end before the code it interrupted goes on: it is one action.    *)
(* Dequeue runs with interrupts enabled, so that the handler may come      *)
(* between its test, its CopyMem and its update of Head: they are three.   *)
(* InitQueue is called by the first ConfigureEnableEndpoints after a start *)
(* of the controller, when the interrupt source is still off, and is one   *)
(* action.  (A repeated ConfigureEnableEndpoints would call it with the    *)
(* source on; that is not modelled.)  Nor is the storage's address.        *)
(***************************************************************************)
EXTENDS Naturals, Sequences

CONSTANTS Item,          \* the events that can be queued
          NoItem,        \* the content of a local variable not yet written
          MaxItermCount  \* the queue's capacity, 64 for the USB events

ASSUME MaxItermAssumption == MaxItermCount \in Nat \ {0}
ASSUME ItemAssumption == NoItem \notin Item

VARIABLES Buffer,   \* Queue->Buffer: the slots
          HeadIdx,  \* Queue->Head
          TailIdx,  \* Queue->Tail
          pc,       \* where Dequeue is
          copy,     \* Dequeue's *Item after its CopyMem
          handed,   \* the last item Dequeue returned with EFI_SUCCESS
          enqOK,    \* the last Enqueue returned EFI_SUCCESS
          deqOK     \* the last Dequeue returned EFI_SUCCESS

vars == <<Buffer, HeadIdx, TailIdx, pc, copy, handed, enqOK, deqOK>>

Slots == 0..MaxItermCount

Successor(i) == (i + 1) % (MaxItermCount + 1)

IsQueueEmpty == HeadIdx = TailIdx

(* Mutant of IsQueueFull: the test that compares without wrapping.          *)
MutFullNoWrap == TailIdx + 1 = HeadIdx

IsQueueFull == Successor(TailIdx) = HeadIdx

(* The queue as the first InitQueue leaves it; AllocatePool does not clear *)
(* the slots, so their content is arbitrary.                               *)
Init ==
  /\ Buffer \in [Slots -> Item]
  /\ HeadIdx = 0
  /\ TailIdx = 0
  /\ pc = "idle"
  /\ copy = NoItem
  /\ handed = NoItem
  /\ enqOK = TRUE
  /\ deqOK = TRUE

(* InitQueue: only between two calls of the consumer, as it is called by   *)
(* the consumer's own thread.                                              *)
InitQueue ==
  /\ pc = "idle"
  /\ HeadIdx' = 0
  /\ TailIdx' = 0
  /\ Buffer' \in [Slots -> Item]
  /\ UNCHANGED <<pc, copy, handed, enqOK, deqOK>>

EnqueueItem(x) ==
  /\ ~IsQueueFull
  /\ Buffer' = [Buffer EXCEPT ![TailIdx] = x]
  /\ TailIdx' = Successor(TailIdx)
  /\ enqOK' = TRUE
  /\ UNCHANGED <<HeadIdx, pc, copy, handed, deqOK>>

EnqueueRefused ==
  /\ IsQueueFull
  /\ enqOK' = FALSE
  /\ UNCHANGED <<Buffer, HeadIdx, TailIdx, pc, copy, handed, deqOK>>

Enqueue(x) == EnqueueItem(x) \/ EnqueueRefused

(* EventHandler asks IsQueueEmpty before it calls Dequeue, which asks      *)
(* again: as only the consumer empties the queue, one test stands for both.*)
DequeueEmpty ==
  /\ pc = "idle"
  /\ IsQueueEmpty
  /\ deqOK' = FALSE
  /\ UNCHANGED <<Buffer, HeadIdx, TailIdx, pc, copy, handed, enqOK>>

DequeueStart ==
  /\ pc = "idle"
  /\ ~IsQueueEmpty
  /\ pc' = "copy"
  /\ UNCHANGED <<Buffer, HeadIdx, TailIdx, copy, handed, enqOK, deqOK>>

(* Mutant of DequeueCopy: Head is published before the slot is copied.      *)
MutAdvanceFirst ==
  /\ pc = "copy"
  /\ HeadIdx' = Successor(HeadIdx)
  /\ copy' = Buffer[HeadIdx]
  /\ pc' = "advance"
  /\ UNCHANGED <<Buffer, TailIdx, handed, enqOK, deqOK>>

DequeueCopy ==
  /\ pc = "copy"
  /\ copy' = Buffer[HeadIdx]
  /\ pc' = "advance"
  /\ UNCHANGED <<Buffer, HeadIdx, TailIdx, handed, enqOK, deqOK>>

DequeueAdvance ==
  /\ pc = "advance"
  /\ HeadIdx' = Successor(HeadIdx)
  /\ handed' = copy
  /\ deqOK' = TRUE
  /\ copy' = NoItem
  /\ pc' = "idle"
  /\ UNCHANGED <<Buffer, TailIdx, enqOK>>

Dequeue == DequeueEmpty \/ DequeueStart \/ DequeueCopy \/ DequeueAdvance

Next == InitQueue \/ (\E x \in Item : Enqueue(x)) \/ Dequeue

Spec == Init /\ [][Next]_vars

-----------------------------------------------------------------------------
(* Properties.                                                             *)

(* Type correctness of the queue's fields and of Dequeue's locals.         *)
TypeOK ==
  /\ Buffer \in [Slots -> Item]
  /\ HeadIdx \in Slots
  /\ TailIdx \in Slots
  /\ pc \in {"idle", "copy", "advance"}
  /\ copy \in Item \cup {NoItem}
  /\ handed \in Item \cup {NoItem}
  /\ enqOK \in BOOLEAN
  /\ deqOK \in BOOLEAN

(* The number of items between Head and Tail, around the end of the ring.  *)
Count == IF TailIdx >= HeadIdx THEN TailIdx - HeadIdx
                               ELSE TailIdx + (MaxItermCount + 1) - HeadIdx

(* The i-th slot from Head on.                                             *)
SlotFrom(i) == IF HeadIdx + i > MaxItermCount
                 THEN HeadIdx + i - (MaxItermCount + 1)
                 ELSE HeadIdx + i

(* The queued items, oldest first.                                         *)
Contents == [i \in 1..Count |-> Buffer[SlotFrom(i - 1)]]

(* While Dequeue is between its test and its update of Head, the slot it   *)
(* copies still holds the item it copies: no Enqueue of the interrupt      *)
(* handler reaches it, and the queue has not become empty.                 *)
CopiedSlotStable ==
  /\ pc # "idle" => ~IsQueueEmpty
  /\ pc = "advance" => copy = Buffer[HeadIdx]

(* The code before and after the ring wraps implements the abstract queue: *)
(* no event is lost, duplicated, reordered or torn, and refusals happen    *)
(* only when MaxItermCount events wait.                                    *)
Fifo == INSTANCE FifoQueue WITH
          q <- Contents, putOK <- enqOK, getOK <- deqOK,
          Capacity <- MaxItermCount

ImplementsFifo == Fifo!FifoSpec
=============================================================================
