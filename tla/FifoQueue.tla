----------------------------- MODULE FifoQueue -----------------------------
(***************************************************************************)
(* What a QUEUE of Library/SunxiQueueLib promises its two users: a bounded *)
(* first-in first-out buffer.  A producer (the USB interrupt handler) puts *)
(* events in, and is refused exactly when Capacity events wait; a consumer *)
(* (the caller of EventHandler) takes the oldest, and is told that there   *)
(* is none exactly when none waits; initialising the queue empties it.     *)
(***************************************************************************)
EXTENDS Naturals, Sequences

CONSTANTS Item,      \* the events that can be queued
          NoItem,    \* what the consumer holds before the first event
          Capacity   \* how many events can wait

VARIABLES q,        \* the waiting events, oldest first
          handed,   \* the event most recently given to the consumer
          putOK,    \* the status the producer last received
          getOK     \* the status the consumer last received

fifoVars == <<q, handed, putOK, getOK>>

FifoInit ==
  /\ q = <<>>
  /\ handed = NoItem
  /\ putOK = TRUE
  /\ getOK = TRUE

Put(x) ==
  /\ Len(q) < Capacity
  /\ q' = Append(q, x)
  /\ putOK' = TRUE
  /\ UNCHANGED <<handed, getOK>>

Refuse ==
  /\ Len(q) = Capacity
  /\ putOK' = FALSE
  /\ UNCHANGED <<q, handed, getOK>>

Get ==
  /\ q # <<>>
  /\ handed' = Head(q)
  /\ q' = Tail(q)
  /\ getOK' = TRUE
  /\ UNCHANGED putOK

Nothing ==
  /\ q = <<>>
  /\ getOK' = FALSE
  /\ UNCHANGED <<q, handed, putOK>>

Flush ==
  /\ q' = <<>>
  /\ UNCHANGED <<handed, putOK, getOK>>

FifoNext ==
  \/ \E x \in Item : Put(x)
  \/ Refuse
  \/ Get
  \/ Nothing
  \/ Flush

FifoSpec == FifoInit /\ [][FifoNext]_fifoVars
=============================================================================
