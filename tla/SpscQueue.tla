----------------------------- MODULE SpscQueue -----------------------------
(***************************************************************************)
(* QueueFifoSPSC.hpp: the lock-free ring buffer between one producer and   *)
(* one consumer.  Each atomic load and store is a step, and so are the     *)
(* beginning and the end of an access to a slot, which is not atomic.      *)
(*                                                                         *)
(* A load with memory_order_acquire need not return the newest value: it   *)
(* returns some value between the one its thread saw last and the newest.  *)
(* With a value stored by memory_order_release it sees what the storing    *)
(* thread did before, here its accesses to the slots.                      *)
(***************************************************************************)
EXTENDS Integers, Sequences

CONSTANTS Values, NoValue, Capacity

ASSUME CapacityAssumption == Capacity \in Nat
ASSUME ValuesAssumption   == NoValue \notin Values

BufferSize == Capacity + 1
Slots == 0 .. Capacity

VARIABLES
  buffer,    \* buffer_
  head,      \* head_, stored by the producer only
  tail,      \* tail_, stored by the consumer only
  seenTail,  \* the value of tail_ the producer loaded last
  seenHead,  \* the value of head_ the consumer loaded last
  prodPc,    \* where the producer is in push
  item,      \* what it pushes
  consPc,    \* where the consumer is in pop
  taken,     \* what it has read from its slot
  last       \* what pop returned last

prodVars == <<head, seenTail, prodPc, item>>
consVars == <<tail, seenHead, consPc, taken, last>>
svars == <<buffer, prodVars, consVars>>

increment(i) == (i + 1) % BufferSize

\* How far b is ahead of a in the ring, and the indices on the way.
Ahead(a, b) == IF b >= a THEN b - a ELSE b - a + BufferSize
Between(a, b) == {i \in Slots : Ahead(a, i) <= Ahead(a, b)}

SInit ==
  /\ buffer = [i \in Slots |-> NoValue]
  /\ head = 0 /\ tail = 0 /\ seenTail = 0 /\ seenHead = 0
  /\ prodPc = "idle" /\ item = NoValue
  /\ consPc = "idle" /\ taken = NoValue /\ last = NoValue
-----------------------------------------------------------------------------
(* push                                                                    *)

\* Mutation: push does not ask whether the queue is full.
PushUnchecked(v) ==
  /\ prodPc = "idle"
  /\ seenTail' \in Between(seenTail, tail)
  /\ prodPc' = "writing" /\ item' = v
  /\ UNCHANGED <<buffer, head, consVars>>

\* Where the next head is the tail the queue is full and push returns false.
PushCheck(v) ==
  /\ prodPc = "idle"
  /\ seenTail' \in Between(seenTail, tail)
  /\ IF increment(head) = seenTail'
       THEN UNCHANGED <<prodPc, item>>
       ELSE prodPc' = "writing" /\ item' = v
  /\ UNCHANGED <<buffer, head, consVars>>

\* Mutation: the item goes to the slot of the next head.
PushWriteAhead ==
  /\ prodPc = "writing"
  /\ buffer' = [buffer EXCEPT ![increment(head)] = item]
  /\ prodPc' = "written"
  /\ UNCHANGED <<head, seenTail, item, consVars>>

PushWrite ==
  /\ prodPc = "writing"
  /\ buffer' = [buffer EXCEPT ![head] = item]
  /\ prodPc' = "written"
  /\ UNCHANGED <<head, seenTail, item, consVars>>

PushPublish ==
  /\ prodPc = "written"
  /\ head' = increment(head)
  /\ prodPc' = "idle"
  /\ UNCHANGED <<buffer, seenTail, item, consVars>>
-----------------------------------------------------------------------------
(* pop                                                                     *)

\* Where the head is the tail the queue is empty and pop returns nullopt.
PopCheck ==
  /\ consPc = "idle"
  /\ seenHead' \in Between(seenHead, head)
  /\ consPc' = IF tail = seenHead' THEN "idle" ELSE "reading"
  /\ UNCHANGED <<buffer, tail, taken, last, prodVars>>

PopRead ==
  /\ consPc = "reading"
  /\ taken' = buffer[tail]
  /\ consPc' = "read"
  /\ UNCHANGED <<buffer, tail, seenHead, last, prodVars>>

PopPublish ==
  /\ consPc = "read"
  /\ tail' = increment(tail)
  /\ last' = taken
  /\ consPc' = "idle"
  /\ UNCHANGED <<buffer, seenHead, taken, prodVars>>
-----------------------------------------------------------------------------
SNext ==
  \/ \E v \in Values : PushCheck(v)
  \/ PushWrite \/ PushPublish
  \/ PopCheck \/ PopRead \/ PopPublish

SSpec == SInit /\ [][SNext]_svars
-----------------------------------------------------------------------------
(* Properties.                                                             *)

\* Indices and views of them stay within the buffer (QueueFifoSPSC.hpp:89-92).
STypeOK ==
  /\ buffer \in [Slots -> Values \cup {NoValue}]
  /\ head \in Slots /\ tail \in Slots /\ seenTail \in Slots /\ seenHead \in Slots
  /\ prodPc \in {"idle", "writing", "written"}
  /\ consPc \in {"idle", "reading", "read"}
  /\ item \in Values \cup {NoValue} /\ taken \in Values \cup {NoValue}
  /\ last \in Values \cup {NoValue}

\* The producer never writes the slot that the consumer is reading, although
\* either may act on an old value of the other's index (QueueFifoSPSC.hpp:10-23,
\* 40-46, 66-72).
SlotExclusion == ~(prodPc = "writing" /\ consPc = "reading" /\ head = tail)

\* The ring buffer implements a bounded FIFO that nobody shuts: what is in the
\* slots from tail to head, in this order.
Count == Ahead(tail, head)
Slot(i) == IF tail + i - 1 <= Capacity THEN tail + i - 1 ELSE tail + i - 1 - BufferSize
Content == [i \in 1 .. Count |-> buffer[Slot(i)]]

Ring == INSTANCE BoundedFifo WITH Bound <- Capacity, content <- Content, shut <- FALSE

ImplementsBoundedFifo == Ring!FifoSpec

\* What the above rests on, for the proofs of SpscQueueProofs.

\* An old value of the other side's index errs on the safe side: the producer
\* takes the queue for fuller than it is, the consumer for emptier.
ViewsAreSafe ==
  /\ Ahead(seenTail, tail) + Ahead(tail, head) = Ahead(seenTail, head)
  /\ Ahead(tail, seenHead) + Ahead(seenHead, head) = Ahead(tail, head)

\* Between its check and its publication each side has room, or an item.
ChecksHold ==
  /\ prodPc # "idle" => Ahead(seenTail, head) < Capacity /\ item \in Values
  /\ consPc # "idle" => tail # seenHead

\* The slots between tail and head have been written, the one at head too once
\* push has got that far, and the consumer holds what is in the one at tail.
SlotsHold ==
  /\ \A i \in 1 .. Count : buffer[Slot(i)] \in Values
  /\ prodPc = "written" => buffer[head] = item
  /\ consPc = "read" => taken = buffer[tail]
=============================================================================
