--------------------------- MODULE WaitableQueue ---------------------------
(***************************************************************************)
(* QueueFifoWaitable.hpp: a bounded queue whose consumers may block, with  *)
(* or without a time limit, and which may be closed.                       *)
(*                                                                         *)
(* All its state is protected by mutex_, so each critical section is one   *)
(* step; a cv_.wait that finds its predicate false and blocks is one step  *)
(* too, as every change of the predicate needs the mutex it holds.  What   *)
(* comes after a critical section is a step of its own: notify_one after   *)
(* push and notify_all after close are called without the mutex.           *)
(***************************************************************************)
EXTENDS Naturals, Sequences, FiniteSets, Functions

CONSTANTS
  Producers,  \* threads that push
  Consumers,  \* threads that pop, wait_pop and wait_pop_for
  Closers,    \* threads that close; the destructor is one of them
  Items,      \* what is pushed
  NoItem,
  capacity    \* capacity_

ASSUME ThreadsAssumption  == IsFiniteSet(Producers) /\ IsFiniteSet(Consumers)
ASSUME BoundAssumption    == capacity \in Nat

VARIABLES
  queue,    \* queue_
  closed,   \* closed_
  pushPc,   \* where producer p is in push
  popPc,    \* where consumer c is in wait_pop or wait_pop_for
  timed,    \* whether the wait of consumer c is that of wait_pop_for
  closePc,  \* where closer k is in close
  out       \* the value popped last

qvars == <<queue, closed, pushPc, popPc, timed, closePc, out>>

ConsPcs == {"idle", "decide", "waiting", "expired"}

ConsumersAt(pcs) == {c \in Consumers : popPc[c] \in pcs}
PushersNotifying == {p \in Producers : pushPc[p] = "notify"}

QInit ==
  /\ queue = << >>
  /\ closed = FALSE
  /\ pushPc = [p \in Producers |-> "idle"]
  /\ popPc = [c \in Consumers |-> "idle"]
  /\ timed = [c \in Consumers |-> FALSE]
  /\ closePc = [k \in Closers |-> "idle"]
  /\ out = NoItem
-----------------------------------------------------------------------------
(* Producers.  push on a full or closed queue returns false: a stuttering  *)
(* step.                                                                   *)

\* Mutation: a closed queue still takes items.
PushWhenClosed(p, v) ==
  /\ pushPc[p] = "idle"
  /\ Len(queue) < capacity
  /\ queue' = Append(queue, v)
  /\ pushPc' = [pushPc EXCEPT ![p] = "notify"]
  /\ UNCHANGED <<closed, popPc, timed, closePc, out>>

Push(p, v) ==
  /\ pushPc[p] = "idle"
  /\ ~closed /\ Len(queue) < capacity
  /\ queue' = Append(queue, v)
  /\ pushPc' = [pushPc EXCEPT ![p] = "notify"]
  /\ UNCHANGED <<closed, popPc, timed, closePc, out>>

\* notify_one wakes any one waiting consumer; with none waiting it is lost.
NotifyOne(p) ==
  /\ pushPc[p] = "notify"
  /\ IF ConsumersAt({"waiting"}) = {}
       THEN UNCHANGED popPc
       ELSE \E c \in ConsumersAt({"waiting"}) : popPc' = [popPc EXCEPT ![c] = "decide"]
  /\ pushPc' = [pushPc EXCEPT ![p] = "idle"]
  /\ UNCHANGED <<queue, closed, timed, closePc, out>>
-----------------------------------------------------------------------------
(* Consumers.                                                              *)

\* The head of the queue moves to the caller.
TakeFront ==
  /\ queue # << >>
  /\ out' = Head(queue)
  /\ queue' = Tail(queue)

Pop(c) ==
  /\ popPc[c] = "idle"
  /\ TakeFront
  /\ UNCHANGED <<closed, pushPc, popPc, timed, closePc>>

\* A call of wait_pop, or of wait_pop_for, that is about to take the mutex.
WaitPop(c, withTimeout) ==
  /\ popPc[c] = "idle"
  /\ popPc' = [popPc EXCEPT ![c] = "decide"]
  /\ timed' = [timed EXCEPT ![c] = withTimeout]
  /\ UNCHANGED <<queue, closed, pushPc, closePc, out>>

\* With the mutex, and an item: pop it, even from a closed queue.
WaitPopTake(c) ==
  /\ popPc[c] \in {"decide", "expired"}
  /\ TakeFront
  /\ popPc' = [popPc EXCEPT ![c] = "idle"]
  /\ UNCHANGED <<closed, pushPc, timed, closePc>>

\* With the mutex and no item, on a closed queue or after the time limit: the
\* call returns false.
WaitPopFail(c) ==
  /\ \/ popPc[c] = "decide" /\ closed
     \/ popPc[c] = "expired"
  /\ queue = << >>
  /\ popPc' = [popPc EXCEPT ![c] = "idle"]
  /\ UNCHANGED <<queue, closed, pushPc, timed, closePc, out>>

\* Mutation: wait without a predicate.
BlockInAnyCase(c) ==
  /\ popPc[c] = "decide"
  /\ ~closed
  /\ popPc' = [popPc EXCEPT ![c] = "waiting"]
  /\ UNCHANGED <<queue, closed, pushPc, timed, closePc, out>>

WaitPopBlock(c) ==
  /\ popPc[c] = "decide"
  /\ queue = << >> /\ ~closed
  /\ popPc' = [popPc EXCEPT ![c] = "waiting"]
  /\ UNCHANGED <<queue, closed, pushPc, timed, closePc, out>>

SpuriousWakeup(c) ==
  /\ popPc[c] = "waiting"
  /\ popPc' = [popPc EXCEPT ![c] = "decide"]
  /\ UNCHANGED <<queue, closed, pushPc, timed, closePc, out>>

\* The time limit passes: wait_for evaluates its predicate one last time.
Timeout(c) ==
  /\ popPc[c] = "waiting" /\ timed[c]
  /\ popPc' = [popPc EXCEPT ![c] = "expired"]
  /\ UNCHANGED <<queue, closed, pushPc, timed, closePc, out>>
-----------------------------------------------------------------------------
(* Closers.                                                                *)

Close(k) ==
  /\ closePc[k] = "idle"
  /\ closed' = TRUE
  /\ closePc' = [closePc EXCEPT ![k] = "notify"]
  /\ UNCHANGED <<queue, pushPc, popPc, timed, out>>

\* Mutation: notify_one where notify_all is needed.
CloseNotifyOne(k) ==
  /\ closePc[k] = "notify"
  /\ IF ConsumersAt({"waiting"}) = {}
       THEN UNCHANGED popPc
       ELSE \E c \in ConsumersAt({"waiting"}) : popPc' = [popPc EXCEPT ![c] = "decide"]
  /\ closePc' = [closePc EXCEPT ![k] = "idle"]
  /\ UNCHANGED <<queue, closed, pushPc, timed, out>>

CloseNotifyAll(k) ==
  /\ closePc[k] = "notify"
  /\ popPc' = [c \in Consumers |-> IF popPc[c] = "waiting" THEN "decide" ELSE popPc[c]]
  /\ closePc' = [closePc EXCEPT ![k] = "idle"]
  /\ UNCHANGED <<queue, closed, pushPc, timed, out>>
-----------------------------------------------------------------------------
\* A waiting call that is awake and goes for the mutex.
Decide(c) == WaitPopTake(c) \/ WaitPopFail(c) \/ WaitPopBlock(c)

QNext ==
  \/ \E p \in Producers : (\E v \in Items : Push(p, v)) \/ NotifyOne(p)
  \/ \E c \in Consumers :
       \/ Pop(c) \/ (\E withTimeout \in BOOLEAN : WaitPop(c, withTimeout))
       \/ Decide(c) \/ SpuriousWakeup(c) \/ Timeout(c)
  \/ \E k \in Closers : Close(k) \/ CloseNotifyAll(k)

QSpec == QInit /\ [][QNext]_qvars

\* A call that has been made goes on: of the three outcomes of Decide one is
\* always possible, so that weak fairness is enough for it to get the mutex.  The
\* time limit of wait_pop_for is a point in time and passes even if the thread is
\* woken spuriously again and again, hence strong fairness.  Nobody has to call,
\* and no wakeup is promised without a notification.
QFairness ==
  /\ \A p \in Producers : WF_qvars(NotifyOne(p))
  /\ \A c \in Consumers : WF_qvars(Decide(c)) /\ SF_qvars(Timeout(c))
  /\ \A k \in Closers : WF_qvars(CloseNotifyAll(k))

QFairSpec == QSpec /\ QFairness
-----------------------------------------------------------------------------
(* Properties.                                                             *)

\* The queue never exceeds its capacity, whoever pushes (QueueFifoWaitable.hpp:35, 47).
QTypeOK ==
  /\ queue \in Seq(Items) /\ Len(queue) <= capacity
  /\ closed \in BOOLEAN
  /\ pushPc \in [Producers -> {"idle", "notify"}]
  /\ popPc \in [Consumers -> ConsPcs]
  /\ timed \in [Consumers -> BOOLEAN]
  /\ closePc \in [Closers -> {"idle", "notify"}]
  /\ out \in Items \cup {NoItem}

\* While a consumer sleeps, each queued item has somebody who will see to it: a
\* producer that still owes a notify_one, or a consumer that is awake, be it on
\* the way out of a timed wait (QueueFifoWaitable.hpp:33-38, 68-72, 80-85).
NoStrandedItem ==
  ConsumersAt({"waiting"}) # {} =>
    Len(queue) <= Cardinality(PushersNotifying) + Cardinality(ConsumersAt({"decide", "expired"}))

\* The queue implements a bounded FIFO that can be shut: push, pop and both
\* waiting pops keep the order, the bound and the promise of close.
Fifo == INSTANCE BoundedFifo WITH
          Values <- Items, NoValue <- NoItem, Bound <- capacity,
          content <- queue, shut <- closed, last <- out

ImplementsClosableFifo == Fifo!FifoSpec

\* Every wait_pop and wait_pop_for returns once the queue is closed, and a
\* wait_pop_for returns in any case (QueueFifoWaitable.hpp:64-66, 76, 89).
WaitsEnd ==
  \A c \in Consumers : (popPc[c] # "idle" /\ (closed \/ timed[c])) ~> popPc[c] = "idle"
=============================================================================
