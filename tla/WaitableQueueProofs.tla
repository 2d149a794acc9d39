------------------------- MODULE WaitableQueueProofs -------------------------
(***************************************************************************)
(* Proofs about WaitableQueue, for any number of producers, consumers and  *)
(* closers, any items and any capacity.                                    *)
(***************************************************************************)
EXTENDS WaitableQueue, FiniteSetTheorems, SequenceTheorems, TLAPS

-----------------------------------------------------------------------------
(* Types.                                                                  *)

\* A new queue is well typed.
LEMMA QueueInit == QInit => QTypeOK
<1> SUFFICES ASSUME QInit
             PROVE  QTypeOK
  OBVIOUS
<1>1. queue \in Seq(Items) /\ Len(queue) <= capacity
  BY BoundAssumption DEF QInit
<1>2. QED
  BY <1>1 DEF QInit, QTypeOK, ConsPcs

\* The head leaves a shorter queue.
LEMMA TakeFrontIs ==
  ASSUME QTypeOK, TakeFront
  PROVE  /\ queue' \in Seq(Items) /\ Len(queue') = Len(queue) - 1
         /\ out' \in Items
<1>1. queue \in Seq(Items) /\ queue # << >>
  BY DEF QTypeOK, TakeFront
<1>2. Head(queue) \in Items /\ Tail(queue) \in Seq(Items) /\ Len(Tail(queue)) = Len(queue) - 1
  BY <1>1, HeadTailProperties
<1>3. QED
  BY <1>2 DEF TakeFront

\* Every step keeps the types, and the length of the queue within its capacity.
LEMMA QueueStep == QTypeOK /\ [QNext]_qvars => QTypeOK'
<1> SUFFICES ASSUME QTypeOK, [QNext]_qvars
             PROVE  QTypeOK'
  OBVIOUS
<1> USE BoundAssumption DEF QTypeOK, ConsPcs
<1>1. ASSUME NEW p \in Producers, NEW v \in Items, Push(p, v)
      PROVE  QTypeOK'
  <2>1. Append(queue, v) \in Seq(Items) /\ Len(Append(queue, v)) = Len(queue) + 1
    BY AppendProperties
  <2>2. QED
    BY <1>1, <2>1 DEF Push
<1>2. ASSUME NEW p \in Producers, NotifyOne(p)
      PROVE  QTypeOK'
  BY <1>2 DEF NotifyOne, ConsumersAt
<1>3. ASSUME NEW c \in Consumers, Pop(c) \/ WaitPopTake(c)
      PROVE  QTypeOK'
  <2>1. TakeFront
    BY <1>3 DEF Pop, WaitPopTake
  <2>2. queue' \in Seq(Items) /\ Len(queue') <= capacity /\ out' \in Items
    BY <2>1, TakeFrontIs
  <2>3. QED
    BY <1>3, <2>2 DEF Pop, WaitPopTake
<1>4. ASSUME NEW c \in Consumers, NEW b \in BOOLEAN, WaitPop(c, b)
      PROVE  QTypeOK'
  BY <1>4 DEF WaitPop
<1>5. ASSUME NEW c \in Consumers,
             WaitPopFail(c) \/ WaitPopBlock(c) \/ SpuriousWakeup(c) \/ Timeout(c)
      PROVE  QTypeOK'
  BY <1>5 DEF WaitPopFail, WaitPopBlock, SpuriousWakeup, Timeout
<1>6. ASSUME NEW k \in Closers, Close(k) \/ CloseNotifyAll(k)
      PROVE  QTypeOK'
  BY <1>6 DEF Close, CloseNotifyAll
<1>7. CASE UNCHANGED qvars
  BY <1>7 DEF qvars
<1>8. QED
  BY <1>1, <1>2, <1>3, <1>4, <1>5, <1>6, <1>7 DEF QNext, Decide

\* The queue has its type, and never holds more than its capacity, whoever pushes
\* (QueueFifoWaitable.hpp:35, 47).
THEOREM QueueTypeCorrect == QSpec => []QTypeOK
BY QueueInit, QueueStep, PTL DEF QSpec
-----------------------------------------------------------------------------
(* No item is stranded beside a sleeping consumer.                         *)

\* There are finitely many threads to count.
LEMMA FinitelyMany ==
  /\ IsFiniteSet(PushersNotifying) /\ Cardinality(PushersNotifying) \in Nat
  /\ \A pcs : IsFiniteSet(ConsumersAt(pcs)) /\ Cardinality(ConsumersAt(pcs)) \in Nat
BY ThreadsAssumption, FS_Subset, FS_CardinalityType DEF PushersNotifying, ConsumersAt

\* Every step keeps the balance of items and of those who will see to them.
LEMMA StrandedStep == QTypeOK /\ NoStrandedItem /\ [QNext]_qvars => NoStrandedItem'
<1> SUFFICES ASSUME QTypeOK, NoStrandedItem, [QNext]_qvars
             PROVE  NoStrandedItem'
  OBVIOUS
<1> DEFINE N == PushersNotifying
           A == ConsumersAt({"decide", "expired"})
           W == ConsumersAt({"waiting"})
<1>a. /\ IsFiniteSet(N) /\ Cardinality(N) \in Nat
      /\ IsFiniteSet(A) /\ Cardinality(A) \in Nat
      /\ IsFiniteSet(A') /\ Cardinality(A') \in Nat
      /\ IsFiniteSet(N') /\ Cardinality(N') \in Nat
  <2>1. /\ IsFiniteSet(N) /\ Cardinality(N) \in Nat
        /\ IsFiniteSet(A) /\ Cardinality(A) \in Nat
    BY FinitelyMany
  <2>2. N' \subseteq Producers /\ A' \subseteq Consumers
    BY DEF PushersNotifying, ConsumersAt
  <2>3. QED
    BY <2>1, <2>2, ThreadsAssumption, FS_Subset, FS_CardinalityType
<1>b. queue \in Seq(Items) /\ Len(queue) \in Nat
  BY DEF QTypeOK
<1>c. W # {} => Len(queue) <= Cardinality(N) + Cardinality(A)
  BY DEF NoStrandedItem
<1>d. ASSUME W' # {} => Len(queue') <= Cardinality(N') + Cardinality(A')
      PROVE  NoStrandedItem'
  BY <1>d DEF NoStrandedItem
<1> HIDE DEF N, A, W
\* A consumer that is awake, or wakes up, is one more to see to the items.
<1>e. ASSUME NEW c \in Consumers, popPc[c] \notin {"decide", "expired"},
             popPc' = [popPc EXCEPT ![c] = "decide"] \/ popPc' = [popPc EXCEPT ![c] = "expired"],
             UNCHANGED queue
      PROVE  W' \subseteq W /\ Cardinality(A') = Cardinality(A) + 1
  <2>1. c \notin A /\ A' = A \cup {c} /\ W' \subseteq W
    BY <1>e DEF A, W, ConsumersAt, QTypeOK
  <2>2. QED
    BY <2>1, <1>a, FS_AddElement
<1>1. ASSUME NEW p \in Producers, NEW v \in Items, Push(p, v)
      PROVE  NoStrandedItem'
  <2>1. p \notin N /\ N' = N \cup {p} /\ A' = A /\ W' = W
    BY <1>1 DEF Push, N, A, W, PushersNotifying, ConsumersAt, QTypeOK
  <2>2. Cardinality(N') = Cardinality(N) + 1
    BY <2>1, <1>a, FS_AddElement
  <2>3. Len(queue') = Len(queue) + 1
    BY <1>1, <1>b, AppendProperties DEF Push
  <2>4. QED
    BY <2>1, <2>2, <2>3, <1>a, <1>b, <1>c, <1>d
<1>2. ASSUME NEW p \in Producers, NotifyOne(p)
      PROVE  NoStrandedItem'
  <2>1. p \in N /\ N' = N \ {p} /\ UNCHANGED queue
    BY <1>2 DEF NotifyOne, N, PushersNotifying, QTypeOK
  <2>2. Cardinality(N') = Cardinality(N) - 1
    BY <2>1, <1>a, FS_RemoveElement
  <2>3. CASE W = {}
    <3>1. W' = {}
      BY <1>2, <2>3 DEF NotifyOne, W, ConsumersAt
    <3>2. QED
      BY <3>1, <1>d
  <2>4. ASSUME NEW c \in W, popPc' = [popPc EXCEPT ![c] = "decide"]
        PROVE  NoStrandedItem'
    <3>1. c \in Consumers /\ popPc[c] \notin {"decide", "expired"}
      BY DEF W, ConsumersAt
    <3>2. W' \subseteq W /\ Cardinality(A') = Cardinality(A) + 1
      BY <3>1, <2>1, <2>4, <1>e
    <3>3. QED
      BY <3>2, <2>1, <2>2, <1>a, <1>b, <1>c, <1>d
  <2>5. QED
    BY <1>2, <2>3, <2>4 DEF NotifyOne, W
<1>3. ASSUME NEW c \in Consumers, Pop(c)
      PROVE  NoStrandedItem'
  <2>1. N' = N /\ A' = A /\ W' = W
    BY <1>3 DEF Pop, N, A, W, PushersNotifying, ConsumersAt
  <2>2. Len(queue') = Len(queue) - 1
    BY <1>3, TakeFrontIs DEF Pop
  <2>3. QED
    BY <2>1, <2>2, <1>a, <1>b, <1>c, <1>d
<1>4. ASSUME NEW c \in Consumers, WaitPopTake(c)
      PROVE  NoStrandedItem'
  <2>1. c \in A /\ A' = A \ {c} /\ N' = N /\ W' = W
    BY <1>4 DEF WaitPopTake, N, A, W, PushersNotifying, ConsumersAt, QTypeOK
  <2>2. Cardinality(A') = Cardinality(A) - 1
    BY <2>1, <1>a, FS_RemoveElement
  <2>3. Len(queue') = Len(queue) - 1
    BY <1>4, TakeFrontIs DEF WaitPopTake
  <2>4. QED
    BY <2>1, <2>2, <2>3, <1>a, <1>b, <1>c, <1>d
\* Where the queue is empty there is nothing to strand.
<1>5. ASSUME NEW c \in Consumers, WaitPopFail(c) \/ WaitPopBlock(c)
      PROVE  NoStrandedItem'
  <2>1. Len(queue') = 0
    BY <1>5 DEF WaitPopFail, WaitPopBlock
  <2>2. QED
    BY <2>1, <1>a, <1>d
<1>6. ASSUME NEW c \in Consumers,
             (\E b \in BOOLEAN : WaitPop(c, b)) \/ SpuriousWakeup(c) \/ Timeout(c)
      PROVE  NoStrandedItem'
  <2>1. W' \subseteq W /\ Cardinality(A') = Cardinality(A) + 1
    BY <1>6, <1>e DEF WaitPop, SpuriousWakeup, Timeout
  <2>2. N' = N /\ UNCHANGED queue
    BY <1>6 DEF WaitPop, SpuriousWakeup, Timeout, N, PushersNotifying
  <2>3. QED
    BY <2>1, <2>2, <1>a, <1>b, <1>c, <1>d
<1>7. ASSUME NEW k \in Closers, CloseNotifyAll(k)
      PROVE  NoStrandedItem'
  <2>1. W' = {}
    BY <1>7 DEF CloseNotifyAll, W, ConsumersAt
  <2>2. QED
    BY <2>1, <1>d
<1>8. CASE (\E k \in Closers : Close(k)) \/ UNCHANGED qvars
  <2>1. N' = N /\ A' = A /\ W' = W /\ UNCHANGED queue
    BY <1>8 DEF Close, qvars, N, A, W, PushersNotifying, ConsumersAt
  <2>2. QED
    BY <2>1, <1>c, <1>d
<1>9. QED
  BY <1>1, <1>2, <1>3, <1>4, <1>5, <1>6, <1>7, <1>8 DEF QNext, Decide

\* For each queued item somebody is awake, or about to be woken, to take it, while
\* a consumer sleeps: unlocked notifications, spurious wakeups, time limits and
\* close strand none (QueueFifoWaitable.hpp:33-38, 68-72, 80-85).
THEOREM NoItemStranded == QSpec => []NoStrandedItem
<1>1. QInit => NoStrandedItem
  BY DEF QInit, NoStrandedItem, ConsumersAt
<1>2. QED
  BY <1>1, QueueInit, QueueStep, StrandedStep, PTL DEF QSpec
-----------------------------------------------------------------------------
(* The queue implements a bounded FIFO that can be shut.                   *)

\* Every step of the queue is a step of the FIFO or a stutter.
LEMMA FifoStep == QTypeOK /\ [QNext]_qvars => [Fifo!FifoNext]_(Fifo!fifoVars)
<1> SUFFICES ASSUME QTypeOK, [QNext]_qvars
             PROVE  [Fifo!FifoNext]_(Fifo!fifoVars)
  OBVIOUS
<1> USE DEF Fifo!FifoNext, Fifo!fifoVars
<1>1. ASSUME NEW p \in Producers, NEW v \in Items, Push(p, v)
      PROVE  Fifo!Put(v)
  BY <1>1 DEF Push, Fifo!Put
<1>2. ASSUME NEW c \in Consumers, Pop(c) \/ WaitPopTake(c)
      PROVE  Fifo!Take
  BY <1>2 DEF Pop, WaitPopTake, TakeFront, Fifo!Take
<1>3. ASSUME NEW k \in Closers, Close(k)
      PROVE  Fifo!Shut
  BY <1>3 DEF Close, Fifo!Shut
<1>4. ASSUME NEW p \in Producers, NotifyOne(p)
      PROVE  UNCHANGED Fifo!fifoVars
  BY <1>4 DEF NotifyOne
<1>5. ASSUME NEW c \in Consumers,
             \/ \E b \in BOOLEAN : WaitPop(c, b)
             \/ WaitPopFail(c) \/ WaitPopBlock(c) \/ SpuriousWakeup(c) \/ Timeout(c)
      PROVE  UNCHANGED Fifo!fifoVars
  BY <1>5 DEF WaitPop, WaitPopFail, WaitPopBlock, SpuriousWakeup, Timeout
<1>6. ASSUME NEW k \in Closers, CloseNotifyAll(k)
      PROVE  UNCHANGED Fifo!fifoVars
  BY <1>6 DEF CloseNotifyAll
<1>7. CASE UNCHANGED qvars
  BY <1>7 DEF qvars
<1>8. QED
  BY <1>1, <1>2, <1>3, <1>4, <1>5, <1>6, <1>7 DEF QNext, Decide

\* push, pop and the waiting pops keep the order, the bound and the promise of close
\* (QueueFifoWaitable.hpp:30-97).
THEOREM QueueImplementsFifo == QSpec => ImplementsClosableFifo
<1>1. QInit => Fifo!FifoInit
  BY DEF QInit, Fifo!FifoInit
<1>2. QED
  BY <1>1, QueueInit, QueueStep, FifoStep, PTL DEF QSpec, ImplementsClosableFifo, Fifo!FifoSpec
=============================================================================
