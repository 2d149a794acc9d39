--------------------------- MODULE TaskPoolProofs ---------------------------
(***************************************************************************)
(* Proofs about TaskPool, for any number of clients, workers and tasks and *)
(* any limit of the queue.                                                 *)
(***************************************************************************)
EXTENDS TaskPool, FiniteSetTheorems, SequenceTheorems, TLAPS

-----------------------------------------------------------------------------
(* Types.                                                                  *)

TypeInv == TypeOK /\ HeldOK /\ RunningOK /\ StopsOK /\ CreatedOK

\* The pool has at least one worker to create.
LEMMA WorkerCount == maxWorkerCount \in Nat /\ maxWorkerCount >= 1
BY CountsAssumption DEF maxWorkerCount

\* A new task is one that was not created before.
LEMMA FreshIsNew == Tasks \ made # {} => Fresh \in Tasks /\ Fresh \notin made
BY DEF Fresh

\* A new pool is well typed.
LEMMA TypeInit == Init => TypeInv
<1> SUFFICES ASSUME Init
             PROVE  TypeInv
  OBVIOUS
<1> USE CountsAssumption, TasksAssumption, WorkerCount DEF Init
<1>1. tasks \in Seq(Tasks)
  OBVIOUS
<1>2. TypeOK
  <2>1. /\ workers \in 0 .. maxWorkerCount
        /\ joinNext \in 1 .. maxWorkerCount + 1 /\ joinEnd \in 0 .. maxWorkerCount
        /\ stops \in 0 .. MaxStops
    OBVIOUS
  <2>2. workerPc \in [Workers -> WorkerPcs] /\ inHand \in [Workers -> Tasks \cup {NoTask}]
    BY DEF WorkerPcs
  <2>3. clientPc \in [Clients -> ClientPcs] /\ held \in [Clients -> Tasks \cup {NoTask}]
    BY DEF ClientPcs
  <2>4. stopFlag \in BOOLEAN /\ stopPc \in StopPcs
    BY DEF StopPcs
  <2>5. /\ made \subseteq Tasks /\ valid \subseteq made
        /\ taskStop \subseteq Tasks /\ done \subseteq Tasks /\ late \subseteq Tasks
    OBVIOUS
  <2>6. QED
    BY <1>1, <2>1, <2>2, <2>3, <2>4, <2>5 DEF TypeOK
<1>3. HeldOK /\ RunningOK /\ StopsOK
  BY DEF HeldOK, RunningOK, StopsOK
<1>4. CreatedOK
  BY DEF CreatedOK, Workers
<1>5. QED
  BY <1>2, <1>3, <1>4 DEF TypeInv

\* Every step keeps the types, and the agreement of workerPc with inHand and workers.
LEMMA TypeStep == TypeInv /\ [Next]_vars => TypeInv'
<1> USE TasksAssumption, CountsAssumption, WorkerCount
    DEF TypeInv, TypeOK, HeldOK, RunningOK, StopsOK, CreatedOK, WorkerPcs, ClientPcs, StopPcs
<1> USE DEF workerVars, clientVars, taskVars, stopVars
<1> SUFFICES ASSUME TypeInv, [Next]_vars
             PROVE  TypeInv'
  OBVIOUS
<1>1. ASSUME NEW c \in Clients, NEW b \in BOOLEAN, GetNew(c, b)
      PROVE  TypeInv'
  BY <1>1, FreshIsNew DEF GetNew
<1>2. ASSUME NEW c \in Clients, SetCallable(c)
      PROVE  TypeInv'
  BY <1>2 DEF SetCallable
<1>3. ASSUME NEW c \in Clients, Enqueue(c)
      PROVE  TypeInv'
  BY <1>3 DEF Enqueue
<1>4. ASSUME NEW c \in Clients, CheckCount(c)
      PROVE  TypeInv'
  BY <1>4 DEF CheckCount
<1>5. ASSUME NEW c \in Clients, CreateWorker(c)
      PROVE  TypeInv'
  <2>1. workers < maxWorkerCount => workers + 1 \in Workers
    BY DEF Workers
  <2>2. workerPc' \in [Workers -> WorkerPcs] /\ workers' \in 0 .. maxWorkerCount
    BY <1>5, <2>1 DEF CreateWorker
  <2>3. RunningOK'
    BY <1>5, <2>1 DEF CreateWorker
  <2>4. CreatedOK'
    BY <1>5, <2>1 DEF CreateWorker, Workers
  <2>5. QED
    BY <1>5, <2>2, <2>3, <2>4 DEF CreateWorker
<1>6. ASSUME NEW c \in Clients, PushTask(c)
      PROVE  TypeInv'
  BY <1>6 DEF PushTask
<1>7. ASSUME NEW c \in Clients, NotifyOne(c)
      PROVE  TypeInv'
  <2>1. CASE UNCHANGED workerPc
    BY <1>7, <2>1 DEF NotifyOne
  <2>2. ASSUME NEW w \in WorkersAt("waiting"), workerPc' = [workerPc EXCEPT ![w] = "top"]
        PROVE  TypeInv'
    BY <1>7, <2>2 DEF NotifyOne, WorkersAt
  <2>3. QED
    BY <1>7, <2>1, <2>2 DEF NotifyOne
<1>8. ASSUME NEW w \in Workers, WorkerDecide(w) \/ WorkerBlock(w) \/ SpuriousWakeup(w)
      PROVE  TypeInv'
  <2>1. CASE WorkerTake(w)
    BY <2>1 DEF WorkerTake
  <2>2. CASE WorkerSleep(w) \/ WorkerExit(w) \/ WorkerBlock(w) \/ SpuriousWakeup(w)
    BY <2>2 DEF WorkerSleep, WorkerExit, WorkerBlock, SpuriousWakeup
  <2>3. QED
    BY <1>8, <2>1, <2>2 DEF WorkerDecide
<1>9. ASSUME NEW w \in Workers, FinishTask(w)
      PROVE  TypeInv'
  BY <1>9 DEF FinishTask
<1>10. CASE StopFlagTasks
  BY <1>10 DEF StopFlagTasks, Range
<1>11. CASE StopStep
  <2>1. CASE StopStore
    BY <2>1 DEF StopStore
  <2>2. CASE StopNotifyAll
    BY <2>2 DEF StopNotifyAll
  <2>3. CASE StopBeginJoin
    BY <2>3 DEF StopBeginJoin
  <2>4. CASE StopJoin
    BY <2>4 DEF StopJoin, Workers
  <2>5. CASE StopReturn
    BY <2>5 DEF StopReturn
  <2>6. QED
    BY <1>11, <2>1, <2>2, <2>3, <2>4, <2>5 DEF StopStep
<1>12. CASE UNCHANGED vars
  BY <1>12 DEF vars
<1>13. QED
  BY <1>1, <1>2, <1>3, <1>4, <1>5, <1>6, <1>7, <1>8, <1>9, <1>10, <1>11, <1>12
     DEF Next, ClientStep

\* Every reachable state of the pool is well typed: indices of workers stay
\* within the reserved vector, a null task is never pushed or run.
THEOREM TypeCorrect == Spec => []TypeOK
<1>1. TypeInv => TypeOK
  BY DEF TypeInv
<1>2. QED
  BY TypeInit, TypeStep, <1>1, PTL DEF Spec
-----------------------------------------------------------------------------
(* Counting.                                                               *)

\* The sets that are counted below are finite.
LEMMA FinitelyMany ==
  /\ \A S \in SUBSET Workers : IsFiniteSet(S) /\ Cardinality(S) \in Nat
  /\ \A S \in SUBSET Clients : /\ IsFiniteSet(S) /\ Cardinality(S) \in Nat
                               /\ Cardinality(S) <= Cardinality(Clients)
  /\ Cardinality(Clients) \in Nat /\ Cardinality(Clients) >= 1
<1>1. IsFiniteSet(Workers)
  BY WorkerCount, FS_Interval DEF Workers
<1>2. \A S \in SUBSET Workers : IsFiniteSet(S) /\ Cardinality(S) \in Nat
  BY <1>1, FS_Subset, FS_CardinalityType
<1>3. \A S \in SUBSET Clients : /\ IsFiniteSet(S) /\ Cardinality(S) \in Nat
                                /\ Cardinality(S) <= Cardinality(Clients)
  BY ClientsAssumption, FS_Subset, FS_CardinalityType
<1>4. Cardinality(Clients) \in Nat /\ Cardinality(Clients) # 0
  BY ClientsAssumption, FS_CardinalityType, FS_EmptySet
<1>5. QED
  BY <1>2, <1>3, <1>4

\* A set with one element more.
LEMMA OneMore ==
  ASSUME NEW S, IsFiniteSet(S), NEW x, x \notin S
  PROVE  Cardinality(S \cup {x}) = Cardinality(S) + 1
BY FS_AddElement

\* A set with one element less.
LEMMA OneLess ==
  ASSUME NEW S, IsFiniteSet(S), NEW x, x \in S
  PROVE  Cardinality(S \ {x}) = Cardinality(S) - 1
BY FS_RemoveElement
-----------------------------------------------------------------------------
(* No accepted task is stranded while a worker sleeps.                     *)

AwakeInv == CheckedSeesEmpty /\ WorkConserving

\* Every step keeps the balance of queued tasks and of those who will see to them.
LEMMA AwakeStep == TypeInv /\ AwakeInv /\ [Next]_vars => AwakeInv'
<1> SUFFICES ASSUME TypeInv, AwakeInv, [Next]_vars
             PROVE  AwakeInv'
  OBVIOUS
<1> DEFINE N == ClientsAt({"notify"})
           T == WorkersAt("top")
           W == WorkersAt("waiting")
           K == WorkersAt("checked")
<1> USE DEF workerVars, clientVars, taskVars, stopVars
<1>a. /\ IsFiniteSet(N) /\ Cardinality(N) \in Nat
      /\ IsFiniteSet(T) /\ Cardinality(T) \in Nat
  BY FinitelyMany DEF ClientsAt, WorkersAt
<1>c. Cardinality(N') \in Nat /\ Cardinality(T') \in Nat
  BY FinitelyMany DEF ClientsAt, WorkersAt
<1>d. /\ Len(tasks) \in Nat
      /\ workerPc \in [Workers -> WorkerPcs] /\ clientPc \in [Clients -> ClientPcs]
  BY DEF TypeInv, TypeOK
<1>e. /\ K # {} => tasks = << >>
      /\ W # {} => Len(tasks) <= Cardinality(N) + Cardinality(T)
  BY DEF AwakeInv, CheckedSeesEmpty, WorkConserving
<1>f. ASSUME K' # {} => tasks' = << >>,
             W' # {} => Len(tasks') <= Cardinality(N') + Cardinality(T')
      PROVE  AwakeInv'
  BY <1>f DEF AwakeInv, CheckedSeesEmpty, WorkConserving
\* Clients before their push, and the steps of StopAll but its notification.
<1>1. ASSUME UNCHANGED tasks, T' = T, W' = W, K' = K, N' = N
      PROVE  AwakeInv'
  BY <1>1, <1>e, <1>f
<1>2. ASSUME NEW c \in Clients,
             \/ \E b \in BOOLEAN : GetNew(c, b)
             \/ SetCallable(c) \/ Enqueue(c) \/ CheckCount(c)
      PROVE  AwakeInv'
  <2>1. UNCHANGED <<tasks, workerPc>>
    BY <1>2 DEF GetNew, SetCallable, Enqueue, CheckCount
  <2>2. N' = N
    BY <1>2, <1>d DEF GetNew, SetCallable, Enqueue, CheckCount, ClientsAt
  <2>3. QED
    BY <1>1, <2>1, <2>2 DEF WorkersAt
\* A worker that is created, or that comes back to the top of its loop.
<1>3. ASSUME NEW w \in Workers, workerPc[w] \notin {"top", "checked"},
             workerPc' = [workerPc EXCEPT ![w] = "top"], UNCHANGED tasks, N' = N
      PROVE  AwakeInv'
  <2>1. w \notin T /\ T' = T \cup {w} /\ K' = K /\ W' \subseteq W
    BY <1>3, <1>d DEF WorkersAt
  <2>2. Cardinality(T') = Cardinality(T) + 1
    BY <2>1, <1>a, OneMore
  <2>3. QED
    BY <2>1, <2>2, <1>3, <1>a, <1>d, <1>e, <1>f
<1>4. ASSUME NEW c \in Clients, CreateWorker(c)
      PROVE  AwakeInv'
  <2>1. UNCHANGED tasks /\ N' = N
    BY <1>4, <1>d DEF CreateWorker, ClientsAt
  <2>2. CASE workers < maxWorkerCount
    <3>1. /\ workers + 1 \in Workers
          /\ workerPc[workers + 1] = "absent"
      BY <2>2, WorkerCount DEF TypeInv, TypeOK, CreatedOK, Workers
    <3>2. QED
      BY <1>3, <1>4, <2>1, <2>2, <3>1 DEF CreateWorker
  <2>3. CASE ~(workers < maxWorkerCount)
    BY <1>1, <1>4, <2>1, <2>3 DEF CreateWorker, WorkersAt
  <2>4. QED
    BY <2>2, <2>3
<1>5. ASSUME NEW c \in Clients, PushTask(c)
      PROVE  AwakeInv'
  <2>1. c \notin N /\ N' = N \cup {c}
    BY <1>5, <1>d DEF PushTask, ClientsAt
  <2>2. Cardinality(N') = Cardinality(N) + 1
    BY <2>1, <1>a, OneMore
  <2>3. T' = T /\ W' = W /\ K' = {}
    BY <1>5 DEF PushTask, WorkersAt, TaskQueueLockFree
  <2>4. Len(tasks') = Len(tasks) + 1
    BY <1>5 DEF PushTask, TypeInv, TypeOK
  <2>5. QED
    BY <2>2, <2>3, <2>4, <1>a, <1>d, <1>e, <1>f
<1>6. ASSUME NEW c \in Clients, NotifyOne(c)
      PROVE  AwakeInv'
  <2>1. c \in N /\ N' = N \ {c} /\ UNCHANGED tasks
    BY <1>6, <1>d DEF NotifyOne, ClientsAt
  <2>2. Cardinality(N') = Cardinality(N) - 1
    BY <2>1, <1>a, OneLess
  <2>3. CASE W = {}
    <3>1. W' = {} /\ K' = K
      BY <1>6, <2>3 DEF NotifyOne, WorkersAt
    <3>2. QED
      BY <3>1, <2>1, <1>e, <1>f
  <2>4. ASSUME NEW w \in W, workerPc' = [workerPc EXCEPT ![w] = "top"]
        PROVE  AwakeInv'
    <3>1. w \notin T /\ T' = T \cup {w} /\ K' = K
      BY <2>4, <1>d DEF WorkersAt
    <3>2. Cardinality(T') = Cardinality(T) + 1
      BY <3>1, <1>a, OneMore
    <3>3. QED
      BY <3>1, <3>2, <2>1, <2>2, <2>4, <1>a, <1>d, <1>e, <1>f
  <2>5. QED
    BY <1>6, <2>3, <2>4 DEF NotifyOne
\* A worker that finds the queue empty, or that did.
<1>7. ASSUME NEW w \in Workers, WorkerSleep(w) \/ WorkerBlock(w) \/ WorkerExit(w)
      PROVE  AwakeInv'
  <2>1. tasks = << >> /\ UNCHANGED tasks
    BY <1>7, <1>e DEF WorkerSleep, WorkerBlock, WorkerExit, WorkersAt
  <2>2. QED
    BY <2>1, <1>c, <1>f
<1>8. ASSUME NEW w \in Workers, WorkerTake(w)
      PROVE  AwakeInv'
  <2>1. w \in T /\ T' = T \ {w} /\ W' = W /\ K' = {} /\ N' = N
    BY <1>8, <1>d DEF WorkerTake, WorkersAt, ClientsAt, TaskQueueLockFree
  <2>2. Cardinality(T') = Cardinality(T) - 1
    BY <2>1, <1>a, OneLess
  <2>3. Len(tasks') = Len(tasks) - 1
    BY <1>8 DEF WorkerTake, TypeInv, TypeOK
  <2>4. QED
    BY <2>1, <2>2, <2>3, <1>a, <1>d, <1>e, <1>f
<1>9. ASSUME NEW w \in Workers, SpuriousWakeup(w) \/ FinishTask(w)
      PROVE  AwakeInv'
  <2>1. UNCHANGED tasks /\ N' = N
    BY <1>9 DEF SpuriousWakeup, FinishTask, ClientsAt
  <2>2. QED
    BY <1>3, <1>9, <2>1 DEF SpuriousWakeup, FinishTask
<1>10. CASE StopNotifyAll
  <2>1. W' = {} /\ K' = K /\ UNCHANGED tasks
    BY <1>10, <1>d DEF StopNotifyAll, WorkersAt
  <2>2. QED
    BY <2>1, <1>e, <1>f
<1>11. CASE StopJoin
  <2>1. joinNext \in Workers
    BY <1>11, WorkerCount DEF StopJoin, Workers, TypeInv, TypeOK
  <2>2. T' = T /\ W' = W /\ K' = K
    BY <1>11, <1>d, <2>1 DEF StopJoin, WorkersAt
  <2>3. UNCHANGED tasks /\ N' = N
    BY <1>11 DEF StopJoin, ClientsAt
  <2>4. QED
    BY <1>1, <2>2, <2>3
<1>12. CASE StopFlagTasks \/ StopStore \/ StopBeginJoin \/ StopReturn \/ UNCHANGED vars
  <2>1. UNCHANGED <<tasks, workerPc, clientPc>>
    BY <1>12 DEF StopFlagTasks, StopStore, StopBeginJoin, StopReturn, vars
  <2>2. QED
    BY <1>1, <2>1 DEF WorkersAt, ClientsAt
<1>13. QED
  BY <1>2, <1>4, <1>5, <1>6, <1>7, <1>8, <1>9, <1>10, <1>11, <1>12
     DEF Next, ClientStep, WorkerDecide, StopStep

\* For each queued task somebody is awake, or about to be woken, to take it:
\* no interleaving of pushes, unlocked notifications, spurious wakeups and
\* StopAll strands an accepted task while a worker sleeps.
THEOREM NoStrandedTask == Spec => []WorkConserving
<1>1. Init => AwakeInv
  BY DEF Init, AwakeInv, CheckedSeesEmpty, WorkConserving, WorkersAt
<1>2. AwakeInv => WorkConserving
  BY DEF AwakeInv
<1>3. QED
  BY TypeInit, TypeStep, AwakeStep, <1>1, <1>2, PTL DEF Spec
-----------------------------------------------------------------------------
(* The queue overruns its limit by less than one task per client.          *)

\* Every step keeps the count of queued tasks and clients past their size check.
LEMMA OverrunStep == TypeInv /\ OverrunInv /\ [Next]_vars => OverrunInv'
<1> SUFFICES ASSUME TypeInv, OverrunInv, [Next]_vars
             PROVE  OverrunInv'
  OBVIOUS
<1> DEFINE P == ClientsAt({"create", "push"})
<1> USE DEF workerVars, clientVars, taskVars, stopVars
<1>a. /\ IsFiniteSet(P) /\ Cardinality(P) \in Nat
      /\ Cardinality(P') \in Nat
      /\ Cardinality(Clients) \in Nat /\ Cardinality(Clients) >= 1
  BY FinitelyMany DEF ClientsAt
<1>b. /\ Len(tasks) \in Nat /\ maxTaskCount \in Nat
      /\ clientPc \in [Clients -> ClientPcs]
  BY CountsAssumption DEF TypeInv, TypeOK
<1>c. Len(tasks) + Cardinality(P) <= maxTaskCount + Cardinality(Clients) - 1
  BY DEF OverrunInv
<1>d. ASSUME Len(tasks') + Cardinality(P') <= maxTaskCount + Cardinality(Clients) - 1
      PROVE  OverrunInv'
  BY <1>d DEF OverrunInv
<1>1. ASSUME UNCHANGED tasks, P' = P
      PROVE  OverrunInv'
  BY <1>1, <1>c, <1>d
<1>2. ASSUME NEW c \in Clients,
             \/ \E b \in BOOLEAN : GetNew(c, b)
             \/ SetCallable(c) \/ Enqueue(c) \/ CreateWorker(c) \/ NotifyOne(c)
      PROVE  OverrunInv'
  <2>1. UNCHANGED tasks
    BY <1>2 DEF GetNew, SetCallable, Enqueue, CreateWorker, NotifyOne
  <2>2. P' = P
    BY <1>2, <1>b DEF GetNew, SetCallable, Enqueue, CreateWorker, NotifyOne, ClientsAt
  <2>3. QED
    BY <1>1, <2>1, <2>2
\* The one place where the limit is looked at.
<1>3. ASSUME NEW c \in Clients, CheckCount(c)
      PROVE  OverrunInv'
  <2>1. CASE Len(tasks) >= maxTaskCount
    <3>1. P' = P /\ UNCHANGED tasks
      BY <1>3, <2>1, <1>b DEF CheckCount, ClientsAt
    <3>2. QED
      BY <1>1, <3>1
  <2>2. CASE Len(tasks) < maxTaskCount
    <3>1. UNCHANGED tasks
      BY <1>3 DEF CheckCount
    <3>2. Cardinality(P') <= Cardinality(Clients)
      BY FinitelyMany DEF ClientsAt
    <3>3. QED
      BY <2>2, <3>1, <3>2, <1>a, <1>b, <1>d
  <2>3. QED
    BY <2>1, <2>2, <1>b
<1>4. ASSUME NEW c \in Clients, PushTask(c)
      PROVE  OverrunInv'
  <2>1. c \in P /\ P' = P \ {c}
    BY <1>4, <1>b DEF PushTask, ClientsAt
  <2>2. Cardinality(P') = Cardinality(P) - 1
    BY <2>1, <1>a, OneLess
  <2>3. Len(tasks') = Len(tasks) + 1
    BY <1>4 DEF PushTask, TypeInv, TypeOK
  <2>4. QED
    BY <2>2, <2>3, <1>a, <1>b, <1>c, <1>d
<1>5. ASSUME NEW w \in Workers, WorkerTake(w)
      PROVE  OverrunInv'
  <2>1. P' = P
    BY <1>5 DEF WorkerTake, ClientsAt
  <2>2. Len(tasks') = Len(tasks) - 1
    BY <1>5 DEF WorkerTake, TypeInv, TypeOK
  <2>3. QED
    BY <2>1, <2>2, <1>a, <1>b, <1>c, <1>d
<1>6. ASSUME NEW w \in Workers,
             WorkerSleep(w) \/ WorkerExit(w) \/ WorkerBlock(w) \/ SpuriousWakeup(w) \/ FinishTask(w)
      PROVE  OverrunInv'
  BY <1>1, <1>6 DEF WorkerSleep, WorkerExit, WorkerBlock, SpuriousWakeup, FinishTask, ClientsAt
<1>7. CASE StopFlagTasks \/ StopStep
  BY <1>1, <1>7 DEF StopFlagTasks, StopStep, StopStore, StopNotifyAll, StopBeginJoin, StopJoin,
                    StopReturn, ClientsAt
<1>8. CASE UNCHANGED vars
  BY <1>1, <1>8 DEF vars, ClientsAt
<1>9. QED
  BY <1>2, <1>3, <1>4, <1>5, <1>6, <1>7, <1>8 DEF Next, ClientStep, WorkerDecide

\* The size check of Enqueue and its push are two critical sections, but all
\* clients together overrun the limit by less than their number.
THEOREM QueueBounded == Spec => []QueueOverrunBounded
<1>1. Init => OverrunInv
  <2> SUFFICES ASSUME Init
               PROVE  OverrunInv
    OBVIOUS
  <2>1. ClientsAt({"create", "push"}) = {} /\ Len(tasks) = 0
    BY DEF Init, ClientsAt
  <2>2. QED
    BY <2>1, FinitelyMany, FS_EmptySet, CountsAssumption DEF OverrunInv
<1>2. TypeInv /\ OverrunInv => QueueOverrunBounded
  <2> SUFFICES ASSUME TypeInv, OverrunInv
               PROVE  QueueOverrunBounded
    OBVIOUS
  <2>1. Cardinality(ClientsAt({"create", "push"})) \in Nat
    BY FinitelyMany DEF ClientsAt
  <2>2. Len(tasks) \in Nat
    BY DEF TypeInv, TypeOK
  <2>3. QED
    BY <2>1, <2>2, FinitelyMany, CountsAssumption DEF OverrunInv, QueueOverrunBounded
<1>3. QED
  BY TypeInit, TypeStep, OverrunStep, <1>1, <1>2, PTL DEF Spec
-----------------------------------------------------------------------------
(* What enqueuing and taking do to the set of queued tasks.                *)

\* No task is in the empty queue.
LEMMA RangeEmpty == Range(<< >>) = {}
BY DEF Range

\* push_back adds one task to those queued.
LEMMA RangeAppend ==
  ASSUME NEW S, NEW s \in Seq(S), NEW e \in S
  PROVE  Range(Append(s, e)) = Range(s) \cup {e}
<1>1. Append(s, e) = s \o <<e>> /\ <<e>> \in Seq(S)
  BY AppendIsConcat
<1>2. Range(<<e>>) = {e}
  <2>1. Range(<<e>>) = {<<e>>[i] : i \in 1 .. 1}
    BY <1>1, RangeEquality
  <2>2. 1 .. 1 = {1} /\ <<e>>[1] = e
    OBVIOUS
  <2>3. QED
    BY <2>1, <2>2
<1>3. Range(s \o <<e>>) = Range(s) \cup Range(<<e>>)
  <2>1. \A s2 \in Seq(S) : Range(s \o s2) = Range(s) \cup Range(s2)
    BY RangeConcatenation, Zenon
  <2>2. QED
    BY <1>1, <2>1, Zenon
<1>4. QED
  BY <1>1, <1>2, <1>3, Zenon

\* What pop_front leaves.
LEMMA TailValues ==
  ASSUME NEW S, NEW s \in Seq(S), s # << >>
  PROVE  /\ Len(Tail(s)) = Len(s) - 1
         /\ \A i \in 1 .. Len(s) - 1 : Tail(s)[i] = s[i + 1]
         /\ Range(Tail(s)) = {Tail(s)[i] : i \in 1 .. Len(s) - 1}
<1>1. Tail(s) \in Seq(S) /\ Len(Tail(s)) = Len(s) - 1
  BY HeadTailProperties
<1>2. \A i \in 1 .. Len(Tail(s)) : Tail(s)[i] = s[i + 1]
  BY HeadTailProperties
<1>3. Range(Tail(s)) = {Tail(s)[i] : i \in 1 .. Len(Tail(s))}
  BY <1>1, RangeEquality
<1>4. QED
  BY <1>1, <1>2, <1>3

\* front and pop_front split the queued tasks.
LEMMA RangeTail ==
  ASSUME NEW S, NEW s \in Seq(S), s # << >>
  PROVE  Range(s) = {Head(s)} \cup Range(Tail(s))
<1>1. Range(s) = {s[i] : i \in 1 .. Len(s)}
  BY RangeEquality
<1>2. Range(Tail(s)) = {Tail(s)[i] : i \in 1 .. Len(s) - 1}
  BY TailValues
<1>3. \A i \in 1 .. Len(s) - 1 : Tail(s)[i] = s[i + 1]
  BY TailValues
<1>4. Head(s) = s[1] /\ Len(s) \in Nat /\ Len(s) >= 1
  OBVIOUS
<1>5. Range(Tail(s)) \subseteq Range(s)
  BY <1>1, <1>2, <1>3, <1>4
<1>6. Head(s) \in Range(s)
  BY <1>1, <1>4
<1>7. ASSUME NEW x \in Range(s), x # Head(s)
      PROVE  x \in Range(Tail(s))
  <2>1. PICK i \in 1 .. Len(s) : x = s[i]
    BY <1>1
  <2>2. i - 1 \in 1 .. Len(s) - 1 /\ (i - 1) + 1 = i
    BY <1>4, <1>7, <2>1
  <2>3. x = Tail(s)[i - 1]
    BY <1>3, <2>1, <2>2
  <2>4. QED
    BY <1>2, <2>2, <2>3
<1>8. QED
  BY <1>5, <1>6, <1>7
-----------------------------------------------------------------------------
(* StopAll drains the queue.                                               *)

StopInv == PushHasWorker /\ ExitedSeesLate /\ DrainInv /\ StopDrains

\* Every step keeps what StopAll relies on: workers leave only an empty queue.
LEMMA StopInvStep == TypeInv /\ StopInv /\ [Next]_vars => StopInv'
<1> SUFFICES ASSUME TypeInv, StopInv, [Next]_vars
             PROVE  StopInv'
  OBVIOUS
<1> USE WorkerCount
    DEF workerVars, clientVars, taskVars, stopVars, StopInv, PushHasWorker, ExitedSeesLate, DrainInv,
        StopDrains, ClientsAt, WorkersAt
<1>a. /\ tasks \in Seq(Tasks)
      /\ workerPc \in [Workers -> WorkerPcs] /\ clientPc \in [Clients -> ClientPcs]
      /\ workers \in 0 .. maxWorkerCount
      /\ joinNext \in 1 .. maxWorkerCount + 1 /\ joinEnd \in 0 .. maxWorkerCount
      /\ stops \in Nat
      /\ \A w \in Workers : workerPc[w] = "absent" <=> w > workers
  BY DEF TypeInv, TypeOK, CreatedOK
<1>b. 1 \in Workers
  BY DEF Workers
<1>1. ASSUME NEW c \in Clients,
             \/ \E b \in BOOLEAN : GetNew(c, b)
             \/ SetCallable(c) \/ Enqueue(c) \/ CheckCount(c)
      PROVE  StopInv'
  BY <1>1, <1>a DEF GetNew, SetCallable, Enqueue, CheckCount
<1>2. ASSUME NEW c \in Clients, CreateWorker(c)
      PROVE  StopInv'
  BY <1>2, <1>a, <1>b DEF CreateWorker, Workers
<1>3. ASSUME NEW c \in Clients, PushTask(c)
      PROVE  StopInv'
  <2>1. held[c] \in Tasks /\ workers > 0
    BY <1>3 DEF PushTask, TypeInv, TypeOK, HeldOK
  <2>2. Range(tasks') = Range(tasks) \cup {held[c]}
    BY <1>3, <2>1, <1>a, RangeAppend DEF PushTask
  <2>3. QED
    BY <1>3, <1>a, <1>b, <2>1, <2>2 DEF PushTask
<1>4. ASSUME NEW c \in Clients, NotifyOne(c)
      PROVE  StopInv'
  BY <1>4, <1>a, <1>b DEF NotifyOne
<1>5. ASSUME NEW w \in Workers, WorkerTake(w)
      PROVE  StopInv'
  <2>1. Range(tasks') \subseteq Range(tasks)
    BY <1>5, <1>a, RangeTail DEF WorkerTake
  <2>2. QED
    BY <1>5, <1>a, <1>b, <2>1 DEF WorkerTake
<1>6. ASSUME NEW w \in Workers, WorkerExit(w)
      PROVE  StopInv'
  BY <1>6, <1>a, <1>b, RangeEmpty DEF WorkerExit
<1>7. ASSUME NEW w \in Workers,
             WorkerSleep(w) \/ WorkerBlock(w) \/ SpuriousWakeup(w) \/ FinishTask(w)
      PROVE  StopInv'
  BY <1>7, <1>a, <1>b DEF WorkerSleep, WorkerBlock, SpuriousWakeup, FinishTask
<1>8. CASE StopFlagTasks
  BY <1>8, <1>a, <1>b DEF StopFlagTasks
<1>9. CASE StopStore
  BY <1>9, <1>a, <1>b DEF StopStore
<1>10. CASE StopNotifyAll
  BY <1>10, <1>a, <1>b DEF StopNotifyAll
<1>11. CASE StopBeginJoin
  BY <1>11, <1>a, <1>b, RangeEmpty DEF StopBeginJoin
<1>12. CASE StopJoin
  BY <1>12, <1>a, <1>b DEF StopJoin, Workers
<1>13. CASE StopReturn
  BY <1>13, <1>a, <1>b DEF StopReturn
<1>14. CASE UNCHANGED vars
  BY <1>14 DEF vars
<1>15. QED
  BY <1>1, <1>2, <1>3, <1>4, <1>5, <1>6, <1>7, <1>8, <1>9, <1>10, <1>11, <1>12, <1>13, <1>14
     DEF Next, ClientStep, WorkerDecide, StopStep

\* What is left in the queue when StopAll has returned was pushed after the
\* pool was stopped, by a client that had looked at stopFlag before.
THEOREM StopLeavesOnlyLateTasks == Spec => []StopDrains
<1>1. Init => StopInv
  BY DEF Init, StopInv, PushHasWorker, ExitedSeesLate, DrainInv, StopDrains, ClientsAt, WorkersAt
<1>2. StopInv => StopDrains
  BY DEF StopInv
<1>3. QED
  BY TypeInit, TypeStep, StopInvStep, <1>1, <1>2, PTL DEF Spec
-----------------------------------------------------------------------------
(* The pool implements a job queue.                                        *)

\* The head of a queue without repetitions is not in its tail.
LEMMA TailOfDistinct ==
  ASSUME NEW S, NEW s \in Seq(S), s # << >>,
         \A i, j \in 1 .. Len(s) : s[i] = s[j] => i = j
  PROVE  /\ Head(s) \notin Range(Tail(s))
         /\ \A i, j \in 1 .. Len(Tail(s)) : Tail(s)[i] = Tail(s)[j] => i = j
<1>1. Len(Tail(s)) = Len(s) - 1 /\ \A i \in 1 .. Len(s) - 1 : Tail(s)[i] = s[i + 1]
  BY TailValues
<1>2. Range(Tail(s)) = {Tail(s)[i] : i \in 1 .. Len(s) - 1}
  BY TailValues
<1>3. Head(s) = s[1] /\ Len(s) \in Nat /\ Len(s) >= 1
  OBVIOUS
<1>4. Head(s) \notin Range(Tail(s))
  <2> SUFFICES ASSUME NEW i \in 1 .. Len(s) - 1, Tail(s)[i] = Head(s)
               PROVE  FALSE
    BY <1>2
  <2>1. i + 1 \in 1 .. Len(s) /\ 1 \in 1 .. Len(s) /\ i + 1 # 1
    BY <1>3
  <2>2. s[i + 1] = s[1]
    BY <1>1, <1>3
  <2>3. QED
    BY <2>1, <2>2
<1>5. ASSUME NEW i \in 1 .. Len(Tail(s)), NEW j \in 1 .. Len(Tail(s)), Tail(s)[i] = Tail(s)[j]
      PROVE  i = j
  <2>1. i + 1 \in 1 .. Len(s) /\ j + 1 \in 1 .. Len(s) /\ s[i + 1] = s[j + 1]
    BY <1>1, <1>3, <1>5
  <2>2. i + 1 = j + 1
    BY <2>1
  <2>3. QED
    BY <2>2, <1>1, <1>3
<1>6. QED
  BY <1>4, <1>5

\* A queue without repetitions stays so when a new task is pushed.
LEMMA AppendOfDistinct ==
  ASSUME NEW S, NEW s \in Seq(S), NEW e \in S, e \notin Range(s),
         \A i, j \in 1 .. Len(s) : s[i] = s[j] => i = j
  PROVE  \A i, j \in 1 .. Len(Append(s, e)) : Append(s, e)[i] = Append(s, e)[j] => i = j
<1>1. /\ Len(Append(s, e)) = Len(s) + 1 /\ Len(s) \in Nat
      /\ \A i \in 1 .. Len(s) : Append(s, e)[i] = s[i]
      /\ Append(s, e)[Len(s) + 1] = e
  BY AppendProperties, LenProperties
<1>2. \A i \in 1 .. Len(s) : s[i] # e
  BY RangeEquality
<1>3. \A i \in 1 .. Len(s) + 1 : i \in 1 .. Len(s) \/ i = Len(s) + 1
  BY <1>1
<1>4. QED
  BY <1>1, <1>2, <1>3

\* How the steps that hand a task on change the set of running tasks.
LEMMA RunningChanges ==
  ASSUME TypeInv, OnePlace, NEW w \in Workers
  PROVE  /\ WorkerTake(w) => Running' = Running \cup {Head(tasks)}
         /\ FinishTask(w) => inHand[w] \in Running /\ Running' = Running \ {inHand[w]}
<1>1. /\ inHand \in [Workers -> Tasks \cup {NoTask}] /\ tasks \in Seq(Tasks)
      /\ workerPc[w] = "running" <=> inHand[w] # NoTask
  BY DEF TypeInv, TypeOK, RunningOK
<1>2. ASSUME WorkerTake(w)
      PROVE  Running' = Running \cup {Head(tasks)}
  <2>1. Head(tasks) \in Tasks /\ Head(tasks) # NoTask
    BY <1>1, <1>2, TasksAssumption, HeadTailProperties DEF WorkerTake
  <2>2. inHand[w] = NoTask
    BY <1>1, <1>2 DEF WorkerTake
  <2>3. inHand' = [inHand EXCEPT ![w] = Head(tasks)]
    BY <1>2 DEF WorkerTake
  <2>4. QED
    BY <1>1, <2>1, <2>2, <2>3 DEF Running
<1>3. ASSUME FinishTask(w)
      PROVE  inHand[w] \in Running /\ Running' = Running \ {inHand[w]}
  <2>1. inHand[w] # NoTask
    BY <1>1, <1>3 DEF FinishTask
  <2>2. inHand' = [inHand EXCEPT ![w] = NoTask]
    BY <1>3 DEF FinishTask
  <2>3. \A v \in Workers : inHand[v] = inHand[w] => v = w
    BY <2>1 DEF OnePlace
  <2>4. QED
    BY <1>1, <2>1, <2>2, <2>3 DEF Running
<1>4. QED
  BY <1>2, <1>3

\* Every step keeps each task in one place.
LEMMA OnePlaceStep == TypeInv /\ OnePlace /\ [Next]_vars => OnePlace'
<1> SUFFICES ASSUME TypeInv, OnePlace, [Next]_vars
             PROVE  OnePlace'
  OBVIOUS
<1> USE TasksAssumption DEF workerVars, clientVars, taskVars, stopVars
<1>a. /\ tasks \in Seq(Tasks)
      /\ inHand \in [Workers -> Tasks \cup {NoTask}] /\ held \in [Clients -> Tasks \cup {NoTask}]
  BY DEF TypeInv, TypeOK
<1>1. ASSUME NEW c \in Clients, NEW b \in BOOLEAN, GetNew(c, b)
      PROVE  OnePlace'
  <2>1. Fresh \in Tasks /\ Fresh \notin made /\ \A d \in Clients : held[d] # Fresh
    BY <1>1, FreshIsNew DEF GetNew, TypeInv, HeldOK
  <2>2. Running' = Running
    BY <1>1 DEF GetNew, Running
  <2>3. QED
    BY <1>1, <1>a, <2>1, <2>2 DEF GetNew, OnePlace
<1>2. ASSUME UNCHANGED <<tasks, inHand, held, made, done>>
      PROVE  OnePlace'
  BY <1>2 DEF OnePlace, Running
<1>3. ASSUME NEW c \in Clients, PushTask(c)
      PROVE  OnePlace'
  <2>1. held[c] \in made /\ held[c] # NoTask /\ held[c] \in Tasks
    BY <1>3 DEF PushTask, TypeInv, TypeOK, HeldOK
  <2>2. tasks' = Append(tasks, held[c]) /\ held' = [held EXCEPT ![c] = NoTask]
    BY <1>3 DEF PushTask
  <2>3. Range(tasks') = Range(tasks) \cup {held[c]}
    BY <2>1, <2>2, <1>a, RangeAppend
  <2>4. \A i, j \in 1 .. Len(tasks') : tasks'[i] = tasks'[j] => i = j
    BY <2>1, <2>2, <1>a, AppendOfDistinct DEF OnePlace
  <2>5. UNCHANGED <<inHand, made, done, Running>>
    BY <1>3 DEF PushTask, Running
  <2>6. QED
    BY <2>1, <2>2, <2>3, <2>4, <2>5, <1>a DEF OnePlace
<1>4. ASSUME NEW w \in Workers, WorkerTake(w)
      PROVE  OnePlace'
  <2>1. tasks # << >> /\ tasks' = Tail(tasks) /\ inHand' = [inHand EXCEPT ![w] = Head(tasks)]
        /\ UNCHANGED <<held, made, done>>
    BY <1>4 DEF WorkerTake
  <2>2. Range(tasks) = {Head(tasks)} \cup Range(tasks')
    BY <2>1, <1>a, RangeTail
  <2>3. /\ Head(tasks) \notin Range(tasks')
        /\ \A i, j \in 1 .. Len(tasks') : tasks'[i] = tasks'[j] => i = j
    BY <2>1, <1>a, TailOfDistinct DEF OnePlace
  <2>4. Running' = Running \cup {Head(tasks)}
    BY <1>4, RunningChanges
  <2>5. \A v \in Workers : inHand[v] # Head(tasks)
    <3>1. Head(tasks) \in Range(tasks) /\ Head(tasks) # NoTask
      BY <2>1, <2>2, <1>a, HeadTailProperties, TasksAssumption
    <3>2. Head(tasks) \notin Running
      BY <3>1 DEF OnePlace
    <3>3. QED
      BY <3>1, <3>2, Zenon DEF Running
  <2>6. \A v, u \in Workers : inHand'[v] = inHand'[u] /\ inHand'[v] # NoTask => v = u
    BY <2>1, <2>5, <1>a DEF OnePlace
  <2>7. QED
    BY <2>1, <2>2, <2>3, <2>4, <2>6 DEF OnePlace
<1>5. ASSUME NEW w \in Workers, FinishTask(w)
      PROVE  OnePlace'
  <2>1. inHand' = [inHand EXCEPT ![w] = NoTask] /\ done' = done \cup {inHand[w]}
        /\ UNCHANGED <<tasks, held, made>>
    BY <1>5 DEF FinishTask
  <2>2. inHand[w] \in Running /\ Running' = Running \ {inHand[w]}
    BY <1>5, RunningChanges
  <2>3. \A v, u \in Workers : inHand'[v] = inHand'[u] /\ inHand'[v] # NoTask => v = u
    BY <2>1, <1>a DEF OnePlace
  <2>4. QED
    BY <2>1, <2>2, <2>3 DEF OnePlace
<1>6. ASSUME NEW c \in Clients,
             SetCallable(c) \/ Enqueue(c) \/ CheckCount(c) \/ CreateWorker(c) \/ NotifyOne(c)
      PROVE  OnePlace'
  BY <1>2, <1>6 DEF SetCallable, Enqueue, CheckCount, CreateWorker, NotifyOne
<1>7. ASSUME NEW w \in Workers,
             WorkerSleep(w) \/ WorkerExit(w) \/ WorkerBlock(w) \/ SpuriousWakeup(w)
      PROVE  OnePlace'
  BY <1>2, <1>7 DEF WorkerSleep, WorkerExit, WorkerBlock, SpuriousWakeup
<1>8. CASE StopFlagTasks \/ StopStep
  BY <1>2, <1>8 DEF StopFlagTasks, StopStep, StopStore, StopNotifyAll, StopBeginJoin, StopJoin,
                    StopReturn
<1>9. CASE UNCHANGED vars
  BY <1>2, <1>9 DEF vars
<1>10. QED
  BY <1>1, <1>3, <1>4, <1>5, <1>6, <1>7, <1>8, <1>9 DEF Next, ClientStep, WorkerDecide

\* Every step of the pool is a step of the job queue, or leaves it as it is.
LEMMA JobStep == TypeInv /\ OnePlace /\ [Next]_vars => [Jobs!JobNext]_(Jobs!jobVars)
<1> SUFFICES ASSUME TypeInv, OnePlace, [Next]_vars
             PROVE  [Jobs!JobNext]_(Jobs!jobVars)
  OBVIOUS
<1> USE DEF workerVars, clientVars, taskVars, stopVars
<1>1. ASSUME UNCHANGED <<tasks, inHand, done>>
      PROVE  UNCHANGED Jobs!jobVars
  BY <1>1 DEF Jobs!jobVars, Running
<1>2. ASSUME NEW c \in Clients, PushTask(c)
      PROVE  Jobs!JobNext
  <2>1. held[c] \in Tasks /\ held[c] # NoTask
    BY <1>2, TasksAssumption DEF PushTask, TypeInv, TypeOK, HeldOK
  <2>2. held[c] \notin Range(tasks) \cup Running \cup done
    BY <2>1 DEF OnePlace
  <2>3. tasks' = Append(tasks, held[c]) /\ UNCHANGED <<Running, done>>
    BY <1>2 DEF PushTask, Running
  <2>4. Jobs!Submit(held[c])
    BY <2>2, <2>3 DEF Jobs!Submit, Jobs!Range, Range
  <2>5. QED
    BY <2>1, <2>4 DEF Jobs!JobNext
<1>3. ASSUME NEW w \in Workers, WorkerTake(w)
      PROVE  Jobs!JobNext
  <2>1. Running' = Running \cup {Head(tasks)}
    BY <1>3, RunningChanges
  <2>2. QED
    BY <1>3, <2>1 DEF WorkerTake, Jobs!JobNext, Jobs!Begin
<1>4. ASSUME NEW w \in Workers, FinishTask(w)
      PROVE  Jobs!JobNext
  <2>1. inHand[w] \in Running /\ Running' = Running \ {inHand[w]}
    BY <1>4, RunningChanges
  <2>2. inHand[w] \in Tasks
    BY <2>1 DEF Running, TypeInv, TypeOK
  <2>3. Jobs!Finish(inHand[w])
    BY <1>4, <2>1 DEF FinishTask, Jobs!Finish
  <2>4. QED
    BY <2>2, <2>3 DEF Jobs!JobNext
<1>5. ASSUME NEW c \in Clients,
             \/ \E b \in BOOLEAN : GetNew(c, b)
             \/ SetCallable(c) \/ Enqueue(c) \/ CheckCount(c) \/ CreateWorker(c) \/ NotifyOne(c)
      PROVE  UNCHANGED Jobs!jobVars
  BY <1>1, <1>5 DEF GetNew, SetCallable, Enqueue, CheckCount, CreateWorker, NotifyOne
<1>6. ASSUME NEW w \in Workers,
             WorkerSleep(w) \/ WorkerExit(w) \/ WorkerBlock(w) \/ SpuriousWakeup(w)
      PROVE  UNCHANGED Jobs!jobVars
  BY <1>1, <1>6 DEF WorkerSleep, WorkerExit, WorkerBlock, SpuriousWakeup
<1>7. CASE StopFlagTasks \/ StopStep
  BY <1>1, <1>7 DEF StopFlagTasks, StopStep, StopStore, StopNotifyAll, StopBeginJoin, StopJoin,
                    StopReturn
<1>8. CASE UNCHANGED vars
  BY <1>1, <1>8 DEF vars
<1>9. QED
  BY <1>2, <1>3, <1>4, <1>5, <1>6, <1>7, <1>8 DEF Next, ClientStep, WorkerDecide

\* Whatever clients, workers and StopAll do, tasks are started in the order in
\* which the queue accepted them, and none is executed twice.
THEOREM PoolImplementsJobQueue == Spec => ImplementsJobQueue
<1>1. Init => OnePlace /\ Jobs!JobInit
  BY RangeEmpty DEF Init, OnePlace, Running, Jobs!JobInit
<1>2. QED
  BY TypeInit, TypeStep, OnePlaceStep, JobStep, <1>1, PTL DEF Spec, Jobs!JobSpec, ImplementsJobQueue
=============================================================================
