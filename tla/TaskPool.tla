------------------------------ MODULE TaskPool ------------------------------
(***************************************************************************)
(* The thread pool of TaskPool.hpp: clients that create and enqueue tasks, *)
(* the worker threads the pool creates lazily, and the thread that calls   *)
(* StopAll (first Application::StopTasks, then the destructor).            *)
(*                                                                         *)
(* Every critical section of taskQueueLock and workerVectorLock is one     *)
(* step, but for one: cv.wait evaluates its predicate and blocks in two    *)
(* steps, because StopAll stores stopFlag and calls notify_all without     *)
(* taking the lock and can therefore come between the two.  The worker     *)
(* holds taskQueueLock from the first of these steps to the second.        *)
(***************************************************************************)
EXTENDS Integers, Sequences, FiniteSets, Functions

CONSTANTS
  Clients,              \* threads that call GetNew and Enqueue
  Tasks,                \* the tasks they may create
  NoTask,               \* the null shared_ptr
  HardwareConcurrency,  \* what std::thread::hardware_concurrency() answers
  maxTaskCount,         \* maxTaskCount_
  MaxStops              \* bound: calls of StopAll

\* The constructor falls back to one worker where the hardware is unknown.
maxWorkerCount == IF HardwareConcurrency = 0 THEN 1 ELSE HardwareConcurrency

Workers == 1 .. maxWorkerCount

ASSUME ClientsAssumption == IsFiniteSet(Clients) /\ Clients # {}
ASSUME TasksAssumption   == NoTask \notin Tasks
ASSUME CountsAssumption  == HardwareConcurrency \in Nat /\ maxTaskCount \in Nat
                            /\ MaxStops \in Nat

VARIABLES
  tasks,      \* the queue, oldest task first
  workers,    \* workers_.size(); worker w is workers_[w - 1]
  workerPc,   \* where worker w is in WorkerFunction
  inHand,     \* the local variable task of worker w while it runs it
  stopFlag,   \* the pool's stopFlag
  clientPc,   \* where client c is in Enqueue
  held,       \* the task client c has and has not handed over yet
  made,       \* tasks created so far
  valid,      \* tasks whose callable is set (NesesTask::IsValid)
  taskStop,   \* tasks whose own stop flag is set
  done,       \* tasks that were executed
  stopPc,     \* where the stopping thread is in StopAll
  joinNext,   \* the range-for of StopAll: the worker it looks at ...
  joinEnd,    \* ... and the last one, fixed when the loop starts
  stops,      \* calls of StopAll that have returned
  late        \* history: tasks pushed when stopFlag was already set

taskVars   == <<made, valid, taskStop, done>>
stopVars   == <<stopPc, joinNext, joinEnd, stops>>
clientVars == <<clientPc, held>>
workerVars == <<workers, workerPc, inHand>>
vars == <<tasks, late, stopFlag, workerVars, clientVars, taskVars, stopVars>>

WorkerPcs == {"absent", "top", "checked", "waiting", "running", "exited", "joined"}
ClientPcs == {"idle", "count", "create", "push", "notify"}
StopPcs   == {"idle", "flagged", "stored", "notified", "joining"}

WorkersAt(pc) == {w \in Workers : workerPc[w] = pc}
ClientsAt(pcs) == {c \in Clients : clientPc[c] \in pcs}

\* Mutation: a wait that gives its lock up before it blocks.
NobodyKeepsLock == TRUE

\* Only a worker between its predicate and its wait keeps the lock over a step.
TaskQueueLockFree == WorkersAt("checked") = {}

Running == {inHand[w] : w \in Workers} \ {NoTask}

Init ==
  /\ tasks = << >>
  /\ late = {}
  /\ stopFlag = FALSE
  /\ workers = 0
  /\ workerPc = [w \in Workers |-> "absent"]
  /\ inHand = [w \in Workers |-> NoTask]
  /\ clientPc = [c \in Clients |-> "idle"]
  /\ held = [c \in Clients |-> NoTask]
  /\ made = {} /\ valid = {} /\ taskStop = {} /\ done = {}
  /\ stopPc = "idle" /\ joinNext = 1 /\ joinEnd = 0 /\ stops = 0
-----------------------------------------------------------------------------
(* Clients.  A call that is refused at once (stopping pool, null or empty  *)
(* task) changes nothing and is a stuttering step.                         *)

\* A newly created task: which of the unused ones stands for it is no matter.
Fresh == CHOOSE t \in Tasks \ made : TRUE

\* GetNew: with a callable (then the task is valid at once) or without.
GetNew(c, withCallable) ==
  /\ clientPc[c] = "idle" /\ held[c] = NoTask
  /\ ~stopFlag
  /\ Tasks \ made # {}
  /\ made' = made \cup {Fresh}
  /\ valid' = IF withCallable THEN valid \cup {Fresh} ELSE valid
  /\ held' = [held EXCEPT ![c] = Fresh]
  /\ UNCHANGED <<tasks, late, stopFlag, workerVars, clientPc, taskStop, done, stopVars>>

\* NesesTask::Set on a task created without a callable.
SetCallable(c) ==
  /\ clientPc[c] = "idle" /\ held[c] # NoTask
  /\ held[c] \notin valid
  /\ valid' = valid \cup {held[c]}
  /\ UNCHANGED <<tasks, late, stopFlag, workerVars, clientVars, made, taskStop, done, stopVars>>

\* The checks Enqueue makes first: a valid task, and stopFlag read once.
Enqueue(c) ==
  /\ clientPc[c] = "idle" /\ held[c] # NoTask
  /\ held[c] \in valid
  /\ ~stopFlag
  /\ clientPc' = [clientPc EXCEPT ![c] = "count"]
  /\ UNCHANGED <<tasks, late, stopFlag, workerVars, held, taskVars, stopVars>>

\* Mutation: the limit itself still passes the size check.
CheckCountOffByOne(c) ==
  /\ clientPc[c] = "count" /\ TaskQueueLockFree
  /\ clientPc' = [clientPc EXCEPT ![c] = IF Len(tasks) > maxTaskCount THEN "idle" ELSE "create"]
  /\ UNCHANGED <<tasks, late, stopFlag, workerVars, held, taskVars, stopVars>>

\* taskCount() takes and releases the lock; a full queue refuses the task,
\* which the client keeps and may offer again.
CheckCount(c) ==
  /\ clientPc[c] = "count"
  /\ TaskQueueLockFree
  /\ clientPc' = [clientPc EXCEPT ![c] = IF Len(tasks) >= maxTaskCount THEN "idle" ELSE "create"]
  /\ UNCHANGED <<tasks, late, stopFlag, workerVars, held, taskVars, stopVars>>

CreateWorker(c) ==
  /\ clientPc[c] = "create"
  /\ IF workers < maxWorkerCount
       THEN /\ workers' = workers + 1
            /\ workerPc' = [workerPc EXCEPT ![workers + 1] = "top"]
       ELSE UNCHANGED <<workers, workerPc>>
  /\ clientPc' = [clientPc EXCEPT ![c] = "push"]
  /\ UNCHANGED <<tasks, late, stopFlag, inHand, held, taskVars, stopVars>>

PushTask(c) ==
  /\ clientPc[c] = "push"
  /\ TaskQueueLockFree
  /\ tasks' = Append(tasks, held[c])
  /\ late' = IF stopFlag THEN late \cup {held[c]} ELSE late
  /\ held' = [held EXCEPT ![c] = NoTask]
  /\ clientPc' = [clientPc EXCEPT ![c] = "notify"]
  /\ UNCHANGED <<stopFlag, workerVars, taskVars, stopVars>>

\* Mutation: the notification is forgotten.
NotifyNobody(c) ==
  /\ clientPc[c] = "notify"
  /\ clientPc' = [clientPc EXCEPT ![c] = "idle"]
  /\ UNCHANGED <<tasks, late, stopFlag, workerVars, held, taskVars, stopVars>>

\* notify_one wakes any one waiting worker; with none waiting it is lost.
NotifyOne(c) ==
  /\ clientPc[c] = "notify"
  /\ IF WorkersAt("waiting") = {}
       THEN UNCHANGED workerPc
       ELSE \E w \in WorkersAt("waiting") : workerPc' = [workerPc EXCEPT ![w] = "top"]
  /\ clientPc' = [clientPc EXCEPT ![c] = "idle"]
  /\ UNCHANGED <<tasks, late, stopFlag, workers, inHand, held, taskVars, stopVars>>
-----------------------------------------------------------------------------
(* Workers.  At "top" a worker is about to take the lock and to evaluate   *)
(* the predicate of cv.wait, for the first time or after a wakeup.         *)

\* The predicate is false: the worker will wait, and still has the lock.
WorkerSleep(w) ==
  /\ workerPc[w] = "top" /\ TaskQueueLockFree
  /\ ~stopFlag /\ tasks = << >>
  /\ workerPc' = [workerPc EXCEPT ![w] = "checked"]
  /\ UNCHANGED <<tasks, late, stopFlag, workers, inHand, clientVars, taskVars, stopVars>>

\* It blocks and releases the lock in one step, and now can be notified.
WorkerBlock(w) ==
  /\ workerPc[w] = "checked"
  /\ workerPc' = [workerPc EXCEPT ![w] = "waiting"]
  /\ UNCHANGED <<tasks, late, stopFlag, workers, inHand, clientVars, taskVars, stopVars>>

SpuriousWakeup(w) ==
  /\ workerPc[w] = "waiting"
  /\ workerPc' = [workerPc EXCEPT ![w] = "top"]
  /\ UNCHANGED <<tasks, late, stopFlag, workers, inHand, clientVars, taskVars, stopVars>>

\* Mutation: front() without pop_front().
TakeButLeave(w) ==
  /\ workerPc[w] = "top" /\ TaskQueueLockFree
  /\ tasks # << >>
  /\ inHand' = [inHand EXCEPT ![w] = Head(tasks)]
  /\ workerPc' = [workerPc EXCEPT ![w] = "running"]
  /\ UNCHANGED <<tasks, late, stopFlag, workers, clientVars, taskVars, stopVars>>

\* A queued task is taken even when the pool is stopping.
WorkerTake(w) ==
  /\ workerPc[w] = "top" /\ TaskQueueLockFree
  /\ tasks # << >>
  /\ tasks' = Tail(tasks)
  /\ inHand' = [inHand EXCEPT ![w] = Head(tasks)]
  /\ workerPc' = [workerPc EXCEPT ![w] = "running"]
  /\ UNCHANGED <<late, stopFlag, workers, clientVars, taskVars, stopVars>>

\* Mutation: leave as soon as the pool stops.
ExitAtOnce(w) ==
  /\ workerPc[w] = "top" /\ TaskQueueLockFree
  /\ stopFlag
  /\ workerPc' = [workerPc EXCEPT ![w] = "exited"]
  /\ UNCHANGED <<tasks, late, stopFlag, workers, inHand, clientVars, taskVars, stopVars>>

WorkerExit(w) ==
  /\ workerPc[w] = "top" /\ TaskQueueLockFree
  /\ stopFlag /\ tasks = << >>
  /\ workerPc' = [workerPc EXCEPT ![w] = "exited"]
  /\ UNCHANGED <<tasks, late, stopFlag, workers, inHand, clientVars, taskVars, stopVars>>

\* The callable returns, or throws and is caught: the worker goes on.
FinishTask(w) ==
  /\ workerPc[w] = "running"
  /\ done' = done \cup {inHand[w]}
  /\ inHand' = [inHand EXCEPT ![w] = NoTask]
  /\ workerPc' = [workerPc EXCEPT ![w] = "top"]
  /\ UNCHANGED <<tasks, late, stopFlag, workers, clientVars, made, valid, taskStop, stopVars>>
-----------------------------------------------------------------------------
(* StopAll.                                                                *)

StopFlagTasks ==
  /\ stopPc = "idle" /\ stops < MaxStops
  /\ TaskQueueLockFree
  /\ taskStop' = taskStop \cup Range(tasks)
  /\ stopPc' = "flagged"
  /\ UNCHANGED <<tasks, late, stopFlag, workerVars, clientVars, made, valid, done,
                 joinNext, joinEnd, stops>>

\* Neither the store nor the notification takes taskQueueLock.
StopStore ==
  /\ stopPc = "flagged"
  /\ stopFlag' = TRUE
  /\ stopPc' = "stored"
  /\ UNCHANGED <<tasks, late, workerVars, clientVars, taskVars, joinNext, joinEnd, stops>>

StopNotifyAll ==
  /\ stopPc = "stored"
  /\ workerPc' = [w \in Workers |-> IF workerPc[w] = "waiting" THEN "top" ELSE workerPc[w]]
  /\ stopPc' = "notified"
  /\ UNCHANGED <<tasks, late, stopFlag, workers, inHand, clientVars, taskVars,
                 joinNext, joinEnd, stops>>

\* The range-for reads begin() and end() of workers_ once, without its lock: it
\* races with CreateWorker and may or may not see the worker being added.  (The
\* vector is reserved to its maximum, so that it never reallocates.)
StopBeginJoin ==
  /\ stopPc = "notified"
  /\ joinNext' = 1 /\ joinEnd' = workers
  /\ stopPc' = "joining"
  /\ UNCHANGED <<tasks, late, stopFlag, workerVars, clientVars, taskVars, stops>>

\* Mutation: join without asking joinable().
JoinTwice ==
  /\ stopPc = "joining" /\ joinNext <= joinEnd
  /\ workerPc[joinNext] = "exited"
  /\ workerPc' = [workerPc EXCEPT ![joinNext] = "joined"]
  /\ joinNext' = joinNext + 1
  /\ UNCHANGED <<tasks, late, stopFlag, workers, inHand, clientVars, taskVars,
                 stopPc, joinEnd, stops>>

\* join() waits for the thread to exit; a joined one is not joinable again.
StopJoin ==
  /\ stopPc = "joining" /\ joinNext <= joinEnd
  /\ workerPc[joinNext] \in {"exited", "joined"}
  /\ workerPc' = [workerPc EXCEPT ![joinNext] = "joined"]
  /\ joinNext' = joinNext + 1
  /\ UNCHANGED <<tasks, late, stopFlag, workers, inHand, clientVars, taskVars,
                 stopPc, joinEnd, stops>>

StopReturn ==
  /\ stopPc = "joining" /\ joinNext > joinEnd
  /\ stopPc' = "idle"
  /\ stops' = stops + 1
  /\ UNCHANGED <<tasks, late, stopFlag, workerVars, clientVars, taskVars, joinNext, joinEnd>>
-----------------------------------------------------------------------------
\* The rest of a call of Enqueue, once its first checks have passed.
ClientStep(c) ==
  CheckCount(c) \/ CreateWorker(c) \/ PushTask(c) \/ NotifyOne(c)

\* What a worker does when it has the lock and a fresh look at its predicate.
WorkerDecide(w) == WorkerSleep(w) \/ WorkerTake(w) \/ WorkerExit(w)

\* The rest of a call of StopAll.
StopStep == StopStore \/ StopNotifyAll \/ StopBeginJoin \/ StopJoin \/ StopReturn

Next ==
  \/ \E c \in Clients :
       \/ \E withCallable \in BOOLEAN : GetNew(c, withCallable)
       \/ SetCallable(c) \/ Enqueue(c) \/ ClientStep(c)
  \/ \E w \in Workers :
       WorkerDecide(w) \/ WorkerBlock(w) \/ SpuriousWakeup(w) \/ FinishTask(w)
  \/ StopFlagTasks \/ StopStep

Spec == Init /\ [][Next]_vars

\* The scheduler runs every thread and every mutex is handed to whoever keeps
\* asking for it (strong fairness, since others take it in between); a callable
\* returns.  Nothing obliges a client to call, StopAll to be called, or a
\* waiting thread to wake up without being notified.
Fairness ==
  /\ \A c \in Clients : SF_vars(ClientStep(c))
  /\ \A w \in Workers :
       SF_vars(WorkerDecide(w)) /\ WF_vars(WorkerBlock(w)) /\ WF_vars(FinishTask(w))
  /\ WF_vars(StopStep)

FairSpec == Spec /\ Fairness
-----------------------------------------------------------------------------
(* Properties.                                                             *)

\* No more workers than the vector was reserved for, and no null task is pushed or
\* run (TaskPool.hpp:106, 188).
TypeOK ==
  /\ tasks \in Seq(Tasks)
  /\ workers \in 0 .. maxWorkerCount
  /\ workerPc \in [Workers -> WorkerPcs]
  /\ inHand \in [Workers -> Tasks \cup {NoTask}]
  /\ stopFlag \in BOOLEAN
  /\ clientPc \in [Clients -> ClientPcs]
  /\ held \in [Clients -> Tasks \cup {NoTask}]
  /\ made \subseteq Tasks /\ valid \subseteq made
  /\ taskStop \subseteq Tasks /\ done \subseteq Tasks /\ late \subseteq Tasks
  /\ stopPc \in StopPcs
  /\ joinNext \in 1 .. maxWorkerCount + 1 /\ joinEnd \in 0 .. maxWorkerCount
  /\ stops \in 0 .. MaxStops

\* No accepted task is stranded while a worker sleeps: for each queued task
\* there is a client that still owes a notify_one or a worker that is awake and
\* about to look at the queue (the pairing of PushTask's critical section with
\* the unlocked notify_one, TaskPool.hpp:193-197).
WorkConserving ==
  WorkersAt("waiting") # {} =>
    Len(tasks) <= Cardinality(ClientsAt({"notify"})) + Cardinality(WorkersAt("top"))

\* The size check and the push are two critical sections, so clients can
\* overrun the limit together; but each of them by at most one task
\* (TaskPool.hpp:190-195).
QueueOverrunBounded == Len(tasks) <= maxTaskCount + Cardinality(Clients) - 1

\* Once a StopAll has returned, whatever is still queued was accepted by a
\* client that had read stopFlag before it was set: every task pushed before
\* the stop was taken by a worker (TaskPool.hpp:66-75 drains, 222 stops).
StopDrains == stops > 0 => Range(tasks) \subseteq late

\* Only one thing can keep StopAll from returning: a worker that from some
\* moment on sleeps for good.  Workers that run tasks, drain the queue or wake up
\* spuriously are all joined in the end (TaskPool.hpp:61-69, 224-227).
OnlySleepersBlockStop ==
  []<>(stopPc = "idle") \/ <>[](WorkersAt("waiting") # {})

\* A task pushed before the pool was stopped is executed, even if StopAll is
\* called before a worker takes it (TaskPool.hpp:61-75, 193-197).
AcceptedTaskRuns ==
  \A t \in Tasks : (t \in Range(tasks) /\ t \notin late) ~> t \in done

\* The pool implements a job queue: tasks start in the order in which they were
\* accepted and each is executed at most once.
Jobs == INSTANCE JobQueue WITH
          Jobs <- Tasks, pending <- tasks, active <- Running, finished <- done

ImplementsJobQueue == Jobs!JobSpec

\* What the four invariants above rest on, for the proofs of TaskPoolProofs.

HeldOK == \A c \in Clients :
  /\ held[c] # NoTask => held[c] \in made
  /\ clientPc[c] \in {"count", "create", "push"} => held[c] \in valid

RunningOK == \A w \in Workers : workerPc[w] = "running" <=> inHand[w] # NoTask

StopsOK == stopPc # "idle" => stops < MaxStops

\* A worker that found the queue empty still has the lock: it is still empty.
CheckedSeesEmpty == WorkersAt("checked") # {} => tasks = << >>

\* Counting the clients between their size check and their push as well.
OverrunInv ==
  Len(tasks) + Cardinality(ClientsAt({"create", "push"})) <= maxTaskCount + Cardinality(Clients) - 1

CreatedOK == \A w \in Workers : workerPc[w] = "absent" <=> w > workers

\* Enqueue creates a worker before it pushes.
PushHasWorker == (tasks # << >> \/ ClientsAt({"push"}) # {}) => workers > 0

\* A worker leaves only when the queue is empty and the pool is stopping.
ExitedSeesLate == WorkersAt("exited") \cup WorkersAt("joined") # {} =>
  stopFlag /\ Range(tasks) \subseteq late

DrainInv ==
  /\ stopPc \in {"stored", "notified", "joining"} \/ stops > 0 => stopFlag
  /\ stopPc = "joining" /\ joinNext = 1 /\ joinEnd = 0 => Range(tasks) \subseteq late
  /\ stopPc = "joining" /\ joinNext > 1 => workerPc[1] = "joined"

\* A task is in one place at a time: with one client, in one place of the queue,
\* in the hand of one worker, or done.
OnePlace ==
  /\ \A i, j \in 1 .. Len(tasks) : tasks[i] = tasks[j] => i = j
  /\ \A v, w \in Workers : inHand[v] = inHand[w] /\ inHand[v] # NoTask => v = w
  /\ Range(tasks) \cup Running \cup done \subseteq made
  /\ Range(tasks) \cap (Running \cup done) = {} /\ Running \cap done = {}
  /\ \A c \in Clients : held[c] # NoTask => held[c] \notin Range(tasks) \cup Running \cup done
  /\ \A c, d \in Clients : held[c] = held[d] /\ held[c] # NoTask => c = d
-----------------------------------------------------------------------------
(* What the source says of the pool and its code does not keep.            *)

\* TaskPool.hpp:205-208: StopAll "notifies all workers" and "joins all worker
\* threads"; it does come to its end.
StopReturns == stopPc # "idle" ~> stopPc = "idle"

\* TaskPool.hpp:208: "After Stop returns no worker threads are running."
NoWorkerAfterStop ==
  (stops > 0 /\ stopPc = "idle") => \A w \in Workers : workerPc[w] \in {"absent", "joined"}
=============================================================================
