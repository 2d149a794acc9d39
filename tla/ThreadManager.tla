--------------------------- MODULE ThreadManager ---------------------------
(***************************************************************************)
(* ThreadManager.hpp and the NesesThread objects it manages: the threads   *)
(* of the program get workers from the manager, start and stop their own   *)
(* workers, and let the manager stop all of them or remove finished ones.  *)
(*                                                                         *)
(* A critical section of tm_mtx is one step.  The flags of a NesesThread   *)
(* are atomic, so that StopAll may set a stop flag at any time; its th_ is *)
(* not, and the program has to see to it that calls of Start and Stop for  *)
(* the same worker do not overlap (NotInCall).  The manager's vectors are  *)
(* sets here: only the order of the joins depends on the order in them,    *)
(* and here any order may happen.                                          *)
(***************************************************************************)
EXTENDS Naturals, FiniteSets

CONSTANTS
  Callers,  \* threads of the program
  Workers,  \* the NesesThread objects that may be created
  NoOne,
  MaxWorkerCount

ASSUME CallersAssumption == NoOne \notin Callers \cup Workers
ASSUME MaxAssumption     == MaxWorkerCount \in Nat

VARIABLES
  workers,    \* what the manager has in its vector
  made,       \* workers created so far
  owner,      \* the caller that has a shared_ptr to worker w, or NoOne
  isSet, stopFlag, isDone, isStarted,  \* flags: the workers that have them set
  th,         \* th_ of worker w and how far its thread is in the callable
  callerPc,   \* where caller c is in Start or in a series of Stops
  target,     \* the worker whose Start or Stop it is in
  todo,       \* the workers it has to stop yet
  taken       \* the workers whose shared_ptr is in the list of its call

flagVars   == <<isSet, stopFlag, isDone, isStarted>>
callVars   == <<callerPc, target, todo, taken>>
mvars == <<workers, made, owner, flagVars, th, callVars>>

\* th_ is not joinable ("none"), or its thread runs the callable, is in a call
\* of NewWorker, has called SetIsDone and is about to return, or has returned.
ThStates == {"none", "runs", "asks", "leaves", "ended"}

Joinable == {w \in Workers : th[w] # "none"}

MInit ==
  /\ workers = {} /\ made = {}
  /\ owner = [w \in Workers |-> NoOne]
  /\ isSet = {} /\ stopFlag = {} /\ isDone = {} /\ isStarted = {}
  /\ th = [w \in Workers |-> "none"]
  /\ callerPc = [c \in Callers |-> "idle"]
  /\ target = [c \in Callers |-> NoOne]
  /\ todo = [c \in Callers |-> {}]
  /\ taken = [c \in Callers |-> {}]

\* Mutation: StopAll and RemoveFinished keep the lock while they join.
LockKeptForJoins == {c \in Callers : taken[c] # {}}

\* Every critical section is a step of its own: nobody keeps tm_mtx over a step.
LockHolders == {}

\* No caller is in Start or Stop of worker w.
NotInCall(w) == \A c \in Callers : target[c] # w

\* Who but its owner has a shared_ptr to worker w: the manager, or a caller with a
\* list that it is in.
HeldByManager(w) == w \in workers
ListHolders(w) == {c \in Callers : w \in taken[c]}
-----------------------------------------------------------------------------
(* The manager's GetNew.  A full manager returns nullptr: nothing changes. *)

\* A newly created worker: which of the unused ones stands for it is no matter.
Fresh == CHOOSE w \in Workers \ made : TRUE

GetNew(c) ==
  /\ LockHolders = {} /\ Cardinality(workers) < MaxWorkerCount
  /\ Workers \ made # {}
  /\ workers' = workers \cup {Fresh}
  /\ made' = made \cup {Fresh}
  /\ owner' = [owner EXCEPT ![Fresh] = c]

CallGetNew(c) ==
  /\ callerPc[c] = "idle"
  /\ GetNew(c)
  /\ UNCHANGED <<flagVars, th, callVars>>

\* A callable calls NewWorker, and passes what it gets to some caller.
Ask(w) ==
  /\ th[w] = "runs"
  /\ th' = [th EXCEPT ![w] = "asks"]
  /\ UNCHANGED <<workers, made, owner, flagVars, callVars>>

Answer(w) ==
  /\ th[w] = "asks" /\ LockHolders = {}
  /\ \/ \E c \in Callers : GetNew(c)
     \/ Cardinality(workers) >= MaxWorkerCount /\ UNCHANGED <<workers, made, owner>>
     \/ made = Workers /\ UNCHANGED <<workers, made, owner>>
  /\ th' = [th EXCEPT ![w] = "runs"]
  /\ UNCHANGED <<flagVars, callVars>>
-----------------------------------------------------------------------------
(* Owners: Set, Start and Stop of NesesThread, and the destructor.         *)

SetCallable(c, w) ==
  /\ callerPc[c] = "idle" /\ owner[w] = c
  /\ isSet' = isSet \cup {w}
  /\ UNCHANGED <<workers, made, owner, stopFlag, isDone, isStarted, th, callVars>>

\* Mutation: a worker that was asked to stop counts as stopped.
StartOnFlag(c, w) ==
  /\ callerPc[c] = "idle" /\ owner[w] = c /\ NotInCall(w)
  /\ w \notin isStarted \/ w \in stopFlag
  /\ w \in isSet
  /\ isDone' = isDone \ {w}
  /\ stopFlag' = stopFlag \ {w}
  /\ callerPc' = [callerPc EXCEPT ![c] = "spawn"]
  /\ target' = [target EXCEPT ![c] = w]
  /\ UNCHANGED <<workers, made, owner, isSet, isStarted, th, todo, taken>>

\* A worker that is started already, or that has no callable, is left alone.
\* Storing the flags takes back a stop that was requested before.
Start(c, w) ==
  /\ callerPc[c] = "idle" /\ owner[w] = c /\ NotInCall(w)
  /\ w \notin isStarted /\ w \in isSet
  /\ isDone' = isDone \ {w}
  /\ stopFlag' = stopFlag \ {w}
  /\ callerPc' = [callerPc EXCEPT ![c] = "spawn"]
  /\ target' = [target EXCEPT ![c] = w]
  /\ UNCHANGED <<workers, made, owner, isSet, isStarted, th, todo, taken>>

\* The system may refuse the thread: th_ is reset and Start returns false.
Spawn(c) ==
  /\ callerPc[c] = "spawn"
  /\ \/ /\ th' = [th EXCEPT ![target[c]] = "runs"]
        /\ isStarted' = isStarted \cup {target[c]}
     \/ /\ th' = [th EXCEPT ![target[c]] = "none"]
        /\ UNCHANGED isStarted
  /\ callerPc' = [callerPc EXCEPT ![c] = "idle"]
  /\ target' = [target EXCEPT ![c] = NoOne]
  /\ UNCHANGED <<workers, made, owner, isSet, stopFlag, isDone, todo, taken>>

Stop(c, w) ==
  /\ callerPc[c] = "idle" /\ owner[w] = c
  /\ callerPc' = [callerPc EXCEPT ![c] = "stop"]
  /\ todo' = [todo EXCEPT ![c] = {w}]
  /\ UNCHANGED <<workers, made, owner, flagVars, th, target, taken>>

\* Mutation: a destructor that does not stop the thread.
ReleaseOnly(c, w) ==
  /\ callerPc[c] = "idle" /\ owner[w] = c
  /\ owner' = [owner EXCEPT ![w] = NoOne]
  /\ UNCHANGED <<workers, made, flagVars, th, callVars>>

\* The owner lets go of its shared_ptr.  If it was the last one the destructor
\* calls Stop.
Release(c, w) ==
  /\ callerPc[c] = "idle" /\ owner[w] = c
  /\ owner' = [owner EXCEPT ![w] = NoOne]
  /\ IF HeldByManager(w) \/ ListHolders(w) # {}
       THEN UNCHANGED <<callerPc, todo>>
       ELSE /\ callerPc' = [callerPc EXCEPT ![c] = "stop"]
            /\ todo' = [todo EXCEPT ![c] = {w}]
  /\ UNCHANGED <<workers, made, flagVars, th, target, taken>>
-----------------------------------------------------------------------------
(* The manager's StopAll and RemoveFinished.                               *)

\* With the lock: request a cooperative stop and take over the whole vector.
StopAll(c) ==
  /\ callerPc[c] = "idle" /\ LockHolders = {}
  /\ stopFlag' = stopFlag \cup workers
  /\ todo' = [todo EXCEPT ![c] = workers]
  /\ taken' = [taken EXCEPT ![c] = workers]
  /\ workers' = {}
  /\ callerPc' = [callerPc EXCEPT ![c] = "stop"]
  /\ UNCHANGED <<made, owner, isSet, isDone, isStarted, th, target>>

\* With the lock: take over the workers whose isDone is set.
RemoveFinished(c) ==
  /\ callerPc[c] = "idle" /\ LockHolders = {}
  /\ todo' = [todo EXCEPT ![c] = workers \cap isDone]
  /\ taken' = [taken EXCEPT ![c] = workers \cap isDone]
  /\ workers' = workers \ isDone
  /\ callerPc' = [callerPc EXCEPT ![c] = "stop"]
  /\ UNCHANGED <<made, owner, flagVars, th, target>>

\* Stop, for the next worker: SetStopFlag(true) ...
StopNext(c) ==
  /\ callerPc[c] = "stop"
  /\ \E w \in todo[c] :
       /\ NotInCall(w)
       /\ stopFlag' = stopFlag \cup {w}
       /\ target' = [target EXCEPT ![c] = w]
  /\ callerPc' = [callerPc EXCEPT ![c] = "join"]
  /\ UNCHANGED <<workers, made, owner, isSet, isDone, isStarted, th, todo, taken>>

\* ... and join, which waits for the thread to return.
Join(c) ==
  /\ callerPc[c] = "join"
  /\ LET w == target[c]
     IN  /\ th[w] \in {"none", "ended"}
         /\ IF th[w] = "ended"
              THEN /\ th' = [th EXCEPT ![w] = "none"]
                   /\ isDone' = isDone \cup {w}
                   /\ isStarted' = isStarted \ {w}
              ELSE UNCHANGED <<th, isDone, isStarted>>
         /\ todo' = [todo EXCEPT ![c] = @ \ {w}]
  /\ callerPc' = [callerPc EXCEPT ![c] = "stop"]
  /\ target' = [target EXCEPT ![c] = NoOne]
  /\ UNCHANGED <<workers, made, owner, isSet, stopFlag, taken>>

\* When the list goes its last references go, and the destructor of a worker that
\* is joinable again, for its owner has started it and let go of it since, calls
\* Stop.
StopReturn(c) ==
  /\ callerPc[c] = "stop" /\ todo[c] = {}
  /\ taken' = [taken EXCEPT ![c] = {}]
  /\ LET dying == {w \in taken[c] \cap Joinable :
                     owner[w] = NoOne /\ ~HeldByManager(w) /\ ListHolders(w) = {c}}
     IN  /\ todo' = [todo EXCEPT ![c] = dying]
         /\ callerPc' = [callerPc EXCEPT ![c] = IF dying = {} THEN "idle" ELSE "stop"]
  /\ UNCHANGED <<workers, made, owner, flagVars, th, target>>
-----------------------------------------------------------------------------
(* Callables.  They return at any time, when asked to stop or before, and  *)
(* may report themselves done first, as DirWatcher::WatchRoutine does.     *)

SetIsDone(w) ==
  /\ th[w] = "runs"
  /\ isDone' = isDone \cup {w}
  /\ th' = [th EXCEPT ![w] = "leaves"]
  /\ UNCHANGED <<workers, made, owner, isSet, stopFlag, isStarted, callVars>>

ReturnFromCallable(w) ==
  /\ th[w] \in {"runs", "leaves"}
  /\ th' = [th EXCEPT ![w] = "ended"]
  /\ UNCHANGED <<workers, made, owner, flagVars, callVars>>
-----------------------------------------------------------------------------
CallerStep(c) == Spawn(c) \/ StopNext(c) \/ Join(c) \/ StopReturn(c)

MNext ==
  \/ \E c \in Callers :
       \/ CallGetNew(c) \/ StopAll(c) \/ RemoveFinished(c) \/ CallerStep(c)
       \/ \E w \in Workers : SetCallable(c, w) \/ Start(c, w) \/ Stop(c, w) \/ Release(c, w)
  \/ \E w \in Workers : Ask(w) \/ Answer(w) \/ SetIsDone(w) \/ ReturnFromCallable(w)

MSpec == MInit /\ [][MNext]_mvars

\* Calls go on; that of another caller for the same worker comes to its end
\* first, again and again (NotInCall), hence strong fairness.  A callable that is
\* asked to stop returns, as the loops of Logger and DirWatcher do, but may call
\* NewWorker before, and gets the lock.
MFairness ==
  /\ \A c \in Callers : SF_mvars(CallerStep(c))
  /\ \A w \in Workers :
       /\ SF_mvars(w \in stopFlag /\ ReturnFromCallable(w))
       /\ WF_mvars(Answer(w))

MFairSpec == MSpec /\ MFairness
-----------------------------------------------------------------------------
(* Properties.                                                             *)

\* The manager lists no more workers than it may, and no thread runs without a
\* callable (ThreadManager.hpp:96, NesesThread.hpp:123).
MTypeOK ==
  /\ workers \subseteq made /\ Cardinality(workers) <= MaxWorkerCount
  /\ made \subseteq Workers
  /\ owner \in [Workers -> Callers \cup {NoOne}]
  /\ isSet \subseteq made /\ stopFlag \subseteq made
  /\ isDone \subseteq made /\ isStarted \subseteq made
  /\ th \in [Workers -> ThStates] /\ Joinable \subseteq isSet
  /\ callerPc \in [Callers -> {"idle", "spawn", "stop", "join"}]
  /\ target \in [Callers -> made \cup {NoOne}]
  /\ todo \in [Callers -> SUBSET made]
  /\ taken \in [Callers -> SUBSET made]

\* Start never assigns to a th_ that is joinable, which would end the program:
\* isStarted, which it tests, is cleared only where th_ is (NesesThread.hpp:120,
\* 133, 142, 150-157), whoever it is that stops the worker.
SpawnsOverNothing ==
  \A c \in Callers : callerPc[c] = "spawn" => target[c] \notin Joinable

\* A thread is never out of everybody's reach: as long as it is joinable its worker
\* is held by its owner, by the manager or by a caller that is about to stop it,
\* although StopAll and RemoveFinished give workers up before they stop them
\* (ThreadManager.hpp:71-76, 119-133, NesesThread.hpp:37-40).
NoOrphans == \A w \in Joinable :
  \/ owner[w] # NoOne \/ HeldByManager(w) \/ ListHolders(w) # {}
  \/ \E c \in Callers : w \in todo[c]

\* Stop, StopAll and RemoveFinished return, even if a callable that is being
\* joined calls into the manager (ThreadManager.hpp:63-85, 105-136).
StopsReturn == \A c \in Callers : callerPc[c] \in {"stop", "join"} ~> callerPc[c] = "idle"

\* What the invariants above rest on, for the proofs of ThreadManagerProofs.

\* A caller in Start or Stop is so for one worker, and alone with it.
CallsApart ==
  /\ \A c \in Callers : callerPc[c] \in {"spawn", "join"} <=> target[c] # NoOne
  /\ \A c, d \in Callers : target[c] = target[d] /\ target[c] # NoOne => c = d

\* Only while it stops workers has a caller a list of them.
ListsInUse ==
  \A c \in Callers : callerPc[c] \in {"idle", "spawn"} => todo[c] = {} /\ taken[c] = {}

OwnedIsMade == \A w \in Workers : owner[w] # NoOne => w \in made

StartedIsJoinable == isStarted = Joinable

SpawnerOwns ==
  \A c \in Callers :
    callerPc[c] = "spawn" => owner[target[c]] = c /\ target[c] \in isSet \ isStarted
=============================================================================
