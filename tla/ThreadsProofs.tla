---------------------------- MODULE ThreadsProofs ----------------------------
(***************************************************************************)
(* Proofs about the two that run threads: ThreadManager, for every number  *)
(* of callers and workers and every MaxWorkerCount, and Timer, for any     *)
(* times and one user.                                                     *)
(***************************************************************************)
EXTENDS ThreadManager, Timer, FiniteSetTheorems, TLAPS

-----------------------------------------------------------------------------
(* The manager.                                                            *)

ManagerInv ==
  /\ MTypeOK /\ IsFiniteSet(workers)
  /\ CallsApart /\ ListsInUse /\ StartedIsJoinable /\ SpawnerOwns
  /\ OwnedIsMade /\ NoOrphans

-----------------------------------------------------------------------------
\* The invariant holds of a new manager.
LEMMA ManagerInit == MInit => ManagerInv
<1> SUFFICES ASSUME MInit
             PROVE  ManagerInv
  OBVIOUS
<1>1. IsFiniteSet({}) /\ Cardinality({}) = 0
  BY FS_EmptySet
<1>2. MTypeOK /\ IsFiniteSet(workers)
  BY <1>1, MaxAssumption DEF MInit, MTypeOK, ThStates, Joinable
<1>3. CallsApart /\ ListsInUse /\ StartedIsJoinable /\ SpawnerOwns
      /\ OwnedIsMade /\ NoOrphans
  BY DEF MInit, CallsApart, ListsInUse, StartedIsJoinable, SpawnerOwns, OwnedIsMade, NoOrphans, Joinable
<1>4. QED
  BY <1>2, <1>3 DEF ManagerInv

\* What GetNew does to the sets: one more worker, which nobody has seen before.
LEMMA GetNewIs ==
  ASSUME ManagerInv, NEW c \in Callers, GetNew(c)
  PROVE  \E w \in Workers \ made :
            /\ workers' = workers \cup {w} /\ made' = made \cup {w}
            /\ owner' = [owner EXCEPT ![w] = c]
            /\ IsFiniteSet(workers') /\ Cardinality(workers') <= MaxWorkerCount
<1>1. Fresh \in Workers \ made /\ Cardinality(workers) < MaxWorkerCount
      /\ workers' = workers \cup {Fresh} /\ made' = made \cup {Fresh}
      /\ owner' = [owner EXCEPT ![Fresh] = c]
  BY DEF GetNew, Fresh
<1>2. IsFiniteSet(workers) /\ Fresh \notin workers
  BY <1>1 DEF ManagerInv, MTypeOK
<1>3. IsFiniteSet(workers') /\ Cardinality(workers') = Cardinality(workers) + 1
  BY <1>1, <1>2, FS_AddElement
<1>4. Cardinality(workers) \in Nat
  BY <1>2, FS_CardinalityType
<1>5. Cardinality(workers') <= MaxWorkerCount
  BY <1>1, <1>3, <1>4, MaxAssumption
<1>6. QED
  BY <1>1, <1>3, <1>5

\* A new worker disturbs nothing, whatever th does meanwhile among the states of
\* joinable threads.
LEMMA GetNewKeeps ==
  ASSUME ManagerInv, NEW c \in Callers, GetNew(c),
         UNCHANGED <<flagVars, callVars>>,
         th' \in [Workers -> ThStates], Joinable' = Joinable
  PROVE  ManagerInv'
<1>1. PICK w \in Workers \ made :
            /\ workers' = workers \cup {w} /\ made' = made \cup {w}
            /\ owner' = [owner EXCEPT ![w] = c]
            /\ IsFiniteSet(workers') /\ Cardinality(workers') <= MaxWorkerCount
  BY GetNewIs
<1> USE DEF flagVars, callVars
<1>2. MTypeOK' /\ IsFiniteSet(workers)'
  BY <1>1 DEF ManagerInv, MTypeOK
<1>3. CallsApart' /\ ListsInUse' /\ StartedIsJoinable'
  BY DEF ManagerInv, CallsApart, ListsInUse, StartedIsJoinable
<1>4. SpawnerOwns'
  BY <1>1 DEF ManagerInv, MTypeOK, SpawnerOwns, CallsApart
<1>5. OwnedIsMade' /\ NoOrphans'
  BY <1>1, CallersAssumption DEF ManagerInv, MTypeOK, OwnedIsMade, NoOrphans, HeldByManager, ListHolders
<1>6. QED
  BY <1>2, <1>3, <1>4, <1>5 DEF ManagerInv

\* Every step of callers, manager and threads keeps the invariant.
LEMMA ManagerStep == ManagerInv /\ [MNext]_mvars => ManagerInv'
<1> SUFFICES ASSUME ManagerInv, [MNext]_mvars
             PROVE  ManagerInv'
  OBVIOUS
<1> USE DEF flagVars, callVars
<1>a. MTypeOK /\ IsFiniteSet(workers) /\ CallsApart /\ ListsInUse /\ StartedIsJoinable
      /\ SpawnerOwns /\ OwnedIsMade /\ NoOrphans
  BY DEF ManagerInv
<1>1. ASSUME NEW c \in Callers, CallGetNew(c)
      PROVE  ManagerInv'
  <2>1. Joinable' = Joinable
    BY <1>1 DEF CallGetNew, Joinable
  <2>2. QED
    BY <1>1, <1>a, <2>1, GetNewKeeps DEF CallGetNew, MTypeOK
<1>2. ASSUME NEW w \in Workers, Ask(w)
      PROVE  ManagerInv'
  <2>1. Joinable' = Joinable
    BY <1>2, <1>a DEF Ask, Joinable, MTypeOK
  <2>2. MTypeOK' /\ IsFiniteSet(workers)'
    BY <1>2, <1>a, <2>1 DEF Ask, MTypeOK, ThStates
  <2>3. QED
    BY <1>2, <1>a, <2>1, <2>2 DEF Ask, ManagerInv, CallsApart, ListsInUse,
       StartedIsJoinable, SpawnerOwns, OwnedIsMade, NoOrphans, HeldByManager, ListHolders
<1>3. ASSUME NEW w \in Workers, Answer(w)
      PROVE  ManagerInv'
  <2>1. Joinable' = Joinable /\ th' \in [Workers -> ThStates]
    BY <1>3, <1>a DEF Answer, Joinable, MTypeOK, ThStates
  <2>2. ASSUME NEW c \in Callers, GetNew(c)
        PROVE  ManagerInv'
    BY <1>3, <2>1, <2>2, GetNewKeeps DEF Answer
  <2>3. CASE UNCHANGED <<workers, made, owner>>
    <3>1. MTypeOK' /\ IsFiniteSet(workers)'
      BY <1>3, <1>a, <2>1, <2>3 DEF Answer, MTypeOK
    <3>2. QED
      BY <1>3, <1>a, <2>1, <2>3, <3>1 DEF Answer, ManagerInv, CallsApart, ListsInUse,
         StartedIsJoinable, SpawnerOwns, OwnedIsMade, NoOrphans, HeldByManager, ListHolders
  <2>4. QED
    BY <1>3, <2>2, <2>3 DEF Answer
<1>4. ASSUME NEW c \in Callers, NEW w \in Workers, SetCallable(c, w)
      PROVE  ManagerInv'
  <2>1. w \in made /\ w # NoOne /\ c # NoOne
    BY <1>4, <1>a, CallersAssumption DEF SetCallable, OwnedIsMade
  <2>a. MTypeOK' /\ IsFiniteSet(workers)'
    BY <1>4, <1>a, <2>1 DEF SetCallable, MTypeOK, ThStates, Joinable
  <2>b. CallsApart' /\ ListsInUse'
    BY <1>4, <1>a, <2>1 DEF SetCallable, MTypeOK, CallsApart, ListsInUse, NotInCall
  <2>c. StartedIsJoinable' /\ SpawnerOwns' /\ OwnedIsMade'
    BY <1>4, <1>a, <2>1 DEF SetCallable, MTypeOK, CallsApart, StartedIsJoinable, SpawnerOwns,
       OwnedIsMade, Joinable, NotInCall
  <2>d. NoOrphans'
    BY <1>4, <1>a, <2>1 DEF SetCallable, MTypeOK, CallsApart, ListsInUse, SpawnerOwns,
       NoOrphans, Joinable, HeldByManager, ListHolders
  <2>e. QED
    BY <2>a, <2>b, <2>c, <2>d DEF ManagerInv
<1>5. ASSUME NEW c \in Callers, NEW w \in Workers, Start(c, w)
      PROVE  ManagerInv'
  <2>1. w \in made /\ w # NoOne /\ c # NoOne
    BY <1>5, <1>a, CallersAssumption DEF Start, OwnedIsMade
  <2>a. MTypeOK' /\ IsFiniteSet(workers)'
    BY <1>5, <1>a, <2>1 DEF Start, MTypeOK, ThStates, Joinable
  <2>b. CallsApart' /\ ListsInUse'
    BY <1>5, <1>a, <2>1 DEF Start, MTypeOK, CallsApart, ListsInUse, NotInCall
  <2>c. StartedIsJoinable' /\ SpawnerOwns' /\ OwnedIsMade'
    BY <1>5, <1>a, <2>1 DEF Start, MTypeOK, CallsApart, StartedIsJoinable, SpawnerOwns,
       OwnedIsMade, Joinable, NotInCall
  <2>d. NoOrphans'
    BY <1>5, <1>a, <2>1 DEF Start, MTypeOK, CallsApart, ListsInUse, SpawnerOwns,
       NoOrphans, Joinable, HeldByManager, ListHolders
  <2>e. QED
    BY <2>a, <2>b, <2>c, <2>d DEF ManagerInv
<1>6. ASSUME NEW c \in Callers, Spawn(c)
      PROVE  ManagerInv'
  <2>1. target[c] \in made /\ c # NoOne /\ target[c] \in isSet
    BY <1>6, <1>a, CallersAssumption DEF Spawn, MTypeOK, CallsApart, SpawnerOwns
  <2>a. MTypeOK' /\ IsFiniteSet(workers)'
    BY <1>6, <1>a, <2>1 DEF Spawn, MTypeOK, ThStates, Joinable
  <2>b. CallsApart' /\ ListsInUse'
    BY <1>6, <1>a, <2>1 DEF Spawn, MTypeOK, CallsApart, ListsInUse, NotInCall
  <2>c. StartedIsJoinable' /\ SpawnerOwns' /\ OwnedIsMade'
    BY <1>6, <1>a, <2>1 DEF Spawn, MTypeOK, CallsApart, StartedIsJoinable, SpawnerOwns,
       OwnedIsMade, Joinable, NotInCall
  <2>d. NoOrphans'
    BY <1>6, <1>a, <2>1 DEF Spawn, MTypeOK, CallsApart, ListsInUse, SpawnerOwns,
       NoOrphans, Joinable, HeldByManager, ListHolders
  <2>e. QED
    BY <2>a, <2>b, <2>c, <2>d DEF ManagerInv
<1>7. ASSUME NEW c \in Callers, NEW w \in Workers, Stop(c, w)
      PROVE  ManagerInv'
  <2>1. w \in made /\ w # NoOne /\ c # NoOne
    BY <1>7, <1>a, CallersAssumption DEF Stop, OwnedIsMade
  <2>a. MTypeOK' /\ IsFiniteSet(workers)'
    BY <1>7, <1>a, <2>1 DEF Stop, MTypeOK, ThStates, Joinable
  <2>b. CallsApart' /\ ListsInUse'
    BY <1>7, <1>a, <2>1 DEF Stop, MTypeOK, CallsApart, ListsInUse, NotInCall
  <2>c. StartedIsJoinable' /\ SpawnerOwns' /\ OwnedIsMade'
    BY <1>7, <1>a, <2>1 DEF Stop, MTypeOK, CallsApart, StartedIsJoinable, SpawnerOwns,
       OwnedIsMade, Joinable, NotInCall
  <2>d. NoOrphans'
    BY <1>7, <1>a, <2>1 DEF Stop, MTypeOK, CallsApart, ListsInUse, SpawnerOwns,
       NoOrphans, Joinable, HeldByManager, ListHolders
  <2>e. QED
    BY <2>a, <2>b, <2>c, <2>d DEF ManagerInv
<1>8. ASSUME NEW c \in Callers, NEW w \in Workers, Release(c, w)
      PROVE  ManagerInv'
  <2>1. w \in made /\ w # NoOne /\ c # NoOne
    BY <1>8, <1>a, CallersAssumption DEF Release, OwnedIsMade
  <2>a. MTypeOK' /\ IsFiniteSet(workers)'
    BY <1>8, <1>a, <2>1 DEF Release, MTypeOK, ThStates, Joinable
  <2>b. CallsApart' /\ ListsInUse'
    BY <1>8, <1>a, <2>1 DEF Release, MTypeOK, CallsApart, ListsInUse, NotInCall
  <2>c. StartedIsJoinable' /\ SpawnerOwns' /\ OwnedIsMade'
    BY <1>8, <1>a, <2>1 DEF Release, MTypeOK, CallsApart, StartedIsJoinable, SpawnerOwns,
       OwnedIsMade, Joinable, NotInCall
  <2>d. NoOrphans'
    BY <1>8, <1>a, <2>1 DEF Release, MTypeOK, CallsApart, ListsInUse, SpawnerOwns,
       NoOrphans, Joinable, HeldByManager, ListHolders
  <2>e. QED
    BY <2>a, <2>b, <2>c, <2>d DEF ManagerInv
<1>9. ASSUME NEW c \in Callers, StopAll(c)
      PROVE  ManagerInv'
  <2>1. IsFiniteSet({}) /\ Cardinality({}) = 0
    BY FS_EmptySet
  <2>a. MTypeOK' /\ IsFiniteSet(workers)'
    BY <1>9, <1>a, <2>1, MaxAssumption DEF StopAll, MTypeOK, ThStates, Joinable
  <2>b. CallsApart' /\ ListsInUse'
    BY <1>9, <1>a, <2>1, MaxAssumption DEF StopAll, MTypeOK, CallsApart, ListsInUse, NotInCall
  <2>c. StartedIsJoinable' /\ SpawnerOwns' /\ OwnedIsMade'
    BY <1>9, <1>a, <2>1, MaxAssumption DEF StopAll, MTypeOK, CallsApart, StartedIsJoinable, SpawnerOwns,
       OwnedIsMade, Joinable, NotInCall
  <2>d. NoOrphans'
    BY <1>9, <1>a, <2>1, MaxAssumption DEF StopAll, MTypeOK, CallsApart, ListsInUse, SpawnerOwns,
       NoOrphans, Joinable, HeldByManager, ListHolders
  <2>e. QED
    BY <2>a, <2>b, <2>c, <2>d DEF ManagerInv
<1>10. ASSUME NEW c \in Callers, RemoveFinished(c)
      PROVE  ManagerInv'
  <2>1. IsFiniteSet(workers \ isDone) /\ Cardinality(workers \ isDone) <= Cardinality(workers)
    BY <1>a, FS_Subset
  <2>2. Cardinality(workers \ isDone) \in Nat /\ Cardinality(workers) \in Nat
    BY <1>a, <2>1, FS_CardinalityType
  <2>a. MTypeOK' /\ IsFiniteSet(workers)'
    BY <1>10, <1>a, <2>1, <2>2, MaxAssumption DEF RemoveFinished, MTypeOK, ThStates, Joinable
  <2>b. CallsApart' /\ ListsInUse'
    BY <1>10, <1>a, <2>1, <2>2, MaxAssumption DEF RemoveFinished, MTypeOK, CallsApart, ListsInUse, NotInCall
  <2>c. StartedIsJoinable' /\ SpawnerOwns' /\ OwnedIsMade'
    BY <1>10, <1>a, <2>1, <2>2, MaxAssumption DEF RemoveFinished, MTypeOK, CallsApart, StartedIsJoinable, SpawnerOwns,
       OwnedIsMade, Joinable, NotInCall
  <2>d. NoOrphans'
    BY <1>10, <1>a, <2>1, <2>2, MaxAssumption DEF RemoveFinished, MTypeOK, CallsApart, ListsInUse, SpawnerOwns,
       NoOrphans, Joinable, HeldByManager, ListHolders
  <2>e. QED
    BY <2>a, <2>b, <2>c, <2>d DEF ManagerInv
<1>11. ASSUME NEW c \in Callers, StopNext(c)
      PROVE  ManagerInv'
  <2>a. MTypeOK' /\ IsFiniteSet(workers)'
    BY <1>11, <1>a, CallersAssumption DEF StopNext, MTypeOK, ThStates, Joinable
  <2>b. CallsApart' /\ ListsInUse'
    BY <1>11, <1>a, CallersAssumption DEF StopNext, MTypeOK, CallsApart, ListsInUse, NotInCall
  <2>c. StartedIsJoinable' /\ SpawnerOwns' /\ OwnedIsMade'
    BY <1>11, <1>a, CallersAssumption DEF StopNext, MTypeOK, CallsApart, StartedIsJoinable, SpawnerOwns,
       OwnedIsMade, Joinable, NotInCall
  <2>d. NoOrphans'
    BY <1>11, <1>a, CallersAssumption DEF StopNext, MTypeOK, CallsApart, ListsInUse, SpawnerOwns,
       NoOrphans, Joinable, HeldByManager, ListHolders
  <2>e. QED
    BY <2>a, <2>b, <2>c, <2>d DEF ManagerInv
<1>12. ASSUME NEW c \in Callers, Join(c)
      PROVE  ManagerInv'
  <2>1. target[c] \in made
    BY <1>12, <1>a DEF Join, MTypeOK, CallsApart
  <2>a. MTypeOK' /\ IsFiniteSet(workers)'
    BY <1>12, <1>a, <2>1 DEF Join, MTypeOK, ThStates, Joinable
  <2>b. CallsApart' /\ ListsInUse'
    BY <1>12, <1>a, <2>1 DEF Join, MTypeOK, CallsApart, ListsInUse, NotInCall
  <2>c. StartedIsJoinable' /\ SpawnerOwns' /\ OwnedIsMade'
    BY <1>12, <1>a, <2>1 DEF Join, MTypeOK, CallsApart, StartedIsJoinable, SpawnerOwns,
       OwnedIsMade, Joinable, NotInCall
  <2>d. NoOrphans'
    BY <1>12, <1>a, <2>1 DEF Join, MTypeOK, CallsApart, ListsInUse, SpawnerOwns,
       NoOrphans, Joinable, HeldByManager, ListHolders
  <2>e. QED
    BY <2>a, <2>b, <2>c, <2>d DEF ManagerInv
<1>13. ASSUME NEW c \in Callers, StopReturn(c)
      PROVE  ManagerInv'
  <2>a. MTypeOK' /\ IsFiniteSet(workers)'
    BY <1>13, <1>a DEF StopReturn, MTypeOK, ThStates, Joinable
  <2>b. CallsApart' /\ ListsInUse'
    BY <1>13, <1>a DEF StopReturn, MTypeOK, CallsApart, ListsInUse, NotInCall
  <2>c. StartedIsJoinable' /\ SpawnerOwns' /\ OwnedIsMade'
    BY <1>13, <1>a DEF StopReturn, MTypeOK, CallsApart, StartedIsJoinable, SpawnerOwns,
       OwnedIsMade, Joinable, NotInCall
  <2>d. NoOrphans'
    BY <1>13, <1>a DEF StopReturn, MTypeOK, CallsApart, ListsInUse, SpawnerOwns,
       NoOrphans, Joinable, HeldByManager, ListHolders
  <2>e. QED
    BY <2>a, <2>b, <2>c, <2>d DEF ManagerInv
<1>14. ASSUME NEW w \in Workers, SetIsDone(w)
      PROVE  ManagerInv'
  <2>1. w \in made
    BY <1>14, <1>a DEF SetIsDone, MTypeOK, Joinable
  <2>a. MTypeOK' /\ IsFiniteSet(workers)'
    BY <1>14, <1>a, <2>1 DEF SetIsDone, MTypeOK, ThStates, Joinable
  <2>b. CallsApart' /\ ListsInUse'
    BY <1>14, <1>a, <2>1 DEF SetIsDone, MTypeOK, CallsApart, ListsInUse, NotInCall
  <2>c. StartedIsJoinable' /\ SpawnerOwns' /\ OwnedIsMade'
    BY <1>14, <1>a, <2>1 DEF SetIsDone, MTypeOK, CallsApart, StartedIsJoinable, SpawnerOwns,
       OwnedIsMade, Joinable, NotInCall
  <2>d. NoOrphans'
    BY <1>14, <1>a, <2>1 DEF SetIsDone, MTypeOK, CallsApart, ListsInUse, SpawnerOwns,
       NoOrphans, Joinable, HeldByManager, ListHolders
  <2>e. QED
    BY <2>a, <2>b, <2>c, <2>d DEF ManagerInv
<1>15. ASSUME NEW w \in Workers, ReturnFromCallable(w)
      PROVE  ManagerInv'
  <2>a. MTypeOK' /\ IsFiniteSet(workers)'
    BY <1>15, <1>a DEF ReturnFromCallable, MTypeOK, ThStates, Joinable
  <2>b. CallsApart' /\ ListsInUse'
    BY <1>15, <1>a DEF ReturnFromCallable, MTypeOK, CallsApart, ListsInUse, NotInCall
  <2>c. StartedIsJoinable' /\ SpawnerOwns' /\ OwnedIsMade'
    BY <1>15, <1>a DEF ReturnFromCallable, MTypeOK, CallsApart, StartedIsJoinable, SpawnerOwns,
       OwnedIsMade, Joinable, NotInCall
  <2>d. NoOrphans'
    BY <1>15, <1>a DEF ReturnFromCallable, MTypeOK, CallsApart, ListsInUse, SpawnerOwns,
       NoOrphans, Joinable, HeldByManager, ListHolders
  <2>e. QED
    BY <2>a, <2>b, <2>c, <2>d DEF ManagerInv
<1>16. CASE UNCHANGED mvars
  BY <1>16 DEF mvars, ManagerInv, MTypeOK, CallsApart, ListsInUse, StartedIsJoinable,
     SpawnerOwns, OwnedIsMade, NoOrphans, Joinable, HeldByManager, ListHolders
<1>17. QED
  BY <1>1, <1>2, <1>3, <1>4, <1>5, <1>6, <1>7, <1>8, <1>9, <1>10, <1>11, <1>12, <1>13, <1>14, <1>15, <1>16 DEF MNext, CallerStep

\* The inductive invariant holds throughout: the flags of a NesesThread agree with
\* its th_, calls for one worker do not overlap, and joinable threads are owned.
THEOREM ManagerInvariant == MSpec => []ManagerInv
BY ManagerInit, ManagerStep, PTL DEF MSpec

\* The vector never holds more workers than it may, and only a worker that has a
\* callable gets a thread.
THEOREM ManagerTypeCorrect == MSpec => []MTypeOK
<1>1. ManagerInv => MTypeOK
  BY DEF ManagerInv
<1>2. QED
  BY ManagerInvariant, <1>1, PTL

\* However calls of several threads interleave, Start never assigns over a thread
\* that has not been joined.
THEOREM StartsNeverOverwrite == MSpec => []SpawnsOverNothing
<1>1. ManagerInv => SpawnsOverNothing
  BY DEF ManagerInv, SpawnerOwns, StartedIsJoinable, SpawnsOverNothing
<1>2. QED
  BY ManagerInvariant, <1>1, PTL

\* Every thread stays within somebody's reach until it has been joined.
THEOREM ThreadsAreOwned == MSpec => []NoOrphans
<1>1. ManagerInv => NoOrphans
  BY DEF ManagerInv
<1>2. QED
  BY ManagerInvariant, <1>1, PTL
-----------------------------------------------------------------------------
(* The timer.                                                              *)

TTypeOK ==
  /\ expired \in BOOLEAN /\ tryToExpire \in BOOLEAN
  /\ inherited \in BOOLEAN
  /\ counter \in Int
  /\ threadPc \in [Threads -> ThreadPcs]
  /\ userPc \in [Users -> {"idle"} \cup StartPcs \cup StopPcs]

\* What the only user relies on: a timer that has expired has no thread, so that a
\* start makes the only one; and no stop that is not under way has left its mark.
\* (claim: the old thread is gone; reset: the mutex keeps the timer expired.)  A copy
\* that was born with the mark keeps it: its stops turn back before they wait.
TimerInv ==
  /\ TTypeOK
  /\ expired => Live = {}
  /\ \A s, t \in Live : s = t
  /\ inherited => tryToExpire
  /\ \A c \in Users :
       /\ userPc[c] \in {"claim", "reset"} => expired
       /\ userPc[c] = "launch" => ~expired /\ Live = {}
       /\ tryToExpire /\ ~inherited => userPc[c] \in {"lock", "asleep", "reset"}
       /\ inherited => userPc[c] \in {"idle", "claim", "launch", "checked"}

\* A new timer, or a copy, has no thread and nobody is calling it.
LEMMA TimerInit == TInit => TimerInv
<1> SUFFICES ASSUME TInit
             PROVE  TimerInv
  OBVIOUS
<1>1. expired \in BOOLEAN /\ tryToExpire \in BOOLEAN /\ counter \in Int
  <2>1. CASE expired = TRUE /\ tryToExpire = FALSE /\ counter = 0
    <3>1. counter \in Int
      BY <2>1
    <3>2. QED
      BY <2>1, <3>1, Zenon
  <2>2. CASE expired \in BOOLEAN /\ tryToExpire \in BOOLEAN /\ counter \in Counters
    BY <2>2, PeriodAssumption DEF Counters
  <2>3. QED
    BY <2>1, <2>2 DEF TInit
<1>2. TTypeOK
  BY <1>1 DEF TInit, TTypeOK, ThreadPcs
<1>3. Live = {}
  BY DEF TInit, Live
<1>4. QED
  BY <1>2, <1>3 DEF TInit, TimerInv

\* The thread that moves on, but does not end, is the one that lived.
LEMMA ThreadMoves ==
  ASSUME TTypeOK, NEW t \in Threads, threadPc[t] # "none",
         NEW pc \in ThreadPcs \ {"none"}, threadPc' = [threadPc EXCEPT ![t] = pc]
  PROVE  Live' = Live
BY DEF TTypeOK, Live

\* The steps of the thread keep the invariant.
LEMMA ThreadKeeps ==
  ASSUME TimerInv, NEW t \in Threads, ThreadStep(t)
  PROVE  TimerInv'
<1>1. CASE TestFlag(t)
  <2>1. PICK pc \in {"expire", "sleep"} : threadPc' = [threadPc EXCEPT ![t] = pc]
    BY <1>1 DEF TestFlag
  <2>2. Live' = Live
    BY <1>1, <2>1, ThreadMoves DEF TestFlag, TimerInv, ThreadPcs
  <2>3. QED
    BY <1>1, <2>1, <2>2 DEF TestFlag, TimerInv, TTypeOK, ThreadPcs
<1>2. CASE SleepOnce(t)
  <2>1. PICK pc \in {"task", "test"} : threadPc' = [threadPc EXCEPT ![t] = pc]
    BY <1>2 DEF SleepOnce
  <2>2. Live' = Live
    BY <1>2, <2>1, ThreadMoves DEF SleepOnce, TimerInv, ThreadPcs
  <2>3. counter' \in Int
    BY <1>2, PeriodAssumption DEF SleepOnce, Wrapped, TimerInv, TTypeOK
  <2>4. QED
    BY <1>2, <2>1, <2>2, <2>3 DEF SleepOnce, TimerInv, TTypeOK, ThreadPcs
<1>3. CASE FinishTask(t)
  <2>1. Live' = Live
    BY <1>3, ThreadMoves DEF FinishTask, TimerInv, ThreadPcs
  <2>2. QED
    BY <1>3, <2>1 DEF FinishTask, TimerInv, TTypeOK, ThreadPcs
<1>4. CASE Expire(t)
  \* It was the only one.
  <2>1. t \in Live /\ Live' = Live \ {t}
    BY <1>4 DEF Expire, TimerInv, TTypeOK, Live
  <2>2. Live' = {}
    BY <2>1 DEF TimerInv
  <2>3. \A c \in Users : \/ userPc'[c] = userPc[c]
                         \/ userPc[c] = "asleep" /\ userPc'[c] = "lock"
    BY <1>4 DEF Expire, Goto, Sleepers, TimerInv, TTypeOK
  <2>4. TTypeOK'
    BY <1>4 DEF Expire, Goto, Sleepers, TimerInv, TTypeOK, ThreadPcs, StopPcs
  <2>5. QED
    BY <1>4, <2>1, <2>2, <2>3, <2>4 DEF Expire, TimerInv
<1>5. QED
  BY <1>1, <1>2, <1>3, <1>4 DEF ThreadStep

\* The steps of the only user keep the invariant.
LEMMA UserKeeps ==
  ASSUME TimerInv, NEW c \in Users, Users = {c},
         \/ StartTimerCheck(c) \/ StartStep(c)
         \/ StopCheckExpired(c) \/ StopStep(c) \/ SpuriousWakeup(c)
  PROVE  TimerInv'
<1> USE DEF Goto, StartPcs, StopPcs
<1>1. CASE StartTimerCheck(c) \/ StopCheckExpired(c) \/ SpuriousWakeup(c)
  BY <1>1 DEF StartTimerCheck, StopCheckExpired, SpuriousWakeup, TimerInv, TTypeOK, Live
<1>2. CASE StartClaim(c)
  BY <1>2 DEF StartClaim, TimerInv, TTypeOK, Live
<1>3. CASE StartLaunch(c)
  <2>1. Live = {} /\ ~expired
    BY <1>3 DEF StartLaunch, TimerInv
  <2>2. QED
    BY <1>3, <2>1 DEF StartLaunch, TimerInv, TTypeOK, ThreadPcs, Live
<1>4. CASE StopCheckTry(c)
  BY <1>4 DEF StopCheckTry, TimerInv, TTypeOK, Live
<1>5. CASE StopSet(c)
  BY <1>5 DEF StopSet, TimerInv, TTypeOK, Live
<1>6. CASE StopWait(c)
  BY <1>6 DEF StopWait, TimerInv, TTypeOK, Live
<1>7. CASE StopReset(c)
  BY <1>7 DEF StopReset, TimerInv, TTypeOK, Live
<1>8. QED
  BY <1>1, <1>2, <1>3, <1>4, <1>5, <1>6, <1>7 DEF StartStep, StopStep
-----------------------------------------------------------------------------
\* Every step keeps the invariant, if nobody but c uses the timer.
LEMMA TimerStep ==
  ASSUME NEW c, Users = {c}, TimerInv, [TNext]_tvars
  PROVE  TimerInv'
<1>1. CASE \E t \in Threads : ThreadStep(t)
  BY <1>1, ThreadKeeps
<1>2. CASE \/ StartTimerCheck(c) \/ StartStep(c)
           \/ StopCheckExpired(c) \/ StopStep(c) \/ SpuriousWakeup(c)
  BY <1>2, UserKeeps
<1>3. CASE UNCHANGED tvars
  BY <1>3 DEF tvars, TimerInv, TTypeOK, Live
<1>4. QED
  BY <1>1, <1>2, <1>3 DEF TNext

\* A timer that one user starts and stops is quiet when it counts as stopped: its
\* thread has gone, whatever was started and stopped before, and how (Timer.hpp:53-59,
\* 80-89).
THEOREM StoppedTimerIsQuiet ==
  ASSUME NEW c, Users = {c}
  PROVE  TSpec => []StoppedIsQuiet
<1>1. TimerInv /\ [TNext]_tvars => TimerInv'
  BY TimerStep
<1>2. TimerInv => StoppedIsQuiet
  BY DEF TimerInv, StoppedIsQuiet
<1>3. QED
  BY TimerInit, <1>1, <1>2, PTL DEF TSpec

\* "is started, do not start again" (Timer.hpp:33) holds as long as one user starts
\* and stops the timer, however often; two of them refute it.
THEOREM OneThreadForOneUser ==
  ASSUME NEW c, Users = {c}
  PROVE  TSpec => []OneThread
<1>1. TimerInv /\ [TNext]_tvars => TimerInv'
  BY TimerStep
<1>2. TimerInv => OneThread
  <2> SUFFICES ASSUME TimerInv
               PROVE  OneThread
    OBVIOUS
  <2>1. CASE Live = {}
    BY <2>1, FS_EmptySet DEF OneThread
  <2>2. CASE \E t \in Live : TRUE
    <3>1. PICK t \in Live : Live = {t}
      BY <2>2 DEF TimerInv
    <3>2. QED
      BY <3>1, FS_Singleton DEF OneThread
  <2>3. QED
    BY <2>1, <2>2
<1>3. QED
  BY TimerInit, <1>1, <1>2, PTL DEF TSpec
=============================================================================
