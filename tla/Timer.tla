------------------------------- MODULE Timer -------------------------------
(***************************************************************************)
(* Timer.hpp: a periodic timer.  start launches a detached thread, stop    *)
(* asks it to end and waits on a condition variable until it has.  Each    *)
(* load and store of an atomic flag is a step, because start and the first *)
(* checks of stop take no lock; what is done with _mutex is one step but   *)
(* for the wait of stop and the reset that follows it.                     *)
(*                                                                         *)
(* startOnce touches no state of the timer and is left out.                *)
(***************************************************************************)
EXTENDS Integers, FiniteSets

CONSTANTS
  Users,   \* threads that call start and stop (the destructor is a stop)
  Threads,   \* the detached threads that may run at a time
  interval,  \* the parameters of start, in seconds
  elapsed,
  MaxCounter \* the largest value of the counter, a long long

ASSUME PeriodAssumption ==
  /\ MaxCounter \in Nat
  /\ interval \in 1 .. MaxCounter /\ elapsed \in 0 .. MaxCounter

VARIABLES
  expired,      \* _expired
  tryToExpire,  \* _try_to_expire
  counter,      \* the seconds slept since the task was run
  threadPc,     \* where thread t is in its loop
  userPc,       \* where user c is in start or stop
  inherited     \* history: the timer is a copy that took _try_to_expire over

tvars == <<expired, tryToExpire, counter, threadPc, userPc, inherited>>

ThreadPcs == {"none", "test", "sleep", "task", "expire"}
StartPcs  == {"claim", "launch"}
StopPcs   == {"checked", "set", "lock", "asleep", "reset"}

Live == {t \in Threads : threadPc[t] # "none"}
Sleepers == {c \in Users : userPc[c] = "asleep"}

\* Between the wait of stop and its reset of the timer the mutex is kept.
MutexFree == \A c \in Users : userPc[c] # "reset"

Goto(c, pc) == userPc' = [userPc EXCEPT ![c] = pc]

\* The values of the counter, and what a sum of two of them wraps to.
Counters == -MaxCounter - 1 .. MaxCounter
Wrapped(n) == IF n > MaxCounter THEN n - 2 * (MaxCounter + 1) ELSE n

\* A new timer, or the copy of one: it takes both flags over, also those of a timer
\* that is being stopped, but has no thread, and its counter is not initialised.
TInit ==
  /\ \/ expired = TRUE /\ tryToExpire = FALSE /\ counter = 0
     \/ expired \in BOOLEAN /\ tryToExpire \in BOOLEAN /\ counter \in Counters
  /\ inherited = tryToExpire
  /\ threadPc = [t \in Threads |-> "none"]
  /\ userPc = [c \in Users |-> "idle"]
-----------------------------------------------------------------------------
(* start.  A timer that runs is not started again: a stuttering step.      *)

StartTimerCheck(c) ==
  /\ userPc[c] = "idle"
  /\ expired
  /\ Goto(c, "claim")
  /\ UNCHANGED <<expired, tryToExpire, counter, threadPc, inherited>>

StartClaim(c) ==
  /\ userPc[c] = "claim"
  /\ expired' = FALSE
  /\ Goto(c, "launch")
  /\ UNCHANGED <<tryToExpire, counter, threadPc, inherited>>

\* The system may refuse the thread; the exception leaves start, and _expired as
\* it is.
StartLaunch(c) ==
  /\ userPc[c] = "launch"
  /\ \/ \E t \in Threads \ Live : threadPc' = [threadPc EXCEPT ![t] = "test"]
     \/ UNCHANGED threadPc
  /\ Goto(c, "idle")
  /\ UNCHANGED <<expired, tryToExpire, counter, inherited>>
-----------------------------------------------------------------------------
(* The detached thread.                                                    *)

TestFlag(t) ==
  /\ threadPc[t] = "test"
  /\ threadPc' = [threadPc EXCEPT ![t] = IF tryToExpire THEN "expire" ELSE "sleep"]
  /\ UNCHANGED <<expired, tryToExpire, counter, userPc, inherited>>

\* Mutation: the counter is reset after every period.
ResetEveryPeriod(t) ==
  /\ threadPc[t] = "sleep"
  /\ counter' = 0
  /\ threadPc' = [threadPc EXCEPT ![t] = IF counter + interval >= elapsed THEN "task" ELSE "test"]
  /\ UNCHANGED <<expired, tryToExpire, userPc, inherited>>

\* One period passes.  The counter is not atomic: with two threads an addition may
\* be lost.
SleepOnce(t) ==
  /\ threadPc[t] = "sleep"
  /\ counter' \in {Wrapped(counter + interval)} \cup {counter : u \in Live \ {t}}
  /\ threadPc' = [threadPc EXCEPT ![t] = IF counter' >= elapsed THEN "task" ELSE "test"]
  /\ UNCHANGED <<expired, tryToExpire, userPc, inherited>>

\* The task returns.
FinishTask(t) ==
  /\ threadPc[t] = "task"
  /\ counter' = 0
  /\ threadPc' = [threadPc EXCEPT ![t] = "test"]
  /\ UNCHANGED <<expired, tryToExpire, userPc, inherited>>

\* Mutation: the notification is forgotten.
ExpireSilently(t) ==
  /\ threadPc[t] = "expire" /\ MutexFree
  /\ expired' = TRUE
  /\ threadPc' = [threadPc EXCEPT ![t] = "none"]
  /\ UNCHANGED <<tryToExpire, counter, userPc, inherited>>

\* With the mutex: say so, and wake one of those who wait for it.
Expire(t) ==
  /\ threadPc[t] = "expire" /\ MutexFree
  /\ expired' = TRUE
  /\ IF Sleepers = {} THEN UNCHANGED userPc ELSE \E c \in Sleepers : Goto(c, "lock")
  /\ threadPc' = [threadPc EXCEPT ![t] = "none"]
  /\ UNCHANGED <<tryToExpire, counter, inherited>>
-----------------------------------------------------------------------------
(* stop.  A timer that has expired, or that is being stopped, is left      *)
(* alone.                                                                  *)

StopCheckExpired(c) ==
  /\ userPc[c] = "idle"
  /\ ~expired
  /\ Goto(c, "checked")
  /\ UNCHANGED <<expired, tryToExpire, counter, threadPc, inherited>>

StopCheckTry(c) ==
  /\ userPc[c] = "checked"
  /\ Goto(c, IF tryToExpire THEN "idle" ELSE "set")
  /\ UNCHANGED <<expired, tryToExpire, counter, threadPc, inherited>>

StopSet(c) ==
  /\ userPc[c] = "set"
  /\ tryToExpire' = TRUE
  /\ Goto(c, "lock")
  /\ UNCHANGED <<expired, counter, threadPc, inherited>>

\* Mutation: stop does not wait for the thread.
StopNoWait(c) ==
  /\ userPc[c] = "lock" /\ MutexFree
  /\ expired' = TRUE
  /\ Goto(c, "reset")
  /\ UNCHANGED <<tryToExpire, counter, threadPc, inherited>>

\* With the mutex the predicate of the wait is evaluated.
StopWait(c) ==
  /\ userPc[c] = "lock" /\ MutexFree
  /\ Goto(c, IF expired THEN "reset" ELSE "asleep")
  /\ UNCHANGED <<expired, tryToExpire, counter, threadPc, inherited>>

SpuriousWakeup(c) ==
  /\ userPc[c] = "asleep"
  /\ Goto(c, "lock")
  /\ UNCHANGED <<expired, tryToExpire, counter, threadPc, inherited>>

\* Still with the mutex; _expired is read again.
StopReset(c) ==
  /\ userPc[c] = "reset"
  /\ tryToExpire' = IF expired THEN FALSE ELSE tryToExpire
  /\ Goto(c, "idle")
  /\ UNCHANGED <<expired, counter, threadPc, inherited>>
-----------------------------------------------------------------------------
ThreadStep(t) == TestFlag(t) \/ SleepOnce(t) \/ FinishTask(t) \/ Expire(t)
StartStep(c) == StartClaim(c) \/ StartLaunch(c)
StopStep(c) == StopCheckTry(c) \/ StopSet(c) \/ StopWait(c) \/ StopReset(c)

TNext ==
  \/ \E c \in Users :
       \/ StartTimerCheck(c) \/ StartStep(c)
       \/ StopCheckExpired(c) \/ StopStep(c) \/ SpuriousWakeup(c)
  \/ \E t \in Threads : ThreadStep(t)

\* Calls and threads go on, and tasks return.  Nothing is asked of the mutex: whoever
\* has it gives it back, and the one user that competes for it takes it once a call.
TFairness ==
  /\ \A c \in Users : WF_tvars(StartStep(c) \/ StopStep(c))
  /\ \A t \in Threads : WF_tvars(ThreadStep(t))

TSpec == TInit /\ [][TNext]_tvars /\ TFairness
-----------------------------------------------------------------------------
(* Properties, for a timer that one user starts and stops.               *)

\* Between the calls a timer that counts as stopped is stopped: no thread is left that
\* might run the task or touch the timer while it is destroyed.  And no stop leaves
\* its mark, with which the next thread would end at once and the next stop would not
\* wait: only a copy that was born with the mark has it (Timer.hpp:23, 53-59, 80-89).
StoppedIsQuiet ==
  (\A c \in Users : userPc[c] = "idle") =>
    /\ expired => Live = {}
    /\ tryToExpire => inherited

\* stop returns: it cannot miss the notification, however the thread's loop and the
\* stop interleave; unless there is no thread at all, because the system refused it
\* or because the timer is a copy (Timer.hpp:20-24, 40-41, 52-59, 80-84).
StopReturns ==
  \A c \in Users :
    userPc[c] \in StopPcs ~> (userPc[c] = "idle" \/ (Live = {} /\ ~expired))

\* The thread of a timer runs the task again and again until it is asked to end,
\* also after stops and restarts, and whatever the counter of a copy started from
\* (Timer.hpp:20-24, 42-52).
TaskKeepsComing ==
  \A t \in Threads : threadPc[t] = "test" ~> (threadPc[t] = "task" \/ tryToExpire)
-----------------------------------------------------------------------------
(* What the source says and its code does not keep.                        *)

\* Timer.hpp:33: "is started, do not start again".
OneThread == Cardinality(Live) <= 1
=============================================================================
