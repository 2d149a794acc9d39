------------------------------- MODULE Logger -------------------------------
(***************************************************************************)
(* Logger.hpp: client threads push messages into logQueue_, the consumer   *)
(* thread (a NesesThread) writes them to the log file, and the main thread *)
(* starts and stops the logger, or stops every worker of the application   *)
(* (Application::StopWorkers), the logger's among them.  The queue is      *)
(* WaitableQueue: its actions are conjoined with what the logger adds.     *)
(***************************************************************************)
EXTENDS Naturals, Sequences, SequencesExt

CONSTANTS
  Clients,      \* threads that log
  Messages,     \* what they log; each message is logged at most once
  NoMessage,
  Consumer,     \* the thread that runs ConsumeLogs
  Main,         \* the thread that calls Start, Stop and StopWorkers
  MaxLogQueueSize,
  MaxStarts     \* bound: calls of Start

ASSUME StartsAssumption == MaxStarts \in Nat /\ MaxLogQueueSize \in Nat

VARIABLES
  queue, closed, pushPc, popPc, timed, closePc, out,  \* of logQueue_
  accepted,    \* history: messages taken by logQueue_, in order
  handed,      \* history: messages given to WriteLog, in order
  written,     \* messages in the log files, in order
  stream,      \* ofs: "closed", "open", or "bad": open after a write that failed
  pending,     \* the message of that write, still in the buffer of ofs
  fileFailed,  \* history: an open or a write has failed
  consumerPc,  \* where the consumer is in ConsumeLogs
  stopFlag,    \* stopFlag_ of consumerTh_
  joinable,    \* consumerTh_->th_.joinable(); the thread's isStarted with it
  isStarted,   \* of the logger
  managed,     \* the ThreadManager still lists consumerTh_
  mainPc,      \* where the main thread is in SetStopFlag and NesesThread::Stop
  mainCall,    \* on whose behalf
  starts

queueVars  == <<queue, closed, pushPc, popPc, timed, closePc, out>>
fileVars   == <<handed, written, stream, pending, fileFailed>>
threadVars == <<stopFlag, joinable>>
mainVars   == <<isStarted, managed, mainPc, mainCall, starts>>
lvars == <<queueVars, accepted, fileVars, consumerPc, threadVars, mainVars>>

logQueue == INSTANCE WaitableQueue WITH
              Producers <- Clients, Consumers <- {Consumer}, Closers <- {Main},
              Items <- Messages, NoItem <- NoMessage, capacity <- MaxLogQueueSize

\* Logger::Init has created the worker; its call of Start is the first Start.
LInit ==
  /\ logQueue!QInit
  /\ accepted = << >> /\ handed = << >> /\ written = << >>
  /\ stream = "closed" /\ pending = << >> /\ fileFailed = FALSE
  /\ consumerPc = "absent" /\ stopFlag = FALSE /\ joinable = FALSE
  /\ isStarted = FALSE /\ managed = TRUE
  /\ mainPc = "idle" /\ mainCall = "none" /\ starts = 0
-----------------------------------------------------------------------------
(* Clients.  A message that the queue refuses is reported on the console.  *)

Log(c, m) ==
  /\ m \notin Range(accepted)
  /\ logQueue!Push(c, m)
  /\ accepted' = Append(accepted, m)
  /\ UNCHANGED <<fileVars, consumerPc, threadVars, mainVars>>

\* Mutation: the notification is forgotten.
LogNotifyNobody(c) ==
  /\ pushPc[c] = "notify"
  /\ pushPc' = [pushPc EXCEPT ![c] = "idle"]
  /\ UNCHANGED <<queue, closed, popPc, timed, closePc, out,
                 accepted, fileVars, consumerPc, threadVars, mainVars>>

LogNotify(c) ==
  /\ logQueue!NotifyOne(c)
  /\ UNCHANGED <<accepted, fileVars, consumerPc, threadVars, mainVars>>
-----------------------------------------------------------------------------
(* The log file.  Neither open nor << throws on an ofstream left as it is:  *)
(* HandleFile always answers true, and its handlers never run.             *)

\* Mutation: only another file name makes HandleFile open a file.
MustOpenNewName(newName) == newName

\* HandleFile: a new name, of the next day, closes the file and opens another; a
\* file that was closed, or could not be opened, is opened under the name it had.
MustOpen(newName) == newName \/ stream = "closed"

\* CloseFile flushes what a failed write left; the file takes it now or it is lost.
CloseFile(rest) ==
  /\ rest \in {<< >>, pending}
  /\ stream' = "closed" /\ pending' = << >>
  /\ written' = written \o rest
  /\ UNCHANGED <<handed, fileFailed>>

\* WriteLog.  A bad stream takes nothing and says nothing, until the next name or
\* the next Stop closes it.
WriteLog(lines) ==
  \E newName, opens, takes \in BOOLEAN, rest \in {<< >>, pending} :
    LET opened == IF ~MustOpen(newName) THEN stream ELSE IF opens THEN "open" ELSE "closed"
        breaks == opened = "open" /\ ~takes
        enters == opened = "open" /\ takes
    IN /\ newName \/ rest = << >>
       /\ handed' = handed \o lines
       /\ written' = (written \o rest) \o (IF enters THEN lines ELSE << >>)
       /\ stream' = IF breaks THEN "bad" ELSE opened
       /\ pending' = IF breaks THEN lines ELSE IF newName THEN << >> ELSE pending
       /\ fileFailed' = (fileFailed \/ breaks \/ (MustOpen(newName) /\ ~opens))
-----------------------------------------------------------------------------
(* The consumer.                                                           *)

\* ConsumeLogs writes a separator line first.
WriteSeparator ==
  /\ consumerPc = "begin"
  /\ WriteLog(<< >>)
  /\ consumerPc' = "loop"
  /\ UNCHANGED <<queueVars, accepted, threadVars, mainVars>>

CallWaitPop ==
  /\ consumerPc = "loop"
  /\ logQueue!WaitPop(Consumer, FALSE)
  /\ consumerPc' = "popping"
  /\ UNCHANGED <<accepted, fileVars, threadVars, mainVars>>

SleepOrWake ==
  /\ logQueue!WaitPopBlock(Consumer) \/ logQueue!SpuriousWakeup(Consumer)
  /\ UNCHANGED <<accepted, fileVars, consumerPc, threadVars, mainVars>>

PopMessage ==
  /\ logQueue!WaitPopTake(Consumer)
  /\ consumerPc' = "check"
  /\ UNCHANGED <<accepted, fileVars, threadVars, mainVars>>

\* Closed and empty: the loop ends.
PopNothing ==
  /\ logQueue!WaitPopFail(Consumer)
  /\ consumerPc' = "exited"
  /\ UNCHANGED <<accepted, fileVars, threadVars, mainVars>>

\* Mutation: only the stop flag counts, which a restart clears.
CheckFlagOnly ==
  /\ consumerPc = "check"
  /\ consumerPc' = IF stopFlag THEN "exited" ELSE "write"
  /\ UNCHANGED <<queueVars, accepted, fileVars, threadVars, mainVars>>

\* The message in hand is dropped if the logger is being stopped.  (stopFlag_ and
\* closed_ are read one after the other, and set in that order, so that reading
\* them in one step loses no outcome.)
CheckBeforeWrite ==
  /\ consumerPc = "check"
  /\ consumerPc' = IF stopFlag \/ closed THEN "exited" ELSE "write"
  /\ UNCHANGED <<queueVars, accepted, fileVars, threadVars, mainVars>>

WriteMessage ==
  /\ consumerPc = "write"
  /\ WriteLog(<<out>>)
  /\ consumerPc' = "recheck"
  /\ UNCHANGED <<queueVars, accepted, threadVars, mainVars>>

CheckAfterWrite ==
  /\ consumerPc = "recheck"
  /\ consumerPc' = IF stopFlag \/ closed THEN "exited" ELSE "loop"
  /\ UNCHANGED <<queueVars, accepted, fileVars, threadVars, mainVars>>
-----------------------------------------------------------------------------
(* The main thread.                                                        *)

\* Start: Set, SetStopFlag(false) and NesesThread::Start, whose answer is ignored:
\* the logger counts as started even if the system refused the thread.  The queue
\* stays as it is: closed, if the logger was stopped before.
Start ==
  /\ mainPc = "idle" /\ starts < MaxStarts
  /\ ~isStarted
  /\ stopFlag' = FALSE
  /\ \/ joinable' = TRUE /\ consumerPc' = "begin"
     \/ UNCHANGED <<joinable, consumerPc>>
  /\ isStarted' = TRUE
  /\ starts' = starts + 1
  /\ UNCHANGED <<queueVars, accepted, fileVars, managed, mainPc, mainCall>>

\* SetStopFlag(true) stores the flag, then invokes OnStopFlag, which closes the
\* queue (CloseQueue, WakeConsumer).  Stop calls it once ...
CallStop ==
  /\ mainPc = "idle"
  /\ isStarted
  /\ stopFlag' = TRUE
  /\ mainPc' = "close" /\ mainCall' = "Stop"
  /\ UNCHANGED <<queueVars, accepted, fileVars, consumerPc, joinable, isStarted, managed, starts>>

\* ... and ThreadManager::StopAll twice: itself, then through NesesThread::Stop.
CallStopWorkers ==
  /\ mainPc = "idle"
  /\ managed
  /\ managed' = FALSE
  /\ stopFlag' = TRUE
  /\ mainPc' = "close" /\ mainCall' = "StopAll"
  /\ UNCHANGED <<queueVars, accepted, fileVars, consumerPc, joinable, isStarted, starts>>

\* Mutation: OnStopFlag is not registered.
LeaveQueueOpen ==
  /\ mainPc = "close"
  /\ IF mainCall = "StopAll"
       THEN mainCall' = "StopWorker" /\ UNCHANGED mainPc
       ELSE mainPc' = "join" /\ UNCHANGED mainCall
  /\ UNCHANGED <<queueVars, accepted, fileVars, consumerPc, threadVars, isStarted, managed, starts>>

CloseQueue ==
  /\ mainPc = "close"
  /\ logQueue!Close(Main)
  /\ mainPc' = "wake"
  /\ UNCHANGED <<accepted, fileVars, consumerPc, threadVars, isStarted, managed, mainCall, starts>>

WakeConsumer ==
  /\ mainPc = "wake"
  /\ logQueue!CloseNotifyAll(Main)
  /\ IF mainCall = "StopAll"
       THEN mainPc' = "close" /\ mainCall' = "StopWorker"
       ELSE mainPc' = "join" /\ UNCHANGED mainCall
  /\ UNCHANGED <<accepted, fileVars, consumerPc, threadVars, isStarted, managed, starts>>

\* Mutation: Stop does not wait for the thread.
DetachConsumer ==
  /\ mainPc = "join"
  /\ joinable' = FALSE
  /\ IF mainCall = "Stop"
       THEN isStarted' = FALSE /\ \E rest \in {<< >>, pending} : CloseFile(rest)
       ELSE UNCHANGED <<isStarted, fileVars>>
  /\ mainPc' = "idle" /\ mainCall' = "none"
  /\ UNCHANGED <<queueVars, accepted, consumerPc, stopFlag, managed, starts>>

\* A thread that was never started, or was joined before, is not joined.
JoinConsumer ==
  /\ mainPc = "join"
  /\ joinable => consumerPc = "exited"
  /\ joinable' = FALSE
  /\ consumerPc' = IF joinable THEN "absent" ELSE consumerPc
  /\ IF mainCall = "Stop"
       THEN isStarted' = FALSE /\ \E rest \in {<< >>, pending} : CloseFile(rest)
       ELSE UNCHANGED <<isStarted, fileVars>>
  /\ mainPc' = "idle" /\ mainCall' = "none"
  /\ UNCHANGED <<queueVars, accepted, stopFlag, managed, starts>>
-----------------------------------------------------------------------------
ConsumerStep ==
  \/ WriteSeparator \/ CallWaitPop \/ PopMessage \/ PopNothing
  \/ CheckBeforeWrite \/ WriteMessage \/ CheckAfterWrite

MainStep == CloseQueue \/ WakeConsumer \/ JoinConsumer

LNext ==
  \/ \E c \in Clients : (\E m \in Messages : Log(c, m)) \/ LogNotify(c)
  \/ ConsumerStep \/ SleepOrWake
  \/ Start \/ CallStop \/ CallStopWorkers \/ MainStep

\* Each thread runs on; the calls of log, Start and Stop are up to the program.
LFairness ==
  /\ \A c \in Clients : WF_lvars(LogNotify(c))
  /\ WF_lvars(ConsumerStep) /\ WF_lvars(MainStep)

LSpec == LInit /\ [][LNext]_lvars /\ LFairness
-----------------------------------------------------------------------------
(* Properties.                                                             *)

\* The message the consumer has popped and not written yet.
InHand == IF consumerPc \in {"check", "write"} THEN <<out>> ELSE << >>

\* What is handed to WriteLog is an initial part of what was accepted, in that
\* order, however clients, consumer and stops interleave and even when the logger
\* is started again over the remains of the last run; and until somebody asks it
\* to stop the rest is in the consumer's hand or in the queue (Logger.hpp:218-239).
NoGapInLog ==
  /\ IsPrefix(handed, accepted)
  /\ ~stopFlag /\ ~closed => accepted = handed \o InHand \o queue

\* part is what is left of whole when some of its elements are left out: f says
\* where in whole an element of part was.
Within(part, whole) ==
  \E f \in [DOMAIN part -> DOMAIN whole] :
    /\ \A i, j \in DOMAIN part : i < j => f[i] < f[j]
    /\ \A i \in DOMAIN part : part[i] = whole[f[i]]

\* Only a file that failed loses what it was handed, across changes of the day and
\* restarts; and whatever it loses, it keeps the rest in order, each message once
\* (Logger.hpp:128-205).
FileKeepsWhatItTakes ==
  /\ ~fileFailed => written = handed
  /\ Within(written, handed)

\* When Stop has returned the consumer is gone and the file is closed; no write
\* opens it again (Logger.hpp:292-300).
StoppedIsQuiet ==
  ~isStarted /\ mainPc = "idle" => consumerPc = "absent" /\ ~joinable /\ stream = "closed"

\* Stop and StopWorkers come back: the consumer cannot sleep through the close of
\* its queue, wherever it is when the flag is set (Logger.hpp:207-221, 296).
StopComesBack == mainPc # "idle" ~> mainPc = "idle"

\* A message accepted by a logger whose thread runs is handed to the file, whether
\* earlier writes failed or not, unless the queue is closed first
\* (Logger.hpp:120-126, 218-233).
MessageReachesFile ==
  \A m \in Messages :
    (m \in Range(accepted) /\ joinable) ~> (m \in Range(handed) \/ closed)
=============================================================================
