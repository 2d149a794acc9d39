------------------------------ MODULE MCThreads ------------------------------
(* The manager of the worker threads and the timer, which runs a thread of *)
(* its own.  They share nothing, so that their behaviours need not be      *)
(* interleaved: while one is at work the other is as it was created.       *)
EXTENDS ThreadManager, Timer

CONSTANTS c1, c2, w1, w2, t1, t2

\* Either caller may own either worker, and stop all of them while the other starts,
\* stops or releases its own.
MCCallers == {c1, c2}
MCWorkers == {w1, w2}
\* The timer has one user, who may start it again while its last thread is ending.
MCUsers   == {c1}
MCThreads == {t1, t2}

ThreadsInit == MInit /\ TInit

\* A timer that has just been created, and is not the copy of one.
NewTimer == TInit /\ expired /\ ~tryToExpire /\ counter = 0

ThreadsNext ==
  \/ NewTimer /\ MNext /\ UNCHANGED tvars
  \/ MInit /\ TNext /\ UNCHANGED mvars

ThreadsSpec ==
  ThreadsInit /\ [][ThreadsNext]_<<mvars, tvars>> /\ MFairness /\ TFairness
=============================================================================
