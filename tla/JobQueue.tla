------------------------------ MODULE JobQueue ------------------------------
(***************************************************************************)
(* What a task pool promises its clients, with no threads, locks or        *)
(* condition variables in sight: an accepted job is begun exactly once,    *)
(* jobs are begun in the order in which they were accepted, and a begun    *)
(* job may finish.  TaskPool is shown to implement this specification.     *)
(***************************************************************************)
EXTENDS Sequences, Functions

CONSTANT Jobs

VARIABLES
  pending,     \* accepted jobs that nobody has begun, oldest first
  active,      \* jobs being executed
  finished     \* jobs that have been executed

jobVars == <<pending, active, finished>>

JobInit ==
  /\ pending = << >>
  /\ active = {}
  /\ finished = {}

\* A job is accepted at most once in its life.
Submit(j) ==
  /\ j \notin Range(pending) \cup active \cup finished
  /\ pending' = Append(pending, j)
  /\ UNCHANGED <<active, finished>>

\* Only the oldest accepted job may be begun.
Begin ==
  /\ pending # << >>
  /\ pending' = Tail(pending)
  /\ active' = active \cup {Head(pending)}
  /\ UNCHANGED finished

Finish(j) ==
  /\ j \in active
  /\ active' = active \ {j}
  /\ finished' = finished \cup {j}
  /\ UNCHANGED pending

JobNext ==
  \/ \E j \in Jobs : Submit(j)
  \/ Begin
  \/ \E j \in Jobs : Finish(j)

JobSpec == JobInit /\ [][JobNext]_jobVars
=============================================================================
