----------------------------- MODULE MCTaskPool -----------------------------
(* Two clients and two workers over a queue of one place, so that clients  *)
(* can overrun the limit together and notifications can cross; three tasks *)
(* so that one is left over; a StopAll, and the destructor's after it.     *)
EXTENDS TaskPool

CONSTANTS c1, c2, t1, t2, t3

MCClients == {c1, c2}
MCTasks == {t1, t2, t3}
=============================================================================
