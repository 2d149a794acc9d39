------------------------------ MODULE MCTimer ------------------------------
(* Two threads that start and stop the same timer.                         *)
EXTENDS Timer

CONSTANTS c1, c2, t1, t2

TwoUsers  == {c1, c2}
MCThreads == {t1, t2}
=============================================================================
