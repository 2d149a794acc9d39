---------------------------- MODULE MCDirWatcher ----------------------------
(* Model values for DirWatcher: two files in one directory, and an empty   *)
(* directory to change over to.                                            *)
EXTENDS DirWatcher

CONSTANTS a, b, d1, d2

MCFiles    == {a, b}
MCDirs     == {d1, d2}
MCDirOf(f) == d1
MCTimes    == {1, 2}
=============================================================================
