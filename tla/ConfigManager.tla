---------------------------- MODULE ConfigManager ----------------------------
(***************************************************************************)
(* ConfigManager.cpp: the settings of the program, in memory and in the    *)
(* file Globals::ConfigFile, over crashes and restarts.  Of a property     *)
(* tree it matters here which settings it has.                             *)
(*                                                                         *)
(* implMutex is never locked and neither is anything else.  The program    *)
(* has to see to it that no two threads use the tree at a time; only their *)
(* calls of ensureImpl overlap here.  GetValue changes nothing.            *)
(***************************************************************************)
EXTENDS Naturals

CONSTANTS
  Threads,     \* threads that use the settings
  Settings

VARIABLES
  impl,        \* pimpl_ is set
  tree,        \* the settings in ConfigManagerImp::tree
  threadPc,    \* where thread t is in its call
  request,     \* what it calls
  file,        \* "absent", "whole", "torn", or "empty"
  stored,      \* the settings in a file that is whole
  loaded,      \* history: this process has read the file, or there is none
  blind,       \* history: a file was written over that had not been read
  cut,         \* history: a write was cut off
  ever         \* history: the settings that have been in a whole file

cvars == <<impl, tree, threadPc, request, file, stored, loaded, blind, cut, ever>>

histVars == <<blind, cut, ever>>

CInit ==
  /\ impl = FALSE /\ tree = {}
  /\ threadPc = [t \in Threads |-> "idle"]
  /\ request = [t \in Threads |-> "none"]
  /\ file = "absent" /\ stored = {} /\ loaded = FALSE
  /\ blind = FALSE /\ cut = FALSE /\ ever = {}

GoTo(t, pc) == threadPc' = [threadPc EXCEPT ![t] = pc]
Writing == \E t \in Threads : threadPc[t] = "writing"
-----------------------------------------------------------------------------
Calls == {"read", "write"} \cup Settings

CallManager(t, what) ==
  /\ threadPc[t] = "idle"
  /\ request' = [request EXCEPT ![t] = what]
  /\ GoTo(t, "ensure")
  /\ UNCHANGED <<impl, tree, file, stored, loaded, histVars>>

\* ensureImpl.  Test and assignment are two steps: a second impl may replace the
\* first.
EnsureTest(t) ==
  /\ threadPc[t] = "ensure"
  /\ GoTo(t, IF impl THEN "use" ELSE "make")
  /\ UNCHANGED <<impl, tree, request, file, stored, loaded, histVars>>

\* The tree is a static member, and stays.
EnsureMake(t) ==
  /\ threadPc[t] = "make"
  /\ impl' = TRUE
  /\ GoTo(t, "use")
  /\ UNCHANGED <<tree, request, file, stored, loaded, histVars>>

May(t, what) == threadPc[t] = "use" /\ request[t] = what /\ ~Writing

\* Mutation: read_xml reads into the tree itself.
ReadInPlace(t) ==
  /\ May(t, "read")
  /\ \/ file = "whole" /\ tree' = stored /\ loaded' = TRUE
     \/ tree' = {} /\ UNCHANGED loaded
  /\ GoTo(t, "idle")
  /\ UNCHANGED <<impl, request, file, stored, histVars>>

\* The new tree takes the place of the old one when all of it is there; if the file
\* cannot be opened or parsed the old one stays.  An empty file is a tree without
\* settings.
Read(t) ==
  /\ May(t, "read")
  /\ \/ file = "whole" /\ tree' = stored /\ loaded' = TRUE
     \/ file = "empty" /\ tree' = {} /\ loaded' = TRUE
     \/ UNCHANGED <<tree, loaded>>
  /\ GoTo(t, "idle")
  /\ UNCHANGED <<impl, request, file, stored, histVars>>

Put(t, k) ==
  /\ May(t, k)
  /\ tree' = tree \cup {k}
  /\ GoTo(t, "idle")
  /\ UNCHANGED <<impl, request, file, stored, loaded, histVars>>

\* The file is truncated when it is opened, if it can be.
WriteOpen(t) ==
  /\ May(t, "write")
  /\ \/ /\ file' = "empty" /\ stored' = {}
        /\ blind' = (blind \/ (file # "absent" /\ ~loaded))
        /\ GoTo(t, "writing")
     \/ GoTo(t, "idle") /\ UNCHANGED <<file, stored, blind>>
  /\ UNCHANGED <<impl, tree, request, loaded, cut, ever>>

\* What is written may remain a part; where that shows only when the stream is
\* destroyed the call has reported success.
WriteClose(t) ==
  /\ threadPc[t] = "writing"
  /\ \/ /\ file' = "whole" /\ stored' = tree
        /\ ever' = ever \cup tree
        /\ loaded' = TRUE
        /\ UNCHANGED cut
     \/ /\ file' \in {"empty", "torn"}
        /\ cut' = TRUE
        /\ UNCHANGED <<stored, ever, loaded>>
  /\ GoTo(t, "idle")
  /\ UNCHANGED <<impl, tree, request, blind>>

\* The program ends, by a crash or not, and is started again.
Restart ==
  /\ impl' = FALSE /\ tree' = {} /\ loaded' = FALSE
  /\ threadPc' = [t \in Threads |-> "idle"]
  /\ request' = [t \in Threads |-> "none"]
  /\ IF Writing
       THEN file' \in {"empty", "torn"} /\ cut' = TRUE
       ELSE UNCHANGED <<file, cut>>
  /\ UNCHANGED <<stored, blind, ever>>
-----------------------------------------------------------------------------
CNext ==
  \/ \E t \in Threads :
       \/ \E what \in Calls : CallManager(t, what)
       \/ EnsureTest(t) \/ EnsureMake(t)
       \/ Read(t) \/ (\E k \in Settings : Put(t, k))
       \/ WriteOpen(t) \/ WriteClose(t)
  \/ Restart

CSpec == CInit /\ [][CNext]_cvars
-----------------------------------------------------------------------------
(* Properties.                                                             *)

\* Each variable has its type.
CTypeOK ==
  /\ {impl, loaded, blind, cut} \subseteq BOOLEAN
  /\ {tree, stored, ever} \subseteq SUBSET Settings
  /\ threadPc \in [Threads -> {"idle", "ensure", "make", "use", "writing"}]
  /\ request \in [Threads -> Calls \cup {"none"}]
  /\ file \in {"absent", "whole", "torn", "empty"}

\* A setting that has once been in the file stays in it, over restarts, reads that
\* fail, and first calls that overlap; unless a write was cut off, or a process wrote
\* the file without having read it (ConfigManager.cpp:20-56, 84-91).
SettingsSurvive ==
  ~cut /\ ~blind /\ ~Writing => ever = {} \/ (file = "whole" /\ ever \subseteq stored)

\* What it rests on: a process that has read the file, or is writing it, has in its
\* tree whatever a whole file had.
LoadedIsAll == ~cut /\ ~blind /\ (loaded \/ Writing) => ever \subseteq tree
=============================================================================
