----------------------------- MODULE DirWatcher -----------------------------
(***************************************************************************)
(* DirWatcher.hpp with its FileList: an owner that lists a directory and   *)
(* starts the watcher's thread, the thread that compares the directory     *)
(* with the list every two seconds, the file system that changes meanwhile *)
(* and the ThreadManager, which may stop the thread before the owner does. *)
(*                                                                         *)
(* A file is a path; its hash depends on nothing else, so the list holds   *)
(* paths and times.  Files are those with an allowed extension.  What the  *)
(* callbacks tell the client is kept in known.  An exception that leaves   *)
(* the thread, or a null handle that is used, ends the program.            *)
(***************************************************************************)
EXTENDS Naturals, Sequences, Functions

CONSTANTS
  Files,       \* paths in the watched directories
  Dirs,
  DirOf(_),    \* the directory of a file
  Times,       \* values of last_write_time
  BufCapacity

Absent == 0

ASSUME DirsAssumption  == Dirs # {} /\ \A f \in Files : DirOf(f) \in Dirs
ASSUME TimesAssumption == Times \subseteq Nat \ {Absent} /\ BufCapacity \in Nat

VARIABLES
  disk,        \* last_write_time of each file, or Absent
  gone,        \* directories that do not exist at the moment
  dir,         \* dirContext
  list,        \* files: records of a file and its time, oldest first
  known,       \* history: files the client has been told of
  th,          \* where the thread is in WatchRoutine; "none": not joinable
  index,       \* i of the pass over the list
  unseen,      \* files that the scan, or the first listing, has yet to come to
  current,     \* the file between is_regular_file and last_write_time
  stopFlag, isDone,           \* of thHandle
  handle,      \* thHandle is not null
  IsStarted,
  ownerPc,     \* where the owner is in Start or Stop
  listedOk,    \* Success of the last AddItem of the first listing
  manager,     \* what the ThreadManager does with the thread
  terminated

fsVars     == <<disk, gone>>
threadVars == <<th, index, unseen, current>>
flagVars   == <<stopFlag, isDone, handle>>
ownerVars  == <<IsStarted, ownerPc, listedOk>>
wvars == <<fsVars, dir, list, known, threadVars, flagVars, ownerVars, manager, terminated>>

InDir(d) == {f \in Files : DirOf(f) = d}
Present(f) == disk[f] # Absent
Listed == {entry.file : entry \in Range(list)}
Watching == th \in {"check", "list", "scan", "stat"} /\ ~stopFlag

WInit ==
  /\ disk \in [Files -> Times \cup {Absent}]
  /\ gone = {} /\ dir \in Dirs
  /\ list = << >> /\ known = {}
  /\ th = "none" /\ index = 0 /\ unseen = {} /\ current = CHOOSE f \in Files : TRUE
  /\ stopFlag = FALSE /\ isDone = FALSE
  /\ handle \in BOOLEAN              \* the manager may have no thread to give
  /\ IsStarted = FALSE /\ ownerPc = "idle" /\ listedOk = TRUE
  /\ manager = "lists" /\ terminated = FALSE

Terminate == terminated' = TRUE

ThreadAt(pc)  == th = pc /\ ~terminated
OwnerAt(pc)   == ownerPc = pc /\ ~terminated
ManagerAt(pc) == manager = pc /\ ~terminated
-----------------------------------------------------------------------------
(* The file system, as long as the program runs.                           *)

Write(f) ==
  /\ ~terminated
  /\ DirOf(f) \notin gone
  /\ \E t \in Times \ {disk[f]} : disk' = [disk EXCEPT ![f] = t]
  /\ UNCHANGED <<gone, dir, list, known, threadVars, flagVars, ownerVars, manager, terminated>>

Delete(f) ==
  /\ ~terminated
  /\ Present(f)
  /\ disk' = [disk EXCEPT ![f] = Absent]
  /\ UNCHANGED <<gone, dir, list, known, threadVars, flagVars, ownerVars, manager, terminated>>

DirGoes(d) ==
  /\ ~terminated
  /\ d \notin gone
  /\ gone' = gone \cup {d}
  /\ disk' = [f \in Files |-> IF DirOf(f) = d THEN Absent ELSE disk[f]]
  /\ UNCHANGED <<dir, list, known, threadVars, flagVars, ownerVars, manager, terminated>>

DirComes(d) ==
  /\ ~terminated
  /\ d \in gone
  /\ gone' = gone \ {d}
  /\ UNCHANGED <<disk, dir, list, known, threadVars, flagVars, ownerVars, manager, terminated>>
-----------------------------------------------------------------------------
(* FileList                                                                *)

\* Mutation: an item that is in the list is added again.
RoomOnly(f) == Len(list) < BufCapacity

\* Mutation: there is always room.
RoomForAll(f) == TRUE

CanAdd(f) == Len(list) < BufCapacity /\ f \notin Listed

\* An item that is in the list already, or for which there is no room, is not
\* added.
AddItem(f) ==
  IF CanAdd(f)
    THEN list' = Append(list, [file |-> f, time |-> disk[f]])
    ELSE UNCHANGED list

UpdateTime(f) ==
  list' = [i \in DOMAIN list |->
             IF list[i].file = f THEN [list[i] EXCEPT !.time = disk[f]] ELSE list[i]]
-----------------------------------------------------------------------------
(* The thread.                                                             *)

\* The loop ends: SetIsDone, and WatchRoutine returns.
LeaveLoop == th' = "ended" /\ isDone' = TRUE

\* Mutation: a path that is invalid is waited for even when asked to stop.
WaitForPath ==
  /\ ThreadAt("check")
  /\ dir \notin gone
  /\ th' = "list"
  /\ UNCHANGED <<fsVars, dir, list, known, index, unseen, current, flagVars,
                 ownerVars, manager, terminated>>

\* An invalid path is waited for.
WatchRoutine ==
  /\ ThreadAt("check")
  /\ IF stopFlag
       THEN LeaveLoop
       ELSE /\ dir \notin gone
            /\ th' = "list"
            /\ UNCHANGED isDone
  /\ UNCHANGED <<fsVars, dir, list, known, index, unseen, current, stopFlag, handle,
                 ownerVars, manager, terminated>>

\* The first entry is used after PopFront has freed it.  What the client is told
\* then is a matter of chance: that the file was erased, something else, or
\* nothing, unless the program ends there.
UseAfterPop(f) ==
  /\ known' \in {known, known \ {f}}
  /\ terminated' \in BOOLEAN

\* Mutation: an erased file is left in the list.
KeepErased ==
  /\ ThreadAt("list") /\ index < Len(list)
  /\ index' = index + 1
  /\ UNCHANGED <<fsVars, dir, list, known, th, unseen, current, flagVars,
                 ownerVars, manager, terminated>>

\* One round of the pass over the list, which looks at its first entry only: an
\* entry of another directory goes, and one whose file is erased.
ListRound ==
  /\ ThreadAt("list") /\ index < Len(list)
  /\ index' = index + 1
  /\ LET f == Head(list).file
     IN  IF DirOf(f) # dir \/ ~Present(f)
           THEN list' = Tail(list) /\ UseAfterPop(f)
           ELSE UNCHANGED <<list, known, terminated>>
  /\ UNCHANGED <<fsVars, dir, th, unseen, current, flagVars, ownerVars, manager>>

\* The directory is opened; that it does not exist any more is an exception.
BeginScan ==
  /\ ThreadAt("list") /\ index >= Len(list)
  /\ index' = 0
  /\ \/ /\ stopFlag
        /\ LeaveLoop
        /\ UNCHANGED <<unseen, terminated>>
     \/ /\ ~stopFlag /\ dir \notin gone
        /\ th' = "scan" /\ unseen' = InDir(dir)
        /\ UNCHANGED <<isDone, terminated>>
     \/ /\ ~stopFlag /\ dir \in gone
        /\ Terminate
        /\ UNCHANGED <<th, unseen, isDone>>
  /\ UNCHANGED <<fsVars, dir, list, known, current, stopFlag, handle, ownerVars, manager>>

\* The scan comes to one path or the next, in any order, and finds a file there or
\* does not.
ScanNext(f) ==
  /\ ThreadAt("scan") /\ f \in unseen
  /\ unseen' = unseen \ {f}
  /\ IF Present(f)
       THEN th' = "stat" /\ current' = f
       ELSE UNCHANGED <<th, current>>
  /\ UNCHANGED <<fsVars, dir, list, known, index, flagVars, ownerVars, manager, terminated>>

\* The iterator cannot go on in a directory that has been removed.
ScanFails ==
  /\ ThreadAt("scan")
  /\ \E f \in unseen : DirOf(f) \in gone
  /\ Terminate
  /\ UNCHANGED <<fsVars, dir, list, known, threadVars, flagVars, ownerVars, manager>>

\* Mutation: a file that is in the list is never looked at again.
IgnoreKnown ==
  /\ ThreadAt("stat")
  /\ th' = "scan"
  /\ AddItem(current)
  /\ known' = IF CanAdd(current) THEN known \cup {current} ELSE known
  /\ UNCHANGED <<fsVars, dir, index, unseen, current, flagVars, ownerVars, manager, terminated>>

\* A file that has vanished since is an exception; a new one is added and reported,
\* and one whose time has changed is updated (and reported).
ScanFile ==
  /\ ThreadAt("stat")
  /\ IF Present(current)
       THEN /\ th' = "scan"
            /\ IF current \in Listed THEN UpdateTime(current) ELSE AddItem(current)
            /\ known' = IF CanAdd(current) THEN known \cup {current} ELSE known
            /\ UNCHANGED terminated
       ELSE Terminate /\ UNCHANGED <<th, list, known>>
  /\ UNCHANGED <<fsVars, dir, index, unseen, current, flagVars, ownerVars, manager>>

\* The thread sleeps and begins again.
EndScan ==
  /\ ThreadAt("scan") /\ unseen = {}
  /\ IF stopFlag THEN LeaveLoop ELSE th' = "check" /\ UNCHANGED isDone
  /\ UNCHANGED <<fsVars, dir, list, known, index, unseen, current, stopFlag, handle,
                 ownerVars, manager, terminated>>
-----------------------------------------------------------------------------
(* The owner.                                                              *)

SetDirUtil(d) ==
  /\ OwnerAt("idle") /\ d \notin gone
  /\ dir' = d
  /\ UNCHANGED <<fsVars, list, known, threadVars, flagVars, ownerVars, manager, terminated>>

\* Start, with a valid directory, lists the files first ...
Start ==
  /\ OwnerAt("idle") /\ ~IsStarted
  /\ dir \notin gone
  /\ ownerPc' = "listing" /\ unseen' = InDir(dir) /\ listedOk' = TRUE
  /\ UNCHANGED <<fsVars, dir, list, known, th, index, current, flagVars, IsStarted,
                 manager, terminated>>

\* ... one after the other (GetFiles).  If a file or the directory vanishes on the
\* way an exception leaves Start.
GetFile(f) ==
  /\ OwnerAt("listing") /\ f \in unseen
  /\ \/ /\ Present(f)
        /\ AddItem(f)
        /\ known' = IF CanAdd(f) THEN known \cup {f} ELSE known
        /\ listedOk' = CanAdd(f)
        /\ unseen' = unseen \ {f}
        /\ UNCHANGED ownerPc
     \/ /\ ~Present(f)
        /\ unseen' = unseen \ {f}
        /\ UNCHANGED <<list, known, listedOk, ownerPc>>
     \/ /\ ~Present(f)
        /\ ownerPc' = "idle" /\ unseen' = {}
        /\ UNCHANGED <<list, known, listedOk>>
  /\ UNCHANGED <<fsVars, dir, th, index, current, flagVars, IsStarted, manager, terminated>>

\* A directory that is gone by now fails the second check of its path, or lets the
\* iterator throw.
ListingFails ==
  /\ OwnerAt("listing") /\ dir \in gone
  /\ \/ unseen = InDir(dir) /\ listedOk' = FALSE /\ UNCHANGED ownerPc
     \/ ownerPc' = "idle" /\ UNCHANGED listedOk
  /\ unseen' = {}
  /\ UNCHANGED <<fsVars, dir, list, known, th, index, current, flagVars, IsStarted,
                 manager, terminated>>

\* Only if the last file could be added is the thread started, which may fail as
\* well; the watcher counts as started in any case.  A handle that Stop has reset
\* is used all the same.
FinishStart ==
  /\ OwnerAt("listing") /\ unseen = {}
  /\ manager # "joins"
  /\ \/ /\ listedOk /\ handle
        /\ stopFlag' = FALSE /\ isDone' = FALSE
        /\ th' \in {"check", "none"}
        /\ UNCHANGED terminated
     \/ /\ listedOk /\ ~handle
        /\ Terminate
        /\ UNCHANGED <<stopFlag, isDone, th>>
     \/ ~listedOk /\ UNCHANGED <<stopFlag, isDone, th, terminated>>
  /\ IsStarted' = TRUE
  /\ ownerPc' = "idle"
  /\ UNCHANGED <<fsVars, dir, list, known, index, unseen, current, handle, listedOk, manager>>

\* Stop: the flag first.
Stop ==
  /\ OwnerAt("idle") /\ IsStarted /\ manager # "joins"
  /\ IF handle
       THEN ownerPc' = "join" /\ stopFlag' = TRUE /\ UNCHANGED IsStarted
       ELSE IsStarted' = FALSE /\ UNCHANGED <<ownerPc, stopFlag>>
  /\ UNCHANGED <<fsVars, dir, list, known, threadVars, isDone, handle, listedOk,
                 manager, terminated>>

\* NesesThread::Stop: a thread that is joined is done.
JoinThread == th' = "none" /\ isDone' = (isDone \/ th = "ended")

StopJoin ==
  /\ OwnerAt("join") /\ th \in {"none", "ended"}
  /\ JoinThread
  /\ ownerPc' = "done?"
  /\ UNCHANGED <<fsVars, dir, list, known, index, unseen, current, stopFlag, handle,
                 IsStarted, listedOk, manager, terminated>>

\* The loop of Stop ends once isDone is set.
StopFinish ==
  /\ OwnerAt("done?") /\ isDone
  /\ handle' = FALSE
  /\ IsStarted' = FALSE
  /\ ownerPc' = "idle"
  /\ UNCHANGED <<fsVars, dir, list, known, threadVars, stopFlag, isDone, listedOk,
                 manager, terminated>>
-----------------------------------------------------------------------------
(* ThreadManager::StopAll, for this thread: SetStopFlag at any time, then  *)
(* Stop, which is not called while the owner is in Start or Stop of it.    *)

ManagerStopsAll ==
  /\ ManagerAt("lists")
  /\ stopFlag' = TRUE
  /\ manager' = "stops"
  /\ UNCHANGED <<fsVars, dir, list, known, threadVars, isDone, handle, ownerVars, terminated>>

ManagerStops ==
  /\ ManagerAt("stops") /\ ownerPc \notin {"join", "done?"}
  /\ stopFlag' = TRUE
  /\ manager' = "joins"
  /\ UNCHANGED <<fsVars, dir, list, known, threadVars, isDone, handle, ownerVars, terminated>>

ManagerJoins ==
  /\ ManagerAt("joins") /\ th \in {"none", "ended"}
  /\ JoinThread
  /\ manager' = "released"
  /\ UNCHANGED <<fsVars, dir, list, known, index, unseen, current, stopFlag, handle,
                 ownerVars, terminated>>
-----------------------------------------------------------------------------
ThreadStep ==
  \/ WatchRoutine \/ ListRound \/ BeginScan \/ ScanFile \/ EndScan \/ ScanFails
  \/ \E f \in Files : ScanNext(f)

OwnerStep == ListingFails \/ FinishStart \/ StopJoin \/ StopFinish \/ \E f \in Files : GetFile(f)

ManagerStep == ManagerStops \/ ManagerJoins

WNext ==
  \/ \E f \in Files : Write(f) \/ Delete(f)
  \/ \E d \in Dirs : DirGoes(d) \/ DirComes(d) \/ SetDirUtil(d)
  \/ Start \/ Stop \/ OwnerStep
  \/ ThreadStep
  \/ ManagerStopsAll \/ ManagerStep

WSpec == WInit /\ [][WNext]_wvars

\* The threads go on with what they are doing, as long as they can.
WFairness == WF_wvars(ThreadStep) /\ WF_wvars(OwnerStep) /\ WF_wvars(ManagerStep)

WFairSpec == WSpec /\ WFairness
-----------------------------------------------------------------------------
(* Properties.                                                             *)

\* The list never exceeds its capacity, nor does the pass over it
\* (FileList.hpp:22, DirWatcher.hpp:113).
WTypeOK ==
  /\ disk \in [Files -> Times \cup {Absent}]
  /\ gone \subseteq Dirs /\ dir \in Dirs
  /\ list \in Seq([file : Files, time : Times]) /\ Len(list) <= BufCapacity
  /\ known \subseteq Files
  /\ th \in {"none", "check", "list", "scan", "stat", "ended"}
  /\ index \in 0 .. BufCapacity
  /\ unseen \subseteq Files /\ (th = "stat" => current \in Files)
  /\ {stopFlag, isDone, handle, IsStarted, listedOk, terminated} \subseteq BOOLEAN
  /\ ownerPc \in {"idle", "listing", "join", "done?"}
  /\ manager \in {"lists", "stops", "joins", "released"}

\* No file is in the list twice, though the first listing may have been broken off
\* by an exception and repeated, and files come, go and come back under the same
\* path; and every file in it has been reported to the client, or was there at the
\* start, whatever became of the reports of files erased before.  While the owner lists
\* the files no thread uses the list as well: neither holds a lock
\* (DirWatcher.hpp:50-70, 133-138, 161-176, 224-262, FileList.hpp:19-46).
ListIsSound ==
  /\ \A i, j \in DOMAIN list : list[i].file = list[j].file => i = j
  /\ Listed \subseteq known
  /\ ownerPc = "listing" => th = "none"

\* What happens in the directory is noticed: a file that is there, and stays, is in
\* the list in the end, with its present time, as long as the list has room
\* (DirWatcher.hpp:149-190).
ChangesNoticed ==
  \A f \in Files :
    (Watching /\ Present(f) /\ DirOf(f) = dir)
      ~> \/ [file |-> f, time |-> disk[f]] \in Range(list)
         \/ ~Present(f) \/ ~Watching \/ DirOf(f) # dir
         \/ Len(list) = BufCapacity \/ terminated

\* The oldest entry is dropped once its file is gone for good, or the watcher has
\* turned to another directory (DirWatcher.hpp:113-140).
OldestErasureNoticed ==
  \A f \in Files :
    (Watching /\ list # << >> /\ Head(list).file = f /\ (~Present(f) \/ DirOf(f) # dir))
      ~> \/ f \notin Listed \/ (Present(f) /\ DirOf(f) = dir)
         \/ ~Watching \/ dir \in gone \/ terminated

\* Stop returns, whoever stopped the thread first; unless the thread was never
\* started, be it refused by the system or by a first listing whose last file could
\* not be added: then nobody sets isDone (DirWatcher.hpp:237-241, 250-255).
StopReturns ==
  ownerPc \in {"join", "done?"}
    ~> (ownerPc = "idle" \/ (th = "none" /\ ~isDone) \/ terminated)
-----------------------------------------------------------------------------
(* What the source says and its code does not keep.                        *)

\* DirWatcher.hpp:112: the thread goes round the list first and applies the changes
\* ("once listeyi don ve degisiklikleri uygula").
ErasuresNoticed ==
  \A f \in Files :
    (Watching /\ f \in Listed /\ ~Present(f))
      ~> (f \notin Listed \/ Present(f) \/ ~Watching \/ dir \in gone \/ terminated)
=============================================================================
