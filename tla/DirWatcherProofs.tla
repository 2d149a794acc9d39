-------------------------- MODULE DirWatcherProofs --------------------------
(***************************************************************************)
(* Proofs about the watcher of a directory, for all files, directories,    *)
(* times and capacities of the list.                                       *)
(***************************************************************************)
EXTENDS DirWatcher, SequenceTheorems, TLAPS

Entries == [file : Files, time : Times]

DiskOK == disk \in [Files -> Times \cup {Absent}] /\ gone \subseteq Dirs /\ dir \in Dirs

ThreadOK ==
  /\ th \in {"none", "check", "list", "scan", "stat", "ended"}
  /\ index \in 0 .. BufCapacity
  /\ unseen \subseteq Files
  /\ th = "stat" => current \in Files

ControlOK ==
  /\ stopFlag \in BOOLEAN /\ isDone \in BOOLEAN /\ handle \in BOOLEAN
  /\ IsStarted \in BOOLEAN /\ listedOk \in BOOLEAN /\ terminated \in BOOLEAN
  /\ ownerPc \in {"idle", "listing", "join", "done?"}
  /\ manager \in {"lists", "stops", "joins", "released"}

\* What is true of the list: its entries are of different files, and of files the client
\* knows.
ListInv ==
  /\ list \in Seq(Entries) /\ Len(list) <= BufCapacity
  /\ known \subseteq Files
  /\ \A i, j \in 1 .. Len(list) : list[i].file = list[j].file => i = j
  /\ \A i \in 1 .. Len(list) : list[i].file \in known

\* Where the thread is: there is none before the watcher is started, and none without a
\* handle; the owner lists the files before that, and waits for isDone after it has joined
\* the thread.
OwnerInv ==
  /\ ~IsStarted => th = "none"
  /\ ~handle => th = "none"
  /\ ownerPc = "listing" => ~IsStarted
  /\ ownerPc = "done?" => th = "none"

WatcherInv == DiskOK /\ ThreadOK /\ ControlOK /\ ListInv /\ OwnerInv

-----------------------------------------------------------------------------
(* The list.                                                               *)

\* The files that are listed are those of the entries.
LEMMA ListedIs ==
  ASSUME ListInv, NEW f
  PROVE  f \in Listed <=> \E i \in 1 .. Len(list) : list[i].file = f
<1>1. DOMAIN list = 1 .. Len(list)
  BY LenProperties DEF ListInv
<1>2. QED
  BY <1>1 DEF Listed, Range

\* A file that is added is one that was not in the list, and the client is told of it.
LEMMA AddKeeps ==
  ASSUME ListInv, NEW f \in Files, disk[f] \in Times, AddItem(f),
         known' = IF CanAdd(f) THEN known \cup {f} ELSE known
  PROVE  ListInv'
<1> DEFINE entry == [file |-> f, time |-> disk[f]]
<1>1. CASE CanAdd(f)
  <2>1. list' = Append(list, entry) /\ entry \in Entries /\ known' = known \cup {f}
    BY <1>1 DEF AddItem, Entries
  <2>2. /\ list \in Seq(Entries) /\ Len(list) \in Nat
        /\ list' \in Seq(Entries) /\ Len(list') = Len(list) + 1
        /\ list'[Len(list) + 1] = entry
        /\ \A i \in 1 .. Len(list) : list'[i] = list[i]
    BY <2>1, AppendProperties, LenProperties DEF ListInv
  <2>3. \A i \in 1 .. Len(list) : list[i].file # f
    BY <1>1, ListedIs DEF CanAdd
  <2>4. Len(list') <= BufCapacity
    BY <1>1, <2>2, TimesAssumption DEF CanAdd
  <2>5. \A i \in 1 .. Len(list') :
           \/ i \in 1 .. Len(list) /\ list'[i].file = list[i].file
           \/ i = Len(list) + 1 /\ list'[i].file = f
    BY <2>2
  <2>6. ASSUME NEW i \in 1 .. Len(list'), NEW j \in 1 .. Len(list'),
               list'[i].file = list'[j].file
        PROVE  i = j
    BY <2>3, <2>5, <2>6 DEF ListInv
  <2>7. \A i \in 1 .. Len(list') : list'[i].file \in known'
    BY <2>1, <2>5 DEF ListInv
  <2>8. known' \subseteq Files
    BY <2>1 DEF ListInv
  <2>9. QED
    BY <2>2, <2>4, <2>6, <2>7, <2>8 DEF ListInv
<1>2. CASE ~CanAdd(f)
  BY <1>2 DEF AddItem, ListInv
<1>3. QED
  BY <1>1, <1>2

\* A new time is another time of the same file.
LEMMA UpdateKeeps ==
  ASSUME ListInv, NEW f \in Files, disk[f] \in Times, UpdateTime(f), known' = known
  PROVE  ListInv'
<1>1. list \in Seq(Entries) /\ Len(list) \in Nat /\ DOMAIN list = 1 .. Len(list)
      /\ \A i \in 1 .. Len(list) : list[i] \in Entries
  BY LenProperties, ElementOfSeq DEF ListInv
<1>2. list' = [i \in 1 .. Len(list) |->
                 IF list[i].file = f THEN [list[i] EXCEPT !.time = disk[f]] ELSE list[i]]
  BY <1>1 DEF UpdateTime
<1>3. \A i \in 1 .. Len(list) : list'[i] \in Entries /\ list'[i].file = list[i].file
  BY <1>1, <1>2 DEF Entries
<1>4. list' \in [1 .. Len(list) -> Entries]
  BY <1>2, <1>3
<1>5. list' \in Seq(Entries) /\ Len(list') = Len(list)
  BY <1>1, <1>4, SeqDef, LenProperties
<1>6. QED
  BY <1>3, <1>5 DEF ListInv

\* The first entry goes, and the client may or may not hear of it.
LEMMA DropKeeps ==
  ASSUME ListInv, list # << >>, list' = Tail(list), UseAfterPop(Head(list).file)
  PROVE  ListInv'
<1>1. /\ list \in Seq(Entries) /\ Len(list) \in Nat /\ Len(list) > 0
      /\ Head(list) = list[1]
      /\ list' \in Seq(Entries) /\ Len(list') = Len(list) - 1
      /\ \A i \in 1 .. Len(list') : list'[i] = list[i + 1]
  BY HeadTailProperties, EmptySeq, LenProperties DEF ListInv
<1>2. \A i \in 1 .. Len(list') :
        /\ i + 1 \in 1 .. Len(list) /\ i + 1 # 1
        /\ list'[i].file = list[i + 1].file
  BY <1>1
<1>3. \A i \in 1 .. Len(list') : list'[i].file \in known /\ list'[i].file # Head(list).file
  BY <1>1, <1>2 DEF ListInv
<1>4. ASSUME NEW i \in 1 .. Len(list'), NEW j \in 1 .. Len(list'),
             list'[i].file = list'[j].file
      PROVE  i = j
  <2>1. i + 1 = j + 1
    BY <1>2, <1>4 DEF ListInv
  <2>2. QED
    BY <1>1, <2>1
<1>5. known' \in {known, known \ {Head(list).file}}
  BY DEF UseAfterPop
<1>6. \A i \in 1 .. Len(list') : list'[i].file \in known'
  BY <1>3, <1>5
<1>7. known' \subseteq Files /\ Len(list') <= BufCapacity
  BY <1>1, <1>5, TimesAssumption DEF ListInv
<1>8. QED
  BY <1>1, <1>4, <1>6, <1>7 DEF ListInv

-----------------------------------------------------------------------------
(* The steps.                                                              *)

\* The invariant holds before anything is started.
LEMMA WatcherInit == WInit => WatcherInv
<1> SUFFICES ASSUME WInit
             PROVE  WatcherInv
  OBVIOUS
<1>1. << >> \in Seq(Entries) /\ Len(<< >>) = 0
  BY EmptySeq
<1>2. ListInv
  BY <1>1, TimesAssumption DEF WInit, ListInv
<1>3. ThreadOK
  BY TimesAssumption DEF WInit, ThreadOK
<1>4. DiskOK
  BY DEF WInit, DiskOK
<1>5. ControlOK /\ OwnerInv
  BY DEF WInit, ControlOK, OwnerInv
<1>6. QED
  BY <1>2, <1>3, <1>4, <1>5 DEF WatcherInv

\* What leaves the list and its history alone leaves ListInv alone.
LEMMA ListUnchanged == ListInv /\ UNCHANGED <<list, known>> => ListInv'
BY DEF ListInv

\* The file system and the owner's choice of a directory.
LEMMA FileSystemKeeps ==
  ASSUME WatcherInv,
         \/ \E f \in Files : Write(f) \/ Delete(f)
         \/ \E d \in Dirs : DirGoes(d) \/ DirComes(d) \/ SetDirUtil(d)
  PROVE  WatcherInv'
<1>1. ASSUME NEW f \in Files, Write(f)
      PROVE  DiskOK' /\ UNCHANGED <<dir, list, known, threadVars, flagVars, ownerVars, manager, terminated>>
  BY <1>1 DEF Write, WatcherInv, DiskOK
<1>2. ASSUME NEW f \in Files, Delete(f)
      PROVE  DiskOK' /\ UNCHANGED <<dir, list, known, threadVars, flagVars, ownerVars, manager, terminated>>
  BY <1>2 DEF Delete, WatcherInv, DiskOK
<1>3. ASSUME NEW d \in Dirs, DirGoes(d)
      PROVE  DiskOK' /\ UNCHANGED <<dir, list, known, threadVars, flagVars, ownerVars, manager, terminated>>
  BY <1>3 DEF DirGoes, WatcherInv, DiskOK
<1>4. ASSUME NEW d \in Dirs, DirComes(d)
      PROVE  DiskOK' /\ UNCHANGED <<dir, list, known, threadVars, flagVars, ownerVars, manager, terminated>>
  BY <1>4 DEF DirComes, WatcherInv, DiskOK
<1>5. ASSUME NEW d \in Dirs, SetDirUtil(d)
      PROVE  DiskOK' /\ UNCHANGED <<list, known, threadVars, flagVars, ownerVars, manager, terminated>>
  BY <1>5 DEF SetDirUtil, fsVars, WatcherInv, DiskOK
<1>6. DiskOK' /\ UNCHANGED <<list, known, threadVars, flagVars, ownerVars, manager, terminated>>
  BY <1>1, <1>2, <1>3, <1>4, <1>5
<1>7. ThreadOK' /\ ControlOK' /\ OwnerInv'
  BY <1>6 DEF threadVars, flagVars, ownerVars, WatcherInv, ThreadOK, ControlOK, OwnerInv
<1>8. QED
  BY <1>6, <1>7, ListUnchanged DEF WatcherInv

\* The steps of the thread: while there is one the watcher is started, has its handle,
\* and the owner is not between the join and the end of Stop.
LEMMA ThreadKeeps == ASSUME WatcherInv, ThreadStep PROVE WatcherInv'
<1> USE DEF fsVars, threadVars, flagVars, ownerVars, ThreadAt, LeaveLoop, Terminate
<1>a. /\ DiskOK /\ ThreadOK /\ ControlOK /\ ListInv /\ OwnerInv
      /\ Len(list) \in Nat /\ Len(list) <= BufCapacity /\ BufCapacity \in Nat
      /\ Absent \notin Times
  BY LenProperties, TimesAssumption DEF WatcherInv, ListInv
<1>1. CASE WatchRoutine
  <2>1. ThreadOK' /\ ControlOK' /\ OwnerInv'
    BY <1>1, <1>a DEF WatchRoutine, ThreadOK, ControlOK, OwnerInv
  <2>2. DiskOK' /\ UNCHANGED <<list, known>>
    BY <1>1, <1>a DEF WatchRoutine, DiskOK
  <2>3. QED
    BY <1>a, <2>1, <2>2, ListUnchanged DEF WatcherInv
<1>2. CASE ListRound
  <2>1. ThreadOK' /\ DiskOK' /\ OwnerInv'
    BY <1>2, <1>a DEF ListRound, ThreadOK, DiskOK, OwnerInv
  <2>2. ControlOK'
    BY <1>2, <1>a DEF ListRound, ControlOK, UseAfterPop
  <2>3. list # << >>
    <3>1. Len(list) > 0
      BY <1>2, <1>a DEF ListRound, ThreadOK
    <3>2. QED
      BY <1>a, <3>1, EmptySeq DEF ListInv
  <2>4. \/ list' = Tail(list) /\ UseAfterPop(Head(list).file)
        \/ UNCHANGED <<list, known>>
    BY <1>2 DEF ListRound
  <2>5. ListInv'
    BY <1>a, <2>3, <2>4, DropKeeps, ListUnchanged
  <2>6. QED
    BY <2>1, <2>2, <2>5 DEF WatcherInv
<1>3. CASE BeginScan
  <2>1. ThreadOK'
    BY <1>3, <1>a DEF BeginScan, ThreadOK, InDir
  <2>2. ControlOK' /\ OwnerInv'
    BY <1>3, <1>a DEF BeginScan, ThreadOK, ControlOK, OwnerInv
  <2>3. DiskOK' /\ UNCHANGED <<list, known>>
    BY <1>3, <1>a DEF BeginScan, DiskOK
  <2>4. QED
    BY <1>a, <2>1, <2>2, <2>3, ListUnchanged DEF WatcherInv
<1>4. ASSUME NEW f \in Files, ScanNext(f)
      PROVE  WatcherInv'
  <2>1. ThreadOK' /\ ControlOK' /\ OwnerInv'
    BY <1>4, <1>a DEF ScanNext, ThreadOK, ControlOK, OwnerInv
  <2>2. DiskOK' /\ UNCHANGED <<list, known>>
    BY <1>4, <1>a DEF ScanNext, DiskOK
  <2>3. QED
    BY <1>a, <2>1, <2>2, ListUnchanged DEF WatcherInv
<1>5. CASE ScanFails
  <2>1. ThreadOK' /\ ControlOK' /\ OwnerInv'
    BY <1>5, <1>a DEF ScanFails, ThreadOK, ControlOK, OwnerInv
  <2>2. DiskOK' /\ UNCHANGED <<list, known>>
    BY <1>5, <1>a DEF ScanFails, DiskOK
  <2>3. QED
    BY <1>a, <2>1, <2>2, ListUnchanged DEF WatcherInv
<1>6. CASE ScanFile
  <2>1. ThreadOK' /\ ControlOK' /\ OwnerInv'
    BY <1>6, <1>a DEF ScanFile, ThreadOK, ControlOK, OwnerInv
  <2>2. DiskOK' /\ current \in Files
    BY <1>6, <1>a DEF ScanFile, DiskOK, ThreadOK
  <2>3. CASE Present(current)
    <3>1. disk[current] \in Times
      BY <1>a, <2>2, <2>3 DEF DiskOK, Present
    <3>2. CASE current \in Listed
      <4>1. UpdateTime(current) /\ known' = known
        BY <1>6, <2>3, <3>2 DEF ScanFile, CanAdd
      <4>2. QED
        BY <1>a, <2>1, <2>2, <3>1, <4>1, UpdateKeeps DEF WatcherInv
    <3>3. CASE current \notin Listed
      <4>1. /\ AddItem(current)
            /\ known' = IF CanAdd(current) THEN known \cup {current} ELSE known
        BY <1>6, <2>3, <3>3 DEF ScanFile
      <4>2. QED
        BY <1>a, <2>1, <2>2, <3>1, <4>1, AddKeeps DEF WatcherInv
    <3>4. QED
      BY <3>2, <3>3
  <2>4. CASE ~Present(current)
    BY <1>6, <1>a, <2>1, <2>2, <2>4, ListUnchanged DEF ScanFile, WatcherInv
  <2>5. QED
    BY <2>3, <2>4
<1>7. CASE EndScan
  <2>1. ThreadOK' /\ ControlOK' /\ OwnerInv'
    BY <1>7, <1>a DEF EndScan, ThreadOK, ControlOK, OwnerInv
  <2>2. DiskOK' /\ UNCHANGED <<list, known>>
    BY <1>7, <1>a DEF EndScan, DiskOK
  <2>3. QED
    BY <1>a, <2>1, <2>2, ListUnchanged DEF WatcherInv
<1>8. QED
  BY <1>1, <1>2, <1>3, <1>4, <1>5, <1>6, <1>7 DEF ThreadStep

\* The steps of the owner, in Start and in Stop.
LEMMA OwnerKeeps == ASSUME WatcherInv, Start \/ Stop \/ OwnerStep PROVE WatcherInv'
<1> USE DEF fsVars, threadVars, flagVars, ownerVars, OwnerAt, Terminate
<1>a. DiskOK /\ ThreadOK /\ ControlOK /\ ListInv /\ OwnerInv /\ Absent \notin Times
  BY TimesAssumption DEF WatcherInv
<1>1. CASE Start
  <2>1. ThreadOK' /\ ControlOK' /\ OwnerInv'
    BY <1>1, <1>a DEF Start, ThreadOK, ControlOK, OwnerInv, InDir
  <2>2. DiskOK' /\ UNCHANGED <<list, known>>
    BY <1>1, <1>a DEF Start, DiskOK
  <2>3. QED
    BY <1>a, <2>1, <2>2, ListUnchanged DEF WatcherInv
<1>2. CASE Stop
  <2>1. ThreadOK' /\ ControlOK' /\ OwnerInv'
    BY <1>2, <1>a DEF Stop, ThreadOK, ControlOK, OwnerInv
  <2>2. DiskOK' /\ UNCHANGED <<list, known>>
    BY <1>2, <1>a DEF Stop, DiskOK
  <2>3. QED
    BY <1>a, <2>1, <2>2, ListUnchanged DEF WatcherInv
<1>3. ASSUME NEW f \in Files, GetFile(f)
      PROVE  WatcherInv'
  <2>1. ThreadOK' /\ OwnerInv'
    BY <1>3, <1>a DEF GetFile, ThreadOK, OwnerInv
  <2>2. ControlOK' /\ DiskOK'
    BY <1>3, <1>a DEF GetFile, ControlOK, DiskOK, CanAdd
  <2>3. CASE Present(f)
    <3>1. disk[f] \in Times
      BY <1>a, <2>3 DEF DiskOK, Present
    <3>2. AddItem(f) /\ known' = IF CanAdd(f) THEN known \cup {f} ELSE known
      BY <1>3, <2>3 DEF GetFile
    <3>3. QED
      BY <1>a, <2>1, <2>2, <3>1, <3>2, AddKeeps DEF WatcherInv
  <2>4. CASE ~Present(f)
    BY <1>3, <1>a, <2>1, <2>2, <2>4, ListUnchanged DEF GetFile, WatcherInv
  <2>5. QED
    BY <2>3, <2>4
<1>4. CASE ListingFails
  <2>1. ThreadOK' /\ ControlOK' /\ OwnerInv'
    BY <1>4, <1>a DEF ListingFails, ThreadOK, ControlOK, OwnerInv
  <2>2. DiskOK' /\ UNCHANGED <<list, known>>
    BY <1>4, <1>a DEF ListingFails, DiskOK
  <2>3. QED
    BY <1>a, <2>1, <2>2, ListUnchanged DEF WatcherInv
<1>5. CASE FinishStart
  <2>1. ThreadOK' /\ ControlOK' /\ OwnerInv'
    BY <1>5, <1>a DEF FinishStart, ThreadOK, ControlOK, OwnerInv
  <2>2. DiskOK' /\ UNCHANGED <<list, known>>
    BY <1>5, <1>a DEF FinishStart, DiskOK
  <2>3. QED
    BY <1>a, <2>1, <2>2, ListUnchanged DEF WatcherInv
<1>6. CASE StopJoin
  <2>1. ThreadOK' /\ ControlOK' /\ OwnerInv'
    BY <1>6, <1>a DEF StopJoin, JoinThread, ThreadOK, ControlOK, OwnerInv
  <2>2. DiskOK' /\ UNCHANGED <<list, known>>
    BY <1>6, <1>a DEF StopJoin, DiskOK
  <2>3. QED
    BY <1>a, <2>1, <2>2, ListUnchanged DEF WatcherInv
<1>7. CASE StopFinish
  <2>1. ThreadOK' /\ ControlOK' /\ OwnerInv'
    BY <1>7, <1>a DEF StopFinish, ThreadOK, ControlOK, OwnerInv
  <2>2. DiskOK' /\ UNCHANGED <<list, known>>
    BY <1>7, <1>a DEF StopFinish, DiskOK
  <2>3. QED
    BY <1>a, <2>1, <2>2, ListUnchanged DEF WatcherInv
<1>8. QED
  BY <1>1, <1>2, <1>3, <1>4, <1>5, <1>6, <1>7 DEF OwnerStep

\* The thread manager may stop and join the thread at any time.
LEMMA ManagerKeeps == ASSUME WatcherInv, ManagerStopsAll \/ ManagerStep PROVE WatcherInv'
<1> USE DEF fsVars, threadVars, flagVars, ownerVars, ManagerAt
<1>1. \/ UNCHANGED th /\ UNCHANGED isDone
      \/ JoinThread
  BY DEF ManagerStopsAll, ManagerStep, ManagerStops, ManagerJoins
<1>2. /\ UNCHANGED <<disk, gone, dir, list, known, index, unseen, current, handle, IsStarted,
                     ownerPc, listedOk, terminated>>
      /\ stopFlag' \in {TRUE, stopFlag} /\ manager' \in {"stops", "joins", "released"}
  BY DEF ManagerStopsAll, ManagerStep, ManagerStops, ManagerJoins
<1>3. ThreadOK' /\ ControlOK' /\ OwnerInv'
  <2>1. th' \in {th, "none"} /\ isDone' \in {isDone, TRUE}
    BY <1>1 DEF JoinThread, WatcherInv, ControlOK
  <2>2. ThreadOK' /\ OwnerInv'
    BY <1>2, <2>1 DEF WatcherInv, ThreadOK, OwnerInv
  <2>3. ControlOK'
    BY <1>2, <2>1 DEF WatcherInv, ControlOK
  <2>4. QED
    BY <2>2, <2>3
<1>4. DiskOK' /\ ListInv'
  BY <1>2, ListUnchanged DEF WatcherInv, DiskOK
<1>5. QED
  BY <1>3, <1>4 DEF WatcherInv

\* The invariant holds always.
THEOREM WatcherInvariant == WSpec => []WatcherInv
<1>1. ASSUME WatcherInv, UNCHANGED wvars
      PROVE  WatcherInv'
  BY <1>1 DEF wvars, fsVars, threadVars, flagVars, ownerVars, WatcherInv, DiskOK, ThreadOK,
              ControlOK, ListInv, OwnerInv
<1>2. WatcherInv /\ [WNext]_wvars => WatcherInv'
  BY <1>1, FileSystemKeeps, ThreadKeeps, OwnerKeeps, ManagerKeeps DEF WNext
<1>3. QED
  BY WatcherInit, <1>2, PTL DEF WSpec

\* The state of the watcher has its type; in particular the list and the pass over it stay
\* within the capacity (FileList.hpp:22, DirWatcher.hpp:113).
THEOREM WatcherTypeCorrect == WSpec => []WTypeOK
<1>1. WatcherInv => WTypeOK
  BY DEF WatcherInv, DiskOK, ThreadOK, ControlOK, ListInv, WTypeOK, Entries
<1>2. QED
  BY WatcherInvariant, <1>1, PTL

\* The list has one user at a time, also when Start is broken off by an exception and
\* called again, and whatever the thread manager does; no file is in it twice, and the
\* client has been told of every file in it, whatever files come and go meanwhile
\* (FileList.hpp:19-46, DirWatcher.hpp:50-70, 161-176, 224-262).
THEOREM ListStaysSound == WSpec => []ListIsSound
<1>1. WatcherInv => ListIsSound
  <2> SUFFICES ASSUME WatcherInv
               PROVE  ListIsSound
    OBVIOUS
  <2>1. DOMAIN list = 1 .. Len(list)
    BY LenProperties DEF WatcherInv, ListInv
  <2>2. Listed \subseteq known
    BY ListedIs DEF WatcherInv, ListInv
  <2>3. ownerPc = "listing" => th = "none"
    BY DEF WatcherInv, OwnerInv
  <2>4. QED
    BY <2>1, <2>2, <2>3 DEF WatcherInv, ListInv, ListIsSound
<1>2. QED
  BY WatcherInvariant, <1>1, PTL
=============================================================================
