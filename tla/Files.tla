-------------------------------- MODULE Files --------------------------------
(***************************************************************************)
(* NesesIO.cpp: threads that copy, move and delete files with IOUtil.      *)
(* Every function tests first and acts then, and each call of the system   *)
(* is a step: another thread may come between.  There is one directory;    *)
(* some of the files are in it.  What a file holds is a model value.       *)
(***************************************************************************)
EXTENDS Naturals

CONSTANTS
  Workers,          \* threads that call IOUtil
  FileNames, DirName,
  Inner,            \* the files that are in the directory
  Contents,
  Nothing, Folder   \* what is at a path where there is no file

ASSUME NamesAssumption == Inner \subseteq FileNames /\ DirName \notin FileNames
ASSUME NodesAssumption == {Nothing, Folder} \cap Contents = {} /\ Nothing # Folder

Paths == FileNames \cup {DirName}

VARIABLES
  disk,       \* what is at each path
  call,       \* the call worker w is in
  stage,      \* the system call it makes next
  report,     \* what the call that ended last returned
  kept,       \* history: the contents that nobody has deleted
  contested   \* history: a call wanted a destination that was taken or being taken

fvars == <<disk, call, stage, report, kept, contested>>

NoCall == [op |-> "none", src |-> DirName, dest |-> DirName]

FInit ==
  /\ disk \in [Paths -> Contents \cup {Nothing, Folder}]
  /\ \A p \in FileNames : disk[p] # Folder
  /\ \A p \in FileNames, q \in FileNames : p # q /\ disk[p] = disk[q] => disk[p] = Nothing
  /\ disk[DirName] \in {Nothing, Folder}
  /\ disk[DirName] = Nothing => \A p \in Inner : disk[p] = Nothing
  /\ call = [w \in Workers |-> NoCall]
  /\ stage = [w \in Workers |-> "idle"]
  /\ report = "none"
  /\ kept = {disk[p] : p \in FileNames} \ {Nothing}
  /\ contested = FALSE

Exists(p) == disk[p] # Nothing
HasRoom(p) == p \in Inner => disk[DirName] = Folder
IsEmptyDir(p) == p = DirName /\ \A q \in Inner : ~Exists(q)

Advance(w, s) == stage' = [stage EXCEPT ![w] = s] /\ UNCHANGED <<call, report>>
Ends(w, r) ==
  /\ stage' = [stage EXCEPT ![w] = "idle"]
  /\ call' = [call EXCEPT ![w] = NoCall]
  /\ report' = r

At(w, op, s) == call[w].op = op /\ stage[w] = s
Src(w) == call[w].src
Dest(w) == call[w].dest
-----------------------------------------------------------------------------
(* A call with an empty path fails at once: a stuttering step.             *)

Targets == {Dest(w) : w \in {v \in Workers : call[v].op \in {"move", "copy"}}}

CallOf(w, op, src, dest) ==
  /\ stage[w] = "idle"
  /\ call' = [call EXCEPT ![w] = [op |-> op, src |-> src, dest |-> dest]]
  /\ stage' = [stage EXCEPT ![w] = "test"]
  /\ contested' = (contested \/ (op = "move" /\ Exists(dest)) \/ (op \in {"move", "copy"} /\ dest \in Targets))
  /\ UNCHANGED <<disk, report, kept>>

Call(w) ==
  \/ \E src \in FileNames, dest \in FileNames, op \in {"move", "copy"} : CallOf(w, op, src, dest)
  \/ \E p \in FileNames : CallOf(w, "size", p, p)
  \/ CallOf(w, "getdir", DirName, DirName)
  \/ CallOf(w, "removeall", DirName, DirName)
-----------------------------------------------------------------------------
(* MoveAFile                                                               *)

\* Mutation: the source is removed whatever is at the destination.
MoveTestNothing(w) ==
  /\ At(w, "move", "test")
  /\ Advance(w, "testsrc")
  /\ UNCHANGED <<disk, kept, contested>>

MoveTestDest(w) ==
  /\ At(w, "move", "test")
  /\ Advance(w, IF Exists(Dest(w)) THEN "testsrc" ELSE "rename")
  /\ UNCHANGED <<disk, kept, contested>>

MoveTestSrc(w) ==
  /\ At(w, "move", "testsrc")
  /\ Advance(w, IF Exists(Src(w)) THEN "remove" ELSE "rename")
  /\ UNCHANGED <<disk, kept, contested>>

\* With something at the destination it is the source that is removed.
MoveRemoveSrc(w) ==
  /\ At(w, "move", "remove")
  /\ \/ disk' = [disk EXCEPT ![Src(w)] = Nothing] /\ Advance(w, "rename")
     \/ Exists(Src(w)) /\ Ends(w, "false") /\ UNCHANGED disk
  /\ UNCHANGED <<kept, contested>>

\* rename replaces a file that is at the destination.  It may fail.
MoveRename(w) ==
  /\ At(w, "move", "rename")
  /\ \/ /\ Exists(Src(w)) /\ HasRoom(Dest(w))
        /\ disk' = [[disk EXCEPT ![Src(w)] = Nothing] EXCEPT ![Dest(w)] = disk[Src(w)]]
        /\ Ends(w, "true")
     \/ Ends(w, "false") /\ UNCHANGED disk
  /\ UNCHANGED <<kept, contested>>
-----------------------------------------------------------------------------
(* CopyAFile.  What is at the destination is not replaced: skip_existing.  *)

CopyTest(w) ==
  /\ At(w, "copy", "test")
  /\ IF ~Exists(Src(w)) THEN Ends(w, "false")
     ELSE IF Exists(Dest(w)) THEN Ends(w, "true")
     ELSE Advance(w, "create")
  /\ UNCHANGED <<disk, kept, contested>>

CopyCreate(w) ==
  /\ At(w, "copy", "create")
  /\ \/ /\ Exists(Src(w)) /\ ~Exists(Dest(w)) /\ HasRoom(Dest(w))
        /\ disk' = [disk EXCEPT ![Dest(w)] = disk[Src(w)]]
        /\ Ends(w, "true")
     \/ Ends(w, "false") /\ UNCHANGED disk
  /\ UNCHANGED <<kept, contested>>
-----------------------------------------------------------------------------
(* The others.                                                             *)

\* DeleteAFile of a file, or of the directory if it is empty.
DeleteAFile(w, p) ==
  /\ stage[w] = "idle"
  /\ p \in FileNames \/ IsEmptyDir(p)
  /\ disk' = [disk EXCEPT ![p] = Nothing]
  /\ kept' = kept \ {disk[p]}
  /\ report' = IF Exists(p) THEN "true" ELSE "false"
  /\ UNCHANGED <<call, stage, contested>>

\* RemoveAll empties the directory and removes it if nobody has filled it again.
RemoveAllFiles(w) ==
  /\ At(w, "removeall", "test")
  /\ disk' = [p \in Paths |-> IF p \in Inner THEN Nothing ELSE disk[p]]
  /\ kept' = kept \ {disk[p] : p \in Inner}
  /\ Advance(w, "remove")
  /\ UNCHANGED contested

RemoveAllDir(w) ==
  /\ At(w, "removeall", "remove")
  /\ IF IsEmptyDir(DirName)
       THEN disk' = [disk EXCEPT ![DirName] = Nothing] /\ Ends(w, "true")
       ELSE Ends(w, "false") /\ UNCHANGED disk
  /\ UNCHANGED <<kept, contested>>

\* GetDir, with CreateDir: each looks whether the directory exists.  Creating it
\* reports false where somebody else was faster.
GetDirTest(w) ==
  /\ call[w].op = "getdir" /\ stage[w] \in {"test", "again"}
  /\ IF Exists(DirName) THEN Ends(w, "true")
     ELSE Advance(w, IF stage[w] = "test" THEN "again" ELSE "create")
  /\ UNCHANGED <<disk, kept, contested>>

CreateDir(w) ==
  /\ At(w, "getdir", "create")
  /\ \/ /\ ~Exists(DirName)
        /\ disk' = [disk EXCEPT ![DirName] = Folder]
        /\ Ends(w, "true")
     \/ Ends(w, "false") /\ UNCHANGED disk
  /\ UNCHANGED <<kept, contested>>

\* FileHasSize, with GetFileSize: each looks whether the file exists; file_size
\* throws if it does not any more, and nobody catches that.
SizeTest(w) ==
  /\ call[w].op = "size" /\ stage[w] \in {"test", "again"}
  /\ IF ~Exists(Src(w)) THEN Ends(w, "false")
     ELSE Advance(w, IF stage[w] = "test" THEN "again" ELSE "ask")
  /\ UNCHANGED <<disk, kept, contested>>

AskSize(w) ==
  /\ At(w, "size", "ask")
  /\ Ends(w, IF Exists(Src(w)) THEN "true" ELSE "thrown")
  /\ UNCHANGED <<disk, kept, contested>>
-----------------------------------------------------------------------------
FNext == \E w \in Workers :
  \/ Call(w)
  \/ MoveTestDest(w) \/ MoveTestSrc(w) \/ MoveRemoveSrc(w) \/ MoveRename(w)
  \/ CopyTest(w) \/ CopyCreate(w)
  \/ (\E p \in Paths : DeleteAFile(w, p)) \/ RemoveAllFiles(w) \/ RemoveAllDir(w)
  \/ GetDirTest(w) \/ CreateDir(w)
  \/ SizeTest(w) \/ AskSize(w)

FSpec == FInit /\ [][FNext]_fvars
-----------------------------------------------------------------------------
(* Properties.                                                             *)

\* Whatever copies, moves, deletions and creations of the directory come between the
\* tests and the actions of a move, what a file held is still somewhere unless it was
\* deleted; provided that no move was asked for onto a name that was taken, or that
\* another call was about to take (NesesIO.cpp:60-120).
NothingVanishes == ~contested => kept \subseteq {disk[p] : p \in FileNames}

\* What it rests on, for the proof in UtilitiesProofs.

\* Each variable has its type; only a worker in a call has one, and what is moved or
\* copied is a file.
FTypeOK ==
  /\ disk \in [Paths -> Contents \cup {Nothing, Folder}]
  /\ call \in [Workers -> [op : {"none", "move", "copy", "size", "getdir", "removeall"},
                           src : Paths, dest : Paths]]
  /\ stage \in [Workers -> {"idle", "test", "again", "testsrc", "remove", "rename", "create", "ask"}]
  /\ kept \subseteq Contents
  /\ \A w \in Workers :
       /\ stage[w] = "idle" <=> call[w].op = "none"
       /\ call[w].op \in {"move", "copy"} => {Src(w), Dest(w)} \subseteq FileNames

\* Whoever has a destination has it alone, and a move finds nothing there.
DestinationsAreFree == ~contested =>
  /\ \A v, w \in Workers :
       v # w /\ {call[v].op, call[w].op} \subseteq {"move", "copy"} => Dest(v) # Dest(w)
  /\ \A w \in Workers :
       call[w].op = "move" => stage[w] \in {"test", "rename"} /\ ~Exists(Dest(w))
=============================================================================
