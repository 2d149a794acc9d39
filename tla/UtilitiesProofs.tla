--------------------------- MODULE UtilitiesProofs ---------------------------
(***************************************************************************)
(* Proofs about the utilities, which share nothing: ConfigManager, for any *)
(* threads and settings; Files, for any threads, files and contents;       *)
(* NesesDateTime, for any objects, times and zone of the system; Utf8, for *)
(* strings of any length.                                                  *)
(***************************************************************************)
EXTENDS ConfigManager, Files, NesesDateTime, Utf8, SequenceTheorems, WellFoundedInduction,
        TLAPS

-----------------------------------------------------------------------------
(* ConfigManager.                                                          *)

SettingsInv == CTypeOK /\ SettingsSurvive /\ LoadedIsAll

\* A program that has never run has no file and nothing to lose.
LEMMA SettingsInit == CInit => SettingsInv
BY DEF CInit, SettingsInv, CTypeOK, SettingsSurvive, LoadedIsAll, Writing

-----------------------------------------------------------------------------
\* A step to anything but a write leaves alone whether somebody writes, or ends it.
LEMMA WritingChanges ==
  ASSUME CTypeOK, NEW t \in Threads, NEW pc, pc # "writing", GoTo(t, pc)
  PROVE  /\ threadPc[t] # "writing" => (Writing' <=> Writing)
         /\ Writing' => Writing
BY DEF CTypeOK, GoTo, Writing

\* Every step keeps the types.
LEMMA SettingsTypeStep == CTypeOK /\ [CNext]_cvars => CTypeOK'
<1> SUFFICES ASSUME CTypeOK, [CNext]_cvars
             PROVE  CTypeOK'
  OBVIOUS
<1> USE DEF CTypeOK, Calls
<1>1. ASSUME NEW t \in Threads, NEW what \in Calls, CallManager(t, what)
      PROVE  CTypeOK'
  BY <1>1 DEF CallManager, GoTo, histVars
<1>2. ASSUME NEW t \in Threads, EnsureTest(t) \/ EnsureMake(t)
      PROVE  CTypeOK'
  BY <1>2 DEF EnsureTest, EnsureMake, GoTo, histVars
<1>3. ASSUME NEW t \in Threads, Read(t)
      PROVE  CTypeOK'
  BY <1>3 DEF Read, May, GoTo, histVars
<1>4. ASSUME NEW t \in Threads, NEW k \in Settings, Put(t, k)
      PROVE  CTypeOK'
  BY <1>4 DEF Put, May, GoTo, histVars
<1>5. ASSUME NEW t \in Threads, WriteOpen(t)
      PROVE  CTypeOK'
  BY <1>5 DEF WriteOpen, May, GoTo
<1>6. ASSUME NEW t \in Threads, WriteClose(t)
      PROVE  CTypeOK'
  BY <1>6 DEF WriteClose, GoTo
<1>7. CASE Restart
  BY <1>7 DEF Restart
<1>8. CASE UNCHANGED cvars
  BY <1>8 DEF cvars, histVars
<1>9. QED
  BY <1>1, <1>2, <1>3, <1>4, <1>5, <1>6, <1>7, <1>8 DEF CNext

\* Every step keeps what was in the file in the file, or in the tree of the process
\* that is about to write it.
LEMMA SettingsStep == SettingsInv /\ [CNext]_cvars => SettingsSurvive' /\ LoadedIsAll'
<1> SUFFICES ASSUME SettingsInv, [CNext]_cvars
             PROVE  SettingsSurvive' /\ LoadedIsAll'
  OBVIOUS
<1> USE DEF SettingsInv, SettingsSurvive, LoadedIsAll, histVars
\* Steps that neither use the tree nor the file.
<1>1. ASSUME NEW t \in Threads, NEW pc, pc # "writing", GoTo(t, pc), threadPc[t] # "writing",
             UNCHANGED <<tree, file, stored, loaded, histVars>>
      PROVE  SettingsSurvive' /\ LoadedIsAll'
  BY <1>1, WritingChanges
<1>2. ASSUME NEW t \in Threads, NEW what \in Calls, CallManager(t, what)
      PROVE  SettingsSurvive' /\ LoadedIsAll'
  BY <1>1, <1>2 DEF CallManager
<1>3. ASSUME NEW t \in Threads, EnsureTest(t) \/ EnsureMake(t)
      PROVE  SettingsSurvive' /\ LoadedIsAll'
  <2>1. PICK pc \in {"use", "make"} : GoTo(t, pc)
    BY <1>3 DEF EnsureTest, EnsureMake
  <2>2. QED
    BY <1>1, <1>3, <2>1 DEF EnsureTest, EnsureMake
<1>4. ASSUME NEW t \in Threads, Read(t)
      PROVE  SettingsSurvive' /\ LoadedIsAll'
  <2>1. ~Writing /\ ~Writing'
    BY <1>4, WritingChanges DEF Read, May
  <2>2. QED
    BY <1>4, <2>1 DEF Read
<1>5. ASSUME NEW t \in Threads, NEW k \in Settings, Put(t, k)
      PROVE  SettingsSurvive' /\ LoadedIsAll'
  <2>1. ~Writing /\ ~Writing'
    BY <1>5, WritingChanges DEF Put, May
  <2>2. QED
    BY <1>5, <2>1 DEF Put
<1>6. ASSUME NEW t \in Threads, WriteOpen(t)
      PROVE  SettingsSurvive' /\ LoadedIsAll'
  <2>1. ~Writing
    BY <1>6 DEF WriteOpen, May
  <2>2. CASE file' = "empty" /\ stored' = {} /\ GoTo(t, "writing")
             /\ blind' = (blind \/ (file # "absent" /\ ~loaded))
    <3>1. Writing'
      BY <2>2 DEF GoTo, Writing, CTypeOK
    <3>2. QED
      BY <1>6, <2>1, <2>2, <3>1 DEF WriteOpen
  <2>3. CASE GoTo(t, "idle") /\ UNCHANGED <<file, stored, blind>>
    BY <1>1, <1>6, <2>3 DEF WriteOpen, May
  <2>4. QED
    BY <1>6, <2>2, <2>3 DEF WriteOpen
<1>7. ASSUME NEW t \in Threads, WriteClose(t)
      PROVE  SettingsSurvive' /\ LoadedIsAll'
  <2>1. Writing
    BY <1>7 DEF WriteClose, Writing
  <2>2. QED
    BY <1>7, <2>1 DEF WriteClose
<1>8. CASE Restart
  <2>1. ~Writing'
    BY <1>8 DEF Restart, Writing
  <2>2. QED
    BY <1>8, <2>1 DEF Restart
<1>9. CASE UNCHANGED cvars
  BY <1>9 DEF cvars, Writing
<1>10. QED
  BY <1>2, <1>3, <1>4, <1>5, <1>6, <1>7, <1>8, <1>9 DEF CNext
-----------------------------------------------------------------------------
\* The state of the settings has its type.
THEOREM SettingsTypeCorrect == CSpec => []CTypeOK
<1>1. CInit => CTypeOK
  BY SettingsInit DEF SettingsInv
<1>2. QED
  BY <1>1, SettingsTypeStep, PTL DEF CSpec

\* What has once been in a whole file stays in it, whatever restarts, failed reads and
\* first calls that overlap come in between; unless a write was cut off or a process
\* wrote without having read (ConfigManager.cpp:20-56, 84-91).
THEOREM NoSettingIsLost == CSpec => []SettingsSurvive
<1>1. SettingsInv /\ [CNext]_cvars => SettingsInv'
  BY SettingsTypeStep, SettingsStep DEF SettingsInv
<1>2. SettingsInv => SettingsSurvive
  BY DEF SettingsInv
<1>3. QED
  BY SettingsInit, <1>1, <1>2, PTL DEF CSpec
-----------------------------------------------------------------------------
(* Files.                                                                  *)

FilesInv == FTypeOK /\ DestinationsAreFree

-----------------------------------------------------------------------------
(* Types.                                                                  *)

\* Whatever the disk holds at first, nobody is in a call.
LEMMA FilesInit == FInit => FilesInv /\ NothingVanishes
<1> SUFFICES ASSUME FInit
             PROVE  FilesInv /\ NothingVanishes
  OBVIOUS
<1>1. FTypeOK
  BY DEF FInit, FTypeOK, NoCall, Paths
<1>2. DestinationsAreFree
  BY DEF FInit, DestinationsAreFree, NoCall
<1>3. NothingVanishes
  BY DEF FInit, NothingVanishes
<1>4. QED
  BY <1>1, <1>2, <1>3 DEF FilesInv

\* A call that goes on keeps the types, and so does one that ends.
LEMMA CallsGoOn ==
  ASSUME FTypeOK, NEW w \in Workers, stage[w] # "idle",
         disk' \in [Paths -> Contents \cup {Nothing, Folder}], kept' \subseteq Contents,
         \/ \E s \in {"test", "again", "testsrc", "remove", "rename", "create", "ask"} : Advance(w, s)
         \/ \E r : Ends(w, r)
  PROVE  FTypeOK'
<1>1. CASE \E s \in {"test", "again", "testsrc", "remove", "rename", "create", "ask"} : Advance(w, s)
  BY <1>1 DEF FTypeOK, Advance, Src, Dest
<1>2. CASE \E r : Ends(w, r)
  BY <1>2 DEF FTypeOK, Ends, NoCall, Paths, Src, Dest
<1>3. QED
  BY <1>1, <1>2

\* A content that was deleted stays so, and a contest is never forgotten.
LEMMA HistoryGrows == [FNext]_fvars => kept' \subseteq kept /\ (contested => contested')
<1> SUFFICES ASSUME [FNext]_fvars
             PROVE  kept' \subseteq kept /\ (contested => contested')
  OBVIOUS
<1>1. ASSUME NEW w \in Workers, Call(w)
      PROVE  kept' \subseteq kept /\ (contested => contested')
  BY <1>1 DEF Call, CallOf
<1>2. ASSUME NEW w \in Workers,
             MoveTestDest(w) \/ MoveTestSrc(w) \/ MoveRemoveSrc(w) \/ MoveRename(w)
      PROVE  kept' \subseteq kept /\ (contested => contested')
  BY <1>2 DEF MoveTestDest, MoveTestSrc, MoveRemoveSrc, MoveRename
<1>3. ASSUME NEW w \in Workers, CopyTest(w) \/ CopyCreate(w) \/ RemoveAllFiles(w) \/ RemoveAllDir(w)
      PROVE  kept' \subseteq kept /\ (contested => contested')
  BY <1>3 DEF CopyTest, CopyCreate, RemoveAllFiles, RemoveAllDir
<1>4. ASSUME NEW w \in Workers, GetDirTest(w) \/ CreateDir(w) \/ SizeTest(w) \/ AskSize(w)
      PROVE  kept' \subseteq kept /\ (contested => contested')
  BY <1>4 DEF GetDirTest, CreateDir, SizeTest, AskSize
<1>5. ASSUME NEW w \in Workers, NEW p \in Paths, DeleteAFile(w, p)
      PROVE  kept' \subseteq kept /\ (contested => contested')
  BY <1>5 DEF DeleteAFile
<1>6. CASE UNCHANGED fvars
  BY <1>6 DEF fvars
<1>7. QED
  BY <1>1, <1>2, <1>3, <1>4, <1>5, <1>6 DEF FNext

\* Every step keeps the types.
LEMMA FilesTypeStep == FTypeOK /\ [FNext]_fvars => FTypeOK'
<1> SUFFICES ASSUME FTypeOK, [FNext]_fvars
             PROVE  FTypeOK'
  OBVIOUS
<1> DEFINE Disks == [Paths -> Contents \cup {Nothing, Folder}]
<1>a. disk \in Disks
  BY DEF FTypeOK
<1>b. kept' \subseteq Contents
  BY HistoryGrows DEF FTypeOK
<1>1. ASSUME NEW w \in Workers, Call(w)
      PROVE  FTypeOK'
  <2>1. PICK op \in {"move", "copy", "size", "getdir", "removeall"}, src \in Paths, dest \in Paths :
           /\ CallOf(w, op, src, dest)
           /\ op \in {"move", "copy"} => {src, dest} \subseteq FileNames
    BY <1>1 DEF Call, Paths
  <2>2. QED
    BY <1>b, <2>1 DEF CallOf, FTypeOK, Src, Dest
<1>2. ASSUME NEW w \in Workers, MoveTestDest(w) \/ MoveTestSrc(w) \/ CopyTest(w)
      PROVE  FTypeOK'
  BY <1>2, <1>a, <1>b, CallsGoOn DEF MoveTestDest, MoveTestSrc, CopyTest, At
<1>3. ASSUME NEW w \in Workers, MoveRemoveSrc(w)
      PROVE  FTypeOK'
  <2>1. disk' \in Disks
    BY <1>3 DEF MoveRemoveSrc, FTypeOK
  <2>2. QED
    BY <1>3, <1>b, <2>1, CallsGoOn DEF MoveRemoveSrc, At
<1>4. ASSUME NEW w \in Workers, MoveRename(w)
      PROVE  FTypeOK'
  <2>1. disk' \in Disks
    BY <1>4 DEF MoveRename, FTypeOK, Src, Dest
  <2>2. QED
    BY <1>4, <1>b, <2>1, CallsGoOn DEF MoveRename, At
<1>5. ASSUME NEW w \in Workers, CopyCreate(w)
      PROVE  FTypeOK'
  <2>1. disk' \in Disks
    BY <1>5 DEF CopyCreate, FTypeOK, Src, Dest
  <2>2. QED
    BY <1>5, <1>b, <2>1, CallsGoOn DEF CopyCreate, At
<1>6. ASSUME NEW w \in Workers, NEW p \in Paths, DeleteAFile(w, p)
      PROVE  FTypeOK'
  <2>1. disk' \in Disks
    BY <1>6 DEF DeleteAFile, FTypeOK
  <2>2. QED
    BY <1>6, <1>b, <2>1 DEF DeleteAFile, FTypeOK, Src, Dest
<1>7. ASSUME NEW w \in Workers, RemoveAllFiles(w) \/ RemoveAllDir(w)
      PROVE  FTypeOK'
  <2>1. disk' \in Disks
    BY <1>7 DEF RemoveAllFiles, RemoveAllDir, FTypeOK
  <2>2. QED
    BY <1>7, <1>b, <2>1, CallsGoOn DEF RemoveAllFiles, RemoveAllDir, At
<1>8. ASSUME NEW w \in Workers, GetDirTest(w) \/ SizeTest(w)
      PROVE  FTypeOK'
  BY <1>8, <1>a, <1>b, CallsGoOn DEF GetDirTest, SizeTest
<1>9. ASSUME NEW w \in Workers, CreateDir(w) \/ AskSize(w)
      PROVE  FTypeOK'
  <2>1. disk' \in Disks
    BY <1>9 DEF CreateDir, AskSize, FTypeOK
  <2>2. QED
    BY <1>9, <1>b, <2>1, CallsGoOn DEF CreateDir, AskSize, At
<1>10. CASE UNCHANGED fvars
  BY <1>10 DEF fvars, FTypeOK, Src, Dest
<1>11. QED
  BY <1>1, <1>2, <1>3, <1>4, <1>5, <1>6, <1>7, <1>8, <1>9, <1>10 DEF FNext

\* The state of the files and of the calls has its type.
THEOREM FilesTypeCorrect == FSpec => []FTypeOK
<1>1. FInit => FTypeOK
  BY FilesInit DEF FilesInv
<1>2. QED
  BY <1>1, FilesTypeStep, PTL DEF FSpec
-----------------------------------------------------------------------------
(* Destinations.                                                           *)

\* A step that creates no file in the way of another, and sends no move down the path
\* of a taken destination, keeps the destinations free.
LEMMA FreeStaysFree ==
  ASSUME FilesInv, NEW w \in Workers, contested' = contested, ~contested,
         \A v \in Workers : v # w => call'[v] = call[v] /\ stage'[v] = stage[v],
         \/ call'[w] = call[w] /\ (call[w].op = "move" => stage'[w] = "rename" /\ disk'[Dest(w)] = Nothing)
         \/ call'[w].op = "none",
         \A v \in Workers : v # w /\ call[v].op = "move" => disk'[Dest(v)] = Nothing
  PROVE  DestinationsAreFree'
<1>1. \A v \in Workers : call'[v] = call[v] \/ call'[v].op = "none"
  OBVIOUS
<1>2. /\ \A u, v \in Workers :
           u # v /\ {call[u].op, call[v].op} \subseteq {"move", "copy"} => Dest(u) # Dest(v)
      /\ \A v \in Workers : call[v].op = "move" => stage[v] \in {"test", "rename"}
  BY DEF FilesInv, DestinationsAreFree
<1>3. \A u, v \in Workers :
        u # v /\ {call'[u].op, call'[v].op} \subseteq {"move", "copy"} => Dest(u)' # Dest(v)'
  BY <1>1, <1>2 DEF Dest
<1>4. ASSUME NEW v \in Workers, call'[v].op = "move"
      PROVE  stage'[v] \in {"test", "rename"} /\ disk'[Dest(v)'] = Nothing
  BY <1>1, <1>2, <1>4 DEF Dest
<1>5. QED
  BY <1>3, <1>4 DEF DestinationsAreFree, Exists

\* Nobody who has a destination shares it.
LEMMA OthersElsewhere ==
  ASSUME FilesInv, ~contested, NEW v \in Workers, NEW w \in Workers, v # w,
         call[v].op = "move", call[w].op \in {"move", "copy"}
  PROVE  Dest(v) # Dest(w) /\ disk[Dest(v)] = Nothing
BY DEF FilesInv, DestinationsAreFree, Exists

\* Every step keeps what the destinations are.
LEMMA FreeStep == FilesInv /\ [FNext]_fvars => DestinationsAreFree'
<1> SUFFICES ASSUME FilesInv, [FNext]_fvars, ~contested'
             PROVE  DestinationsAreFree'
  BY DEF DestinationsAreFree
<1>a. ~contested
  BY HistoryGrows
<1>b. /\ FTypeOK
      /\ \A v \in Workers : call[v].op = "move" => disk[Dest(v)] = Nothing
      /\ \A v \in Workers : call[v].op = "move" => stage[v] \in {"test", "rename"}
  BY <1>a DEF FilesInv, DestinationsAreFree, Exists
<1>1. ASSUME NEW w \in Workers, Call(w)
      PROVE  DestinationsAreFree'
  <2>1. PICK op \in {"move", "copy", "size", "getdir", "removeall"}, src \in Paths, dest \in Paths :
           CallOf(w, op, src, dest)
    BY <1>1 DEF Call, Paths
  <2>2. /\ call' = [call EXCEPT ![w] = [op |-> op, src |-> src, dest |-> dest]]
        /\ stage' = [stage EXCEPT ![w] = "test"] /\ disk' = disk
        /\ op = "move" => disk[dest] = Nothing
        /\ op \in {"move", "copy"} => dest \notin Targets
    BY <2>1 DEF CallOf, Exists
  <2>3. ASSUME NEW u \in Workers, NEW v \in Workers, u # v,
               {call'[u].op, call'[v].op} \subseteq {"move", "copy"}
        PROVE  Dest(u)' # Dest(v)'
    <3>1. CASE u = w
      BY <1>b, <2>2, <2>3, <3>1 DEF Dest, Targets, FTypeOK
    <3>2. CASE v = w
      BY <1>b, <2>2, <2>3, <3>2 DEF Dest, Targets, FTypeOK
    <3>3. CASE u # w /\ v # w
      BY <1>a, <2>2, <2>3, <3>3 DEF Dest, FilesInv, DestinationsAreFree
    <3>4. QED
      BY <3>1, <3>2, <3>3
  <2>4. ASSUME NEW v \in Workers, call'[v].op = "move"
        PROVE  stage'[v] \in {"test", "rename"} /\ disk'[Dest(v)'] = Nothing
    <3>1. CASE v = w
      BY <1>b, <2>2, <2>4, <3>1 DEF Dest, FTypeOK
    <3>2. CASE v # w
      BY <1>b, <2>2, <2>4, <3>2 DEF Dest, FTypeOK
    <3>3. QED
      BY <3>1, <3>2
  <2>5. QED
    BY <2>3, <2>4 DEF DestinationsAreFree, Exists
<1>2. ASSUME NEW w \in Workers, MoveTestDest(w)
      PROVE  DestinationsAreFree'
  <2>1. stage'[w] = "rename" /\ disk' = disk /\ call' = call /\ contested' = contested
    BY <1>2, <1>b DEF MoveTestDest, At, Advance, FTypeOK, Exists
  <2>2. \A v \in Workers : v # w => stage'[v] = stage[v]
    BY <1>2, <1>b DEF MoveTestDest, Advance, FTypeOK
  <2>3. QED
    BY <2>1, <2>2, <1>a, <1>b, FreeStaysFree
<1>3. ASSUME NEW w \in Workers, MoveTestSrc(w) \/ MoveRemoveSrc(w)
      PROVE  FALSE
  BY <1>3, <1>b DEF MoveTestSrc, MoveRemoveSrc, At
\* A rename or a copy fills its own destination only.
<1>4. ASSUME NEW w \in Workers, MoveRename(w) \/ CopyCreate(w)
      PROVE  DestinationsAreFree'
  <2>1. call'[w].op = "none" /\ contested' = contested
    BY <1>4, <1>b DEF MoveRename, CopyCreate, Ends, NoCall, FTypeOK
  <2>2. \A v \in Workers : v # w => call'[v] = call[v] /\ stage'[v] = stage[v]
    BY <1>4, <1>b DEF MoveRename, CopyCreate, Ends, FTypeOK
  <2>3. ASSUME NEW v \in Workers, v # w, call[v].op = "move"
        PROVE  disk'[Dest(v)] = Nothing
    <3>1. Dest(v) # Dest(w) /\ disk[Dest(v)] = Nothing
      BY <1>4, <1>a, <2>3, OthersElsewhere DEF MoveRename, CopyCreate, At
    <3>2. Dest(v) \in Paths /\ Src(w) \in Paths /\ Dest(w) \in Paths
      BY <1>b DEF FTypeOK, Dest, Src
    <3>3. QED
      BY <1>4, <1>b, <3>1, <3>2 DEF MoveRename, CopyCreate, FTypeOK
  <2>4. QED
    BY <2>1, <2>2, <2>3, <1>a, FreeStaysFree
<1>5. ASSUME NEW w \in Workers, CopyTest(w) \/ GetDirTest(w) \/ SizeTest(w) \/ AskSize(w)
      PROVE  DestinationsAreFree'
  <2>1. disk' = disk /\ contested' = contested
    BY <1>5 DEF CopyTest, GetDirTest, SizeTest, AskSize
  <2>2. \A v \in Workers : v # w => call'[v] = call[v] /\ stage'[v] = stage[v]
    BY <1>5, <1>b DEF CopyTest, GetDirTest, SizeTest, AskSize, Ends, Advance, FTypeOK
  <2>3. call[w].op # "move" /\ (call'[w] = call[w] \/ call'[w].op = "none")
    BY <1>5, <1>b DEF CopyTest, GetDirTest, SizeTest, AskSize, At, Ends, Advance, NoCall, FTypeOK
  <2>4. QED
    BY <2>1, <2>2, <2>3, <1>a, <1>b, FreeStaysFree
\* A directory is not a destination of a move, and what is deleted is in no way.
<1>6. ASSUME NEW w \in Workers, RemoveAllFiles(w) \/ RemoveAllDir(w) \/ CreateDir(w)
      PROVE  DestinationsAreFree'
  <2>1. contested' = contested /\ call[w].op # "move"
    BY <1>6 DEF RemoveAllFiles, RemoveAllDir, CreateDir, At
  <2>2. \A v \in Workers : v # w => call'[v] = call[v] /\ stage'[v] = stage[v]
    BY <1>6, <1>b DEF RemoveAllFiles, RemoveAllDir, CreateDir, Ends, Advance, FTypeOK
  <2>3. call'[w] = call[w] \/ call'[w].op = "none"
    BY <1>6, <1>b DEF RemoveAllFiles, RemoveAllDir, CreateDir, Ends, Advance, NoCall, FTypeOK
  <2>4. ASSUME NEW v \in Workers, call[v].op = "move"
        PROVE  disk'[Dest(v)] = Nothing
    <3>1. Dest(v) \in FileNames /\ Dest(v) \in Paths /\ disk[Dest(v)] = Nothing
      BY <1>b, <2>4 DEF FTypeOK, Dest
    <3>2. CASE RemoveAllFiles(w)
      BY <3>1, <3>2 DEF RemoveAllFiles
    <3>3. CASE RemoveAllDir(w) \/ CreateDir(w)
      BY <1>b, <3>1, <3>3, NamesAssumption DEF RemoveAllDir, CreateDir, FTypeOK
    <3>4. QED
      BY <1>6, <3>2, <3>3
  <2>5. QED
    BY <2>1, <2>2, <2>3, <2>4, <1>a, FreeStaysFree
<1>7. ASSUME NEW w \in Workers, NEW p \in Paths, DeleteAFile(w, p)
      PROVE  DestinationsAreFree'
  <2>1. call' = call /\ stage' = stage /\ contested' = contested
    BY <1>7 DEF DeleteAFile
  <2>2. call[w].op # "move"
    BY <1>7, <1>b DEF DeleteAFile, FTypeOK
  <2>3. ASSUME NEW v \in Workers, call[v].op = "move"
        PROVE  disk'[Dest(v)] = Nothing
    <3>1. Dest(v) \in Paths /\ disk[Dest(v)] = Nothing
      BY <1>b, <2>3 DEF FTypeOK, Dest
    <3>2. QED
      BY <1>7, <1>b, <3>1 DEF DeleteAFile, FTypeOK
  <2>4. QED
    BY <2>1, <2>2, <2>3, <1>a, FreeStaysFree
<1>8. CASE UNCHANGED fvars
  BY <1>8, <1>a DEF fvars, FilesInv, DestinationsAreFree, Dest, Exists
<1>9. QED
  BY <1>1, <1>2, <1>3, <1>4, <1>5, <1>6, <1>7, <1>8 DEF FNext
-----------------------------------------------------------------------------
(* Contents.                                                               *)

\* Every step keeps the contents that nobody has deleted.
LEMMA ContentsStep == FilesInv /\ NothingVanishes /\ [FNext]_fvars => NothingVanishes'
<1> SUFFICES ASSUME FilesInv, NothingVanishes, [FNext]_fvars, ~contested',
                    NEW x \in kept'
             PROVE  \E p \in FileNames : disk'[p] = x
  BY DEF NothingVanishes
<1> USE NodesAssumption, NamesAssumption
<1>a. ~contested /\ x \in kept
  BY HistoryGrows
<1>b. PICK p \in FileNames : disk[p] = x
  BY <1>a DEF NothingVanishes
<1>c. /\ p \in Paths /\ p # DirName /\ x # Nothing
      /\ disk \in [Paths -> Contents \cup {Nothing, Folder}]
  BY <1>a DEF FilesInv, FTypeOK, Paths
<1>d. \A w \in Workers : Src(w) \in Paths /\ Dest(w) \in Paths
  BY DEF FilesInv, FTypeOK, Src, Dest
<1>1. ASSUME UNCHANGED disk
      PROVE  \E q \in FileNames : disk'[q] = x
  BY <1>1, <1>b
<1>2. ASSUME NEW w \in Workers, MoveRemoveSrc(w)
      PROVE  FALSE
  BY <1>2, <1>a DEF MoveRemoveSrc, At, FilesInv, DestinationsAreFree
<1>3. ASSUME NEW w \in Workers, MoveRename(w)
      PROVE  \E q \in FileNames : disk'[q] = x
  <2>1. disk[Dest(w)] = Nothing /\ Dest(w) \in FileNames
    BY <1>3, <1>a DEF MoveRename, At, FilesInv, FTypeOK, DestinationsAreFree, Exists
  <2>2. CASE disk' = [[disk EXCEPT ![Src(w)] = Nothing] EXCEPT ![Dest(w)] = disk[Src(w)]]
    <3>1. CASE p = Src(w)
      BY <1>b, <1>c, <1>d, <2>1, <2>2, <3>1
    <3>2. CASE p # Src(w)
      BY <1>b, <1>c, <1>d, <2>1, <2>2, <3>2
    <3>3. QED
      BY <3>1, <3>2
  <2>3. QED
    BY <1>1, <1>3, <2>2 DEF MoveRename
<1>4. ASSUME NEW w \in Workers, CopyCreate(w)
      PROVE  \E q \in FileNames : disk'[q] = x
  BY <1>1, <1>4, <1>b, <1>c, <1>d DEF CopyCreate, Exists
<1>5. ASSUME NEW w \in Workers, NEW q \in Paths, DeleteAFile(w, q)
      PROVE  \E r \in FileNames : disk'[r] = x
  BY <1>5, <1>b, <1>c DEF DeleteAFile
<1>6. ASSUME NEW w \in Workers, RemoveAllFiles(w)
      PROVE  \E q \in FileNames : disk'[q] = x
  BY <1>6, <1>b, <1>c DEF RemoveAllFiles
<1>7. ASSUME NEW w \in Workers, RemoveAllDir(w) \/ CreateDir(w)
      PROVE  \E q \in FileNames : disk'[q] = x
  BY <1>1, <1>7, <1>b, <1>c DEF RemoveAllDir, CreateDir
<1>8. ASSUME NEW w \in Workers,
             \/ Call(w) \/ MoveTestDest(w) \/ MoveTestSrc(w) \/ CopyTest(w)
             \/ GetDirTest(w) \/ SizeTest(w) \/ AskSize(w)
      PROVE  UNCHANGED disk
  BY <1>8 DEF Call, CallOf, MoveTestDest, MoveTestSrc, CopyTest, GetDirTest, SizeTest, AskSize
<1>9. CASE UNCHANGED fvars
  BY <1>1, <1>9 DEF fvars
<1>10. QED
  BY <1>1, <1>2, <1>3, <1>4, <1>5, <1>6, <1>7, <1>8, <1>9 DEF FNext

\* What a file held is still somewhere unless it was deleted, whatever comes between
\* the tests and the actions of a move; if no destination was taken or about to be
\* (NesesIO.cpp:60-120).
THEOREM NothingIsLost == FSpec => []NothingVanishes
<1>1. FilesInv /\ [FNext]_fvars => FilesInv'
  BY FilesTypeStep, FreeStep DEF FilesInv
<1>2. QED
  BY FilesInit, <1>1, ContentsStep, PTL DEF FSpec
-----------------------------------------------------------------------------
(* NesesDateTime.                                                          *)

DTypeOK ==
  /\ pt \in [Objects -> Int] /\ shown \in [Objects -> Int]
  /\ ldt \in [Objects -> [utc : Int, offset : Int]]
  /\ asLocal \in [Objects -> BOOLEAN] /\ failed \in [Objects -> BOOLEAN]

\* The time kept is the one written, in the terms in which it was written.
KeepsWhatWasWritten ==
  \A o \in Objects : ~failed[o] => ToText(o, asLocal[o]) = shown[o]

TimesInv == DTypeOK /\ KeepsWhatWasWritten

\* New objects have the time of no text, in UTC.
LEMMA TimesInit == DInit => TimesInv
BY TimesAssumption DEF DInit, TimesInv, DTypeOK, KeepsWhatWasWritten, ToText, Instant, Zone

\* What is written as UTC is kept if it is the instant ...
LEMMA WritesUtc ==
  ASSUME TimesInv, NEW o \in Objects, NEW t \in Int, NEW off \in Int,
         Writes(o, Instant(t, off), t, FALSE), pt' \in [Objects -> Int]
  PROVE  TimesInv'
<1> USE DEF TimesInv, Writes, Instant
<1>1. DTypeOK'
  BY DEF DTypeOK
<1>2. KeepsWhatWasWritten'
  BY DEF DTypeOK, KeepsWhatWasWritten, ToText, LocalTime
<1>3. QED
  BY <1>1, <1>2

\* ... and as local time, if the instant is that much behind.
LEMMA WritesLocal ==
  ASSUME TimesInv, NEW o \in Objects, NEW t \in Int, NEW u \in Int, NEW off \in Int,
         u + off = t,
         Writes(o, Instant(u, off), t, TRUE), pt' \in [Objects -> Int]
  PROVE  TimesInv'
<1> USE DEF TimesInv, Writes, Instant
<1>1. DTypeOK'
  BY DEF DTypeOK
<1>2. KeepsWhatWasWritten'
  BY DEF DTypeOK, KeepsWhatWasWritten, ToText, LocalTime
<1>3. QED
  BY <1>1, <1>2

\* Every operation keeps what was written, or knows that it does not.
LEMMA TimesStep == TimesInv /\ [DNext]_dvars => TimesInv'
<1> SUFFICES ASSUME TimesInv, [DNext]_dvars
             PROVE  TimesInv'
  OBVIOUS
<1>a. Times \subseteq Int /\ Unset \in Int /\ SystemZone \in Int /\ Zone = 3
  BY TimesAssumption DEF Zone
<1>1. ASSUME NEW o \in Objects, NEW t \in Times, Construct(o, t) \/ FromUtcString(o, t) \/ SetNow(o, t)
      PROVE  TimesInv'
  <2>1. Writes(o, Instant(t, Zone), t, FALSE) /\ pt' \in [Objects -> Int]
    BY <1>1, <1>a DEF Construct, FromUtcString, SetNow, TimesInv, DTypeOK
  <2>2. t \in Int /\ Zone \in Int
    BY <1>a
  <2>3. QED
    BY <2>1, <2>2, WritesUtc
<1>2. ASSUME NEW o \in Objects, NEW t \in Times, FromLocalString(o, t)
      PROVE  TimesInv'
  <2>1. Writes(o, Instant(t, 0), t, TRUE) /\ pt' \in [Objects -> Int]
    BY <1>2 DEF FromLocalString, TimesInv, DTypeOK
  <2>2. t \in Int /\ 0 \in Int /\ t + 0 = t
    BY <1>a
  <2>3. QED
    BY <2>1, <2>2, WritesLocal, Zenon
<1>3. ASSUME NEW o \in Objects, NEW t \in Times, setFileTime(o, t)
      PROVE  TimesInv'
  <2> DEFINE l == t + SystemZone
  <2>1. Writes(o, Instant(l - Zone, Zone), l, TRUE) /\ pt' \in [Objects -> Int]
    BY <1>3 DEF setFileTime, fromTm, TimesInv, DTypeOK
  <2>2. l \in Int /\ Zone \in Int /\ l - Zone \in Int /\ (l - Zone) + Zone = l
    BY <1>a
  <2> HIDE DEF l
  <2>3. QED
    BY <2>1, <2>2, WritesLocal
<1>4. ASSUME NEW o \in Objects, ConstructFails(o)
      PROVE  TimesInv'
  <2>1. Writes(o, Instant(Unset, Zone), Unset, FALSE) /\ pt' \in [Objects -> Int]
    BY <1>4, <1>a DEF ConstructFails, TimesInv, DTypeOK
  <2>2. Unset \in Int /\ Zone \in Int
    BY <1>a
  <2>3. QED
    BY <2>1, <2>2, WritesUtc
<1>5. ASSUME NEW o \in Objects, NEW local \in BOOLEAN, FromStringFails(o, local)
      PROVE  TimesInv'
  <2>1. CASE local
    BY <1>5, <2>1
       DEF FromStringFails, TimesInv, DTypeOK, KeepsWhatWasWritten, ToText, LocalTime
  <2>2. CASE ~local
    <3>1. /\ ldt' = [ldt EXCEPT ![o] = Instant(pt[o], Zone)]
          /\ failed' = [failed EXCEPT ![o] = TRUE]
          /\ shown' = [shown EXCEPT ![o] = Unset]
          /\ asLocal' = [asLocal EXCEPT ![o] = FALSE]
          /\ pt' = pt
      BY <1>5, <2>2, Zenon DEF FromStringFails
    <3>2. DTypeOK'
      BY <1>a, <3>1 DEF Instant, TimesInv, DTypeOK
    <3>3. KeepsWhatWasWritten'
      BY <3>1 DEF TimesInv, DTypeOK, KeepsWhatWasWritten, ToText, LocalTime
    <3>4. QED
      BY <3>2, <3>3 DEF TimesInv
  <2>3. QED
    BY <2>1, <2>2
<1>6. ASSUME NEW o \in Objects, NEW hours \in {-1, 1, 24}, AddTime(o, hours)
      PROVE  TimesInv'
  <2>1. CASE /\ ldt' = [ldt EXCEPT ![o].utc = @ + hours]
             /\ shown' = [shown EXCEPT ![o] = IF failed[o] THEN @ ELSE @ + hours]
    <3>1. DTypeOK'
      BY <1>6, <2>1 DEF AddTime, TimesInv, DTypeOK
    <3>2. KeepsWhatWasWritten'
      BY <1>6, <2>1 DEF AddTime, TimesInv, DTypeOK, KeepsWhatWasWritten, ToText, LocalTime
    <3>3. QED
      BY <3>1, <3>2 DEF TimesInv
  <2>2. CASE UNCHANGED <<ldt, shown>>
    BY <1>6, <2>2 DEF AddTime, TimesInv, DTypeOK, KeepsWhatWasWritten, ToText, LocalTime
  <2>3. QED
    BY <1>6, <2>1, <2>2 DEF AddTime
<1>7. ASSUME NEW o \in Objects, NEW other \in Objects, Assign(o, other)
      PROVE  TimesInv'
  BY <1>7 DEF Assign, TimesInv, DTypeOK, KeepsWhatWasWritten, ToText, LocalTime
<1>8. CASE UNCHANGED dvars
  BY <1>8 DEF dvars, TimesInv, DTypeOK, KeepsWhatWasWritten, ToText, LocalTime
<1>9. QED
  BY <1>1, <1>2, <1>3, <1>4, <1>5, <1>6, <1>7, <1>8 DEF DNext

\* An object shows what was written into it, as it was written; its fields and the
\* comparison of two objects follow (NesesTime.cpp:95-178, 206-263).
THEOREM TimesAreShown == DSpec => []ShowsWhatWasWritten
<1>1. TimesInv => ShowsWhatWasWritten
  <2> SUFFICES ASSUME TimesInv, NEW o \in Objects, ~failed[o]
               PROVE  /\ ToText(o, asLocal[o]) = shown[o]
                      /\ IF asLocal[o] THEN Hour(o) = shown[o] % 24 ELSE Day(o) = shown[o] \div 24
                      /\ \A other \in Objects :
                           ~failed[other] /\ asLocal[o] = asLocal[other]
                             /\ (asLocal[o] => ldt[o].offset = ldt[other].offset)
                           => (Before(o, other) <=> shown[o] < shown[other])
    BY DEF ShowsWhatWasWritten
  <2>1. ToText(o, asLocal[o]) = shown[o]
    BY DEF TimesInv, KeepsWhatWasWritten
  <2>2. IF asLocal[o] THEN Hour(o) = shown[o] % 24 ELSE Day(o) = shown[o] \div 24
    BY <2>1 DEF ToText, Hour, Day
  <2>3. ASSUME NEW other \in Objects, ~failed[other], asLocal[o] = asLocal[other],
               asLocal[o] => ldt[o].offset = ldt[other].offset
        PROVE  Before(o, other) <=> shown[o] < shown[other]
    <3>1. ToText(other, asLocal[other]) = shown[other]
      BY <2>3 DEF TimesInv, KeepsWhatWasWritten
    <3>2. ldt[o] \in [utc : Int, offset : Int] /\ ldt[other] \in [utc : Int, offset : Int]
      BY DEF TimesInv, DTypeOK
    <3>3. QED
      BY <2>1, <2>3, <3>1, <3>2 DEF Before, ToText, LocalTime
  <2>4. QED
    BY <2>1, <2>2, <2>3
<1>2. QED
  BY TimesInit, TimesStep, <1>1, PTL DEF DSpec
-----------------------------------------------------------------------------
(* Utf8.                                                                   *)

\* A set of natural numbers has a least one.
LEMMA LeastNatural ==
  ASSUME NEW T \in SUBSET Nat, T # {}
  PROVE  \E n \in T : \A m \in T : n <= m
<1>1. PICK n \in T : \A m \in T : <<m, n>> \notin OpToRel(<, Nat)
  BY NatLessThanWellFounded, WFMin, Zenon
<1>2. \A m \in T : ~ (m < n)
  BY <1>1 DEF OpToRel
<1>3. QED
  BY <1>2

Leading == {"ascii"} \cup DOMAIN Remaining
Trail(b) == IF b = "ascii" THEN 0 ELSE Remaining[b]

\* One to three bytes follow a leading byte, none an ASCII character.
LEMMA TrailIs ==
  /\ DOMAIN Remaining = {"lead2", "lead3", "lead4"}
  /\ Leading = {"ascii", "lead2", "lead3", "lead4"}
  /\ \A b \in Leading : Trail(b) \in 0 .. 3
  /\ \A b \in DOMAIN Remaining : Trail(b) = Remaining[b]
BY DEF Remaining, Leading, Trail

\* There is a run of continuation bytes behind each position, be it empty.
LEMMA RunExists ==
  ASSUME NEW s \in Seq(Byte), NEW k \in 1 .. Len(s)
  PROVE  /\ RunBehind(s, k) \in 0 .. Len(s)
         /\ \A j \in 1 .. RunBehind(s, k) : IsContinuation(s, k + j)
         /\ ~IsContinuation(s, k + RunBehind(s, k) + 1)
<1> DEFINE T == {n \in Nat : ~IsContinuation(s, k + n + 1)}
<1>1. Len(s) \in T
  BY DEF IsContinuation
<1>2. PICK n \in T : \A m \in T : n <= m
  BY <1>1, LeastNatural
<1>3. n \in 0 .. Len(s) /\ ~IsContinuation(s, k + n + 1)
  BY <1>1, <1>2
<1>4. ASSUME NEW j \in 1 .. n
      PROVE  IsContinuation(s, k + j)
  <2>1. n \in Nat /\ j - 1 \in Nat /\ j - 1 < n /\ k + (j - 1) + 1 = k + j
    BY <1>3, <1>4
  <2>2. j - 1 \notin T
    BY <1>2, <2>1
  <2>3. QED
    BY <2>1, <2>2
<1>5. QED
  BY <1>3, <1>4 DEF RunBehind

\* There is only one.
LEMMA RunIs ==
  ASSUME NEW s \in Seq(Byte), NEW k \in 1 .. Len(s), NEW n \in Nat,
         \A j \in 1 .. n : IsContinuation(s, k + j), ~IsContinuation(s, k + n + 1)
  PROVE  RunBehind(s, k) = n
<1> DEFINE r == RunBehind(s, k)
<1>1. /\ r \in Nat
      /\ \A j \in 1 .. r : IsContinuation(s, k + j)
      /\ ~IsContinuation(s, k + r + 1)
  BY RunExists
<1> HIDE DEF r
<1>2. CASE r < n
  <2>1. r + 1 \in 1 .. n /\ k + (r + 1) = k + r + 1
    BY <1>1, <1>2
  <2>2. QED
    BY <1>1, <2>1
<1>3. CASE n < r
  <2>1. n + 1 \in 1 .. r /\ k + (n + 1) = k + n + 1
    BY <1>1, <1>3
  <2>2. QED
    BY <1>1, <2>1
<1>4. QED
  BY <1>1, <1>2, <1>3 DEF r

\* The first n bytes are whole characters, each with all that follows its first byte
\* and nothing more.
Parsed(s, n) ==
  /\ n > 0 => s[1] # "cont" /\ \E k \in 1 .. n : s[k] \in Leading /\ k + Trail(s[k]) = n
  /\ \A k \in 1 .. n :
       /\ s[k] # "bad"
       /\ s[k] \in Leading =>
            /\ k + Trail(s[k]) <= n
            /\ \A j \in 1 .. Trail(s[k]) : s[k + j] = "cont"
            /\ k + Trail(s[k]) < n => s[k + Trail(s[k]) + 1] # "cont"

\* Behind them one more character may follow.
LEMMA ParsedGoesOn ==
  ASSUME NEW s \in Seq(Byte), NEW n \in Nat, NEW r \in 0 .. 3,
         Parsed(s, n), n + 1 + r <= Len(s),
         s[n + 1] \in Leading, r = Trail(s[n + 1]),
         \A j \in 1 .. r : s[n + 1 + j] = "cont"
  PROVE  Parsed(s, n + 1 + r)
<1>1. s[n + 1] # "cont" /\ s[n + 1] # "bad"
  BY TrailIs
<1>2. s[1] # "cont"
  BY <1>1 DEF Parsed
<1>3. \E k \in 1 .. n + 1 + r : s[k] \in Leading /\ k + Trail(s[k]) = n + 1 + r
  <2>1. n + 1 \in 1 .. n + 1 + r
    OBVIOUS
  <2>2. QED
    BY <2>1
<1>4. ASSUME NEW k \in 1 .. n + 1 + r
      PROVE  /\ s[k] # "bad"
             /\ s[k] \in Leading =>
                  /\ k + Trail(s[k]) <= n + 1 + r
                  /\ \A j \in 1 .. Trail(s[k]) : s[k + j] = "cont"
                  /\ k + Trail(s[k]) < n + 1 + r => s[k + Trail(s[k]) + 1] # "cont"
  <2>1. CASE k \in 1 .. n
    <3>1. s[k] # "bad"
      BY <2>1 DEF Parsed
    <3>2. CASE s[k] \in Leading
      <4>1. /\ k + Trail(s[k]) <= n
            /\ \A j \in 1 .. Trail(s[k]) : s[k + j] = "cont"
            /\ k + Trail(s[k]) < n => s[k + Trail(s[k]) + 1] # "cont"
        BY <2>1, <3>2 DEF Parsed
      <4>2. Trail(s[k]) \in 0 .. 3
        BY <3>2, TrailIs
      <4>3. k + Trail(s[k]) = n => s[k + Trail(s[k]) + 1] # "cont"
        BY <1>1
      <4>4. QED
        BY <3>1, <4>1, <4>2, <4>3
    <3>3. QED
      BY <3>1, <3>2
  <2>2. CASE k = n + 1
    BY <1>1, <2>2
  <2>3. CASE k \in n + 2 .. n + 1 + r
    <3>1. k - n - 1 \in 1 .. r /\ n + 1 + (k - n - 1) = k
      BY <2>3
    <3>2. s[k] = "cont"
      BY <3>1
    <3>3. QED
      BY <3>2, TrailIs
  <2>4. QED
    BY <2>1, <2>2, <2>3
<1>5. QED
  BY <1>2, <1>3, <1>4 DEF Parsed

\* Nothing but whole characters is well-formed ...
LEMMA ParsedIsWellFormed ==
  ASSUME NEW s \in Seq(Byte), Parsed(s, Len(s))
  PROVE  WellFormed(s)
<1>1. ~IsContinuation(s, 1)
  BY DEF Parsed, IsContinuation
<1>2. ASSUME NEW k \in 1 .. Len(s), s[k] \in Leading
      PROVE  RunBehind(s, k) = Trail(s[k])
  <2> DEFINE r == Trail(s[k])
  <2>1. r \in 0 .. 3 /\ k + r <= Len(s)
    BY <1>2, TrailIs DEF Parsed
  <2>2. \A j \in 1 .. r : s[k + j] = "cont"
    BY <1>2 DEF Parsed
  <2>3. k + r < Len(s) => s[k + r + 1] # "cont"
    BY <1>2 DEF Parsed
  <2> HIDE DEF r
  <2>4. \A j \in 1 .. r : IsContinuation(s, k + j)
    BY <2>1, <2>2 DEF IsContinuation
  <2>5. ~IsContinuation(s, k + r + 1)
    BY <2>1, <2>3 DEF IsContinuation
  <2>6. r \in Nat
    BY <2>1
  <2>7. RunBehind(s, k) = r
    BY <2>4, <2>5, <2>6, RunIs, Zenon
  <2>8. QED
    BY <2>7 DEF r
<1>3. \A k \in 1 .. Len(s) : s[k] # "bad"
  BY DEF Parsed
<1>4. QED
  BY <1>1, <1>2, <1>3, TrailIs DEF WellFormed, Leading, Trail

\* ... and so does every leading byte of what is well-formed have its run.
LEMMA RunOfLeading ==
  ASSUME NEW s \in Seq(Byte), WellFormed(s), NEW k \in 1 .. Len(s), s[k] \in Leading
  PROVE  /\ \A j \in 1 .. Trail(s[k]) : IsContinuation(s, k + j)
         /\ ~IsContinuation(s, k + Trail(s[k]) + 1)
<1>1. RunBehind(s, k) = Trail(s[k])
  BY TrailIs DEF WellFormed, Leading, Trail
<1>2. QED
  BY <1>1, RunExists

\* A continuation byte behind whole characters is one too many.
LEMMA StrayByte ==
  ASSUME NEW s \in Seq(Byte), NEW n \in Nat, n < Len(s), Parsed(s, n), s[n + 1] = "cont"
  PROVE  ~WellFormed(s)
<1>1. IsContinuation(s, n + 1)
  BY DEF IsContinuation
<1>2. CASE n = 0
  BY <1>1, <1>2 DEF WellFormed
<1>3. CASE n > 0
  <2>1. PICK k \in 1 .. n : s[k] \in Leading /\ k + Trail(s[k]) = n
    BY <1>3 DEF Parsed
  <2>2. k \in 1 .. Len(s)
    BY <2>1
  <2>3. QED
    BY <1>1, <2>1, <2>2, RunOfLeading
<1>4. QED
  BY <1>2, <1>3

UTypeOK ==
  /\ str \in Seq(Byte)
  /\ at \in 0 .. Len(str)
  /\ verdict \in {"scanning", "valid", "invalid"}

\* What has been scanned is whole characters; a string is rejected with reason, and
\* accepted at its end.
ScanInv ==
  /\ UTypeOK
  /\ verdict # "invalid" => Parsed(str, at)
  /\ verdict = "valid" => at = Len(str)
  /\ verdict = "invalid" => ~WellFormed(str)

\* Nothing has been scanned at first.
LEMMA ScanInit == UInit => ScanInv
<1> SUFFICES ASSUME UInit
             PROVE  ScanInv
  OBVIOUS
<1>1. str \in Seq(Byte)
  <2>1. PICK m \in 0 .. MaxLength : str \in [1 .. m -> Byte]
    BY DEF UInit, BoundedSeq, SeqOf
  <2>2. m \in Nat
    BY LengthAssumption
  <2>3. QED
    BY <2>1, <2>2, SeqDef
<1>2. Parsed(str, 0)
  BY DEF Parsed
<1>3. QED
  BY <1>1, <1>2 DEF UInit, ScanInv, UTypeOK

\* Every step scans a whole character, finds one that is none, or the end.
LEMMA ScanStep == ScanInv /\ [UNext]_uvars => ScanInv'
<1> SUFFICES ASSUME ScanInv, [UNext]_uvars
             PROVE  ScanInv'
  OBVIOUS
<1>a. str \in Seq(Byte) /\ Len(str) \in Nat /\ at \in 0 .. Len(str)
  BY DEF ScanInv, UTypeOK
<1>b. More => Parsed(str, at) /\ at + 1 \in 1 .. Len(str) /\ ByteAt(at) = str[at + 1]
  BY <1>a DEF More, ScanInv, ByteAt
<1>1. CASE SkipAscii
  <2>1. str[at + 1] = "ascii" /\ Trail("ascii") = 0 /\ "ascii" \in Leading
    BY <1>1, <1>b DEF SkipAscii, Leading, Trail
  <2>2. Parsed(str, at + 1 + 0)
    BY <1>1, <1>a, <1>b, <2>1, ParsedGoesOn DEF SkipAscii
  <2>3. QED
    BY <1>1, <1>a, <1>b, <2>2 DEF SkipAscii, Accept, More, ScanInv, UTypeOK
<1>2. CASE RejectLead
  <2>1. CASE ByteAt(at) = "bad"
    <3>1. ~WellFormed(str)
      BY <1>2, <1>b, <2>1 DEF RejectLead, WellFormed
    <3>2. QED
      BY <1>2, <3>1 DEF RejectLead, Reject, ScanInv, UTypeOK
  <2>2. CASE ByteAt(at) = "cont"
    <3>1. ~WellFormed(str)
      BY <1>2, <1>a, <1>b, <2>2, StrayByte DEF RejectLead
    <3>2. QED
      BY <1>2, <3>1 DEF RejectLead, Reject, ScanInv, UTypeOK
  <2>3. QED
    BY <1>2, <2>1, <2>2 DEF RejectLead
<1>3. CASE SkipSequence
  <2> DEFINE r == Remaining[ByteAt(at)]
  <2>1. More /\ ByteAt(at) \in DOMAIN Remaining
    BY <1>3 DEF SkipSequence
  <2>2. r \in 1 .. 3 /\ str[at + 1] \in Leading /\ r = Trail(str[at + 1])
    BY <1>b, <2>1 DEF Remaining, Leading, Trail
  <2> HIDE DEF r
  <2>3. CASE at + r < Len(str) /\ \A j \in 1 .. r : ByteAt(at + j) = "cont"
    <3>1. Accept(r + 1)
      BY <1>3, <2>3 DEF SkipSequence, r
    <3>2. \A j \in 1 .. r : str[at + 1 + j] = "cont"
      BY <1>a, <2>2, <2>3 DEF ByteAt
    <3>3. Parsed(str, at + 1 + r)
      BY <1>a, <1>b, <2>1, <2>2, <2>3, <3>2, ParsedGoesOn
    <3>4. QED
      BY <1>a, <2>1, <2>2, <2>3, <3>1, <3>3 DEF Accept, More, ScanInv, UTypeOK
  <2>4. CASE ~(at + r < Len(str) /\ \A j \in 1 .. r : ByteAt(at + j) = "cont")
    <3>1. Reject
      BY <1>3, <2>4 DEF SkipSequence, r
    <3>2. PICK j \in 1 .. r : ~IsContinuation(str, at + 1 + j)
      <4>1. CASE at + r >= Len(str)
        BY <1>a, <2>2, <4>1 DEF IsContinuation
      <4>2. CASE at + r < Len(str)
        BY <1>a, <2>2, <2>4, <4>2 DEF IsContinuation, ByteAt
      <4>3. QED
        BY <1>a, <2>2, <4>1, <4>2
    <3>3. ~WellFormed(str)
      BY <1>a, <1>b, <2>1, <2>2, <3>2, RunOfLeading
    <3>4. QED
      BY <3>1, <3>3 DEF Reject, ScanInv, UTypeOK
  <2>5. QED
    BY <2>3, <2>4
<1>4. CASE Return
  BY <1>4, <1>a DEF Return, ScanInv, UTypeOK
<1>5. CASE UNCHANGED uvars
  BY <1>5 DEF uvars, ScanInv, UTypeOK
<1>6. QED
  BY <1>1, <1>2, <1>3, <1>4, <1>5 DEF UNext

\* IsValidUtf8 answers what the definition of well-formed strings says, for strings of
\* every length, and never goes past their end (NesesString.cpp:176-200).
THEOREM ScanIsRight == USpec => []ScanAgrees
<1>1. ScanInv => ScanAgrees
  BY ParsedIsWellFormed DEF ScanInv, UTypeOK, ScanAgrees
<1>2. QED
  BY ScanInit, ScanStep, <1>1, PTL DEF USpec
=============================================================================
