---------------------------- MODULE LoggerProofs ----------------------------
(***************************************************************************)
(* Proofs about Logger, for any clients and messages, every size of the    *)
(* queue and every number of starts.                                       *)
(***************************************************************************)
EXTENDS Logger, SequenceTheorems, TLAPS

-----------------------------------------------------------------------------
(* Sequences of which elements are left out.                               *)

\* Nothing is left of nothing.
LEMMA WithinEmpty == Within(<< >>, << >>)
<1>1. DOMAIN << >> = {}
  OBVIOUS
<1> DEFINE f == [i \in {} |-> i]
<1>2. f \in [DOMAIN << >> -> DOMAIN << >>]
  BY <1>1
<1>3. QED
  BY <1>1, <1>2 DEF Within

\* What is added to both keeps its place ...
LEMMA WithinBoth ==
  ASSUME NEW S, NEW w \in Seq(S), NEW h \in Seq(S), NEW l \in Seq(S), Within(w, h)
  PROVE  Within(w \o l, h \o l)
<1>1. PICK f \in [1 .. Len(w) -> 1 .. Len(h)] :
        /\ \A i, j \in 1 .. Len(w) : i < j => f[i] < f[j]
        /\ \A i \in 1 .. Len(w) : w[i] = h[f[i]]
  BY LenProperties DEF Within
<1>2. Len(w) \in Nat /\ Len(h) \in Nat /\ Len(l) \in Nat
  BY LenProperties
<1>3. /\ DOMAIN (w \o l) = 1 .. Len(w) + Len(l) /\ DOMAIN (h \o l) = 1 .. Len(h) + Len(l)
      /\ \A i \in 1 .. Len(w) + Len(l) : (w \o l)[i] = IF i <= Len(w) THEN w[i] ELSE l[i - Len(w)]
      /\ \A i \in 1 .. Len(h) + Len(l) : (h \o l)[i] = IF i <= Len(h) THEN h[i] ELSE l[i - Len(h)]
  BY ConcatProperties, LenProperties
<1> DEFINE g == [i \in 1 .. Len(w) + Len(l) |-> IF i <= Len(w) THEN f[i] ELSE i - Len(w) + Len(h)]
<1>4. g \in [1 .. Len(w) + Len(l) -> 1 .. Len(h) + Len(l)]
  <2>1. ASSUME NEW i \in 1 .. Len(w) + Len(l), i <= Len(w)
        PROVE  f[i] \in 1 .. Len(h) + Len(l)
    <3>1. i \in 1 .. Len(w)
      BY <1>2, <2>1
    <3>2. f[i] \in 1 .. Len(h)
      BY <1>1, <3>1
    <3>3. QED
      BY <1>2, <3>2
  <2>2. ASSUME NEW i \in 1 .. Len(w) + Len(l), ~(i <= Len(w))
        PROVE  i - Len(w) + Len(h) \in 1 .. Len(h) + Len(l)
    BY <1>2, <2>2
  <2>3. QED
    BY <2>1, <2>2
<1>5. ASSUME NEW i \in 1 .. Len(w) + Len(l), NEW j \in 1 .. Len(w) + Len(l), i < j
      PROVE  g[i] < g[j]
  <2>1. CASE j <= Len(w)
    <3>1. i \in 1 .. Len(w) /\ j \in 1 .. Len(w) /\ g[i] = f[i] /\ g[j] = f[j]
      BY <1>2, <1>5, <2>1
    <3>2. QED
      BY <1>1, <1>5, <3>1
  <2>2. CASE i <= Len(w) /\ ~(j <= Len(w))
    <3>1. i \in 1 .. Len(w) /\ g[i] = f[i] /\ g[j] = j - Len(w) + Len(h)
      BY <1>2, <2>2
    <3>2. f[i] \in 1 .. Len(h)
      BY <1>1, <3>1
    <3>3. QED
      BY <1>2, <2>2, <3>1, <3>2
  <2>3. CASE ~(i <= Len(w))
    BY <1>2, <1>5, <2>3
  <2>4. QED
    BY <2>1, <2>2, <2>3
<1>6. ASSUME NEW i \in 1 .. Len(w) + Len(l)
      PROVE  (w \o l)[i] = (h \o l)[g[i]]
  <2>1. CASE i <= Len(w)
    <3>1. i \in 1 .. Len(w) /\ g[i] = f[i]
      BY <1>2, <2>1
    <3>2. f[i] \in 1 .. Len(h) /\ w[i] = h[f[i]]
      BY <1>1, <3>1
    <3> HIDE DEF g
    <3>3. (w \o l)[i] = w[i]
      BY <1>3, <2>1
    <3>4. (h \o l)[f[i]] = h[f[i]]
      BY <1>2, <1>3, <3>2
    <3>5. QED
      BY <3>1, <3>2, <3>3, <3>4
  <2>2. CASE i > Len(w)
    <3>1. g[i] = i - Len(w) + Len(h) /\ g[i] > Len(h) /\ g[i] - Len(h) = i - Len(w)
      BY <1>2, <2>2
    <3>2. g[i] \in 1 .. Len(h) + Len(l)
      BY <1>4
    <3> HIDE DEF g
    <3>3. (h \o l)[g[i]] = l[g[i] - Len(h)]
      BY <1>2, <1>3, <3>1, <3>2
    <3>4. QED
      BY <1>2, <1>3, <2>2, <3>1, <3>3
  <2>3. QED
    BY <1>2, <2>1, <2>2
<1> HIDE DEF g
<1>7. QED
  BY <1>3, <1>4, <1>5, <1>6 DEF Within

\* ... what is added to the whole alone is left out ...
LEMMA WithinMore ==
  ASSUME NEW S, NEW w \in Seq(S), NEW h \in Seq(S), NEW l \in Seq(S), Within(w, h)
  PROVE  Within(w, h \o l)
<1>1. PICK f \in [1 .. Len(w) -> 1 .. Len(h)] :
        /\ \A i, j \in 1 .. Len(w) : i < j => f[i] < f[j]
        /\ \A i \in 1 .. Len(w) : w[i] = h[f[i]]
  BY LenProperties DEF Within
<1>2. /\ Len(h) \in Nat /\ Len(l) \in Nat
      /\ DOMAIN w = 1 .. Len(w) /\ DOMAIN (h \o l) = 1 .. Len(h) + Len(l)
      /\ \A i \in 1 .. Len(h) : i \in 1 .. Len(h) + Len(l) /\ (h \o l)[i] = h[i]
  BY ConcatProperties, LenProperties
<1>3. f \in [1 .. Len(w) -> 1 .. Len(h) + Len(l)]
  BY <1>1, <1>2
<1>4. \A i \in 1 .. Len(w) : w[i] = (h \o l)[f[i]]
  BY <1>1, <1>2
<1>5. QED
  BY <1>1, <1>2, <1>3, <1>4 DEF Within

\* ... and what is left out of the part is left out of the whole.
LEMMA WithinLess ==
  ASSUME NEW S, NEW w \in Seq(S), NEW h \in Seq(S), NEW l \in Seq(S), Within(w \o l, h)
  PROVE  Within(w, h)
<1>1. /\ Len(w) \in Nat /\ Len(l) \in Nat
      /\ DOMAIN w = 1 .. Len(w) /\ DOMAIN (w \o l) = 1 .. Len(w) + Len(l)
      /\ \A i \in 1 .. Len(w) : i \in 1 .. Len(w) + Len(l) /\ (w \o l)[i] = w[i]
  BY ConcatProperties, LenProperties
<1>2. PICK f \in [1 .. Len(w) + Len(l) -> DOMAIN h] :
        /\ \A i, j \in 1 .. Len(w) + Len(l) : i < j => f[i] < f[j]
        /\ \A i \in 1 .. Len(w) + Len(l) : (w \o l)[i] = h[f[i]]
  BY <1>1 DEF Within
<1> DEFINE g == [i \in 1 .. Len(w) |-> f[i]]
<1>3. g \in [1 .. Len(w) -> DOMAIN h]
  BY <1>1, <1>2
<1>4. /\ \A i, j \in 1 .. Len(w) : i < j => g[i] < g[j]
      /\ \A i \in 1 .. Len(w) : w[i] = h[g[i]]
  BY <1>1, <1>2
<1> HIDE DEF g
<1>5. QED
  BY <1>1, <1>3, <1>4 DEF Within

\* An initial part is what something follows.
LEMMA PrefixOfConcat ==
  ASSUME NEW S, NEW s \in Seq(S), NEW t \in Seq(S)
  PROVE  IsPrefix(s, s \o t)
<1>1. /\ Len(s) \in Nat /\ Len(t) \in Nat /\ s \o t \in Seq(S)
      /\ Len(s \o t) = Len(s) + Len(t)
      /\ \A i \in 1 .. Len(s) : (s \o t)[i] = s[i] /\ s[i] \in S
  BY ConcatProperties, LenProperties
<1>2. /\ SubSeq(s, 1, Len(s)) \in Seq(S) /\ SubSeq(s \o t, 1, Len(s)) \in Seq(S)
      /\ Len(SubSeq(s, 1, Len(s))) = Len(s) /\ Len(SubSeq(s \o t, 1, Len(s))) = Len(s)
      /\ \A i \in 1 .. Len(s) : SubSeq(s, 1, Len(s))[i] = s[i]
      /\ \A i \in 1 .. Len(s) : SubSeq(s \o t, 1, Len(s))[i] = s[i]
  BY <1>1
<1>3. SubSeq(s, 1, Len(s)) = SubSeq(s \o t, 1, Len(s))
  BY <1>2, SeqEqual
<1>4. QED
  BY <1>1, <1>3 DEF IsPrefix
-----------------------------------------------------------------------------
(* Types.                                                                  *)

FilesOK ==
  /\ handed \in Seq(Messages) /\ written \in Seq(Messages) /\ pending \in Seq(Messages)
  /\ stream \in {"closed", "open", "bad"}
  /\ fileFailed \in BOOLEAN

QueueOK ==
  /\ accepted \in Seq(Messages) /\ queue \in Seq(Messages)
  /\ out \in Messages \cup {NoMessage}
  /\ consumerPc \in {"check", "write"} => out \in Messages

CallsOK ==
  /\ closed \in BOOLEAN
  /\ pushPc \in [Clients -> {"idle", "notify"}]
  /\ popPc \in [{Consumer} -> logQueue!ConsPcs]
  /\ timed \in [{Consumer} -> BOOLEAN]
  /\ closePc \in [{Main} -> {"idle", "notify"}]

ControlOK ==
  /\ stopFlag \in BOOLEAN /\ joinable \in BOOLEAN /\ isStarted \in BOOLEAN /\ managed \in BOOLEAN
  /\ consumerPc \in {"absent", "begin", "loop", "popping", "check", "write", "recheck", "exited"}
  /\ mainPc \in {"idle", "close", "wake", "join"}
  /\ mainCall \in {"none", "Stop", "StopAll", "StopWorker"}
  /\ starts \in 0 .. MaxStarts

LTypeOK == FilesOK /\ QueueOK /\ CallsOK /\ ControlOK

\* What a stream has not taken is in the buffer of a bad one only.
BufferOK == stream # "bad" => pending = << >>

\* WriteLog hands over its lines.  A file that was left in a bad state may get the rest
\* of it when it is closed; then the lines enter the file that is open now, stay in its
\* buffer, or are lost because no file could be opened.  A file that is bad and stays
\* open takes nothing.
WriteOutcome(lines, rest) ==
  \/ /\ written' = (written \o rest) \o lines
     /\ stream' = "open" /\ pending' = << >>
     /\ fileFailed' = fileFailed
  \/ /\ written' = (written \o rest) \o << >>
     /\ stream' = "bad" /\ pending' = lines
     /\ fileFailed' = TRUE
  \/ /\ written' = (written \o rest) \o << >>
     /\ stream' = "closed" /\ pending' = << >>
     /\ fileFailed' = TRUE
  \/ /\ written' = (written \o << >>) \o << >>
     /\ stream = "bad" /\ stream' = "bad" /\ pending' = pending
     /\ fileFailed' = fileFailed

\* Every WriteLog ends in one of them.
LEMMA WriteLogIs ==
  ASSUME FilesOK, BufferOK, NEW lines \in Seq(Messages), WriteLog(lines)
  PROVE  /\ handed' = handed \o lines
         /\ \E rest \in {<< >>, pending} : WriteOutcome(lines, rest)
<1>1. PICK newName, opens, takes \in BOOLEAN, rest \in {<< >>, pending} :
        LET opened == IF ~MustOpen(newName) THEN stream ELSE IF opens THEN "open" ELSE "closed"
            breaks == opened = "open" /\ ~takes
            enters == opened = "open" /\ takes
        IN /\ newName \/ rest = << >>
           /\ handed' = handed \o lines
           /\ written' = (written \o rest) \o (IF enters THEN lines ELSE << >>)
           /\ stream' = IF breaks THEN "bad" ELSE opened
           /\ pending' = IF breaks THEN lines ELSE IF newName THEN << >> ELSE pending
           /\ fileFailed' = (fileFailed \/ breaks \/ (MustOpen(newName) /\ ~opens))
  BY Zenon DEF WriteLog
<1> DEFINE opened == IF ~MustOpen(newName) THEN stream ELSE IF opens THEN "open" ELSE "closed"
<1>2. /\ newName \/ rest = << >>
      /\ written' = (written \o rest) \o (IF opened = "open" /\ takes THEN lines ELSE << >>)
      /\ stream' = IF opened = "open" /\ ~takes THEN "bad" ELSE opened
      /\ pending' = IF opened = "open" /\ ~takes THEN lines ELSE IF newName THEN << >> ELSE pending
      /\ fileFailed' = (fileFailed \/ (opened = "open" /\ ~takes) \/ (MustOpen(newName) /\ ~opens))
  BY <1>1, Zenon
<1>3. fileFailed' = TRUE \/ fileFailed' = fileFailed
  BY <1>2 DEF FilesOK
<1>4. opened \in {"closed", "open", "bad"}
  BY DEF FilesOK
<1>5. /\ MustOpen(newName) => opened = IF opens THEN "open" ELSE "closed"
      /\ ~MustOpen(newName) => opened = stream /\ stream # "closed" /\ ~newName
  BY DEF MustOpen
<1> HIDE DEF opened
<1>6. CASE opened = "open" /\ takes
  <2>1. pending' = << >>
    BY <1>2, <1>5, <1>6 DEF BufferOK, MustOpen
  <2>2. fileFailed' = fileFailed
    BY <1>2, <1>5, <1>6 DEF FilesOK
  <2>3. QED
    BY <1>1, <1>2, <1>6, <2>1, <2>2, Zenon DEF WriteOutcome
<1>7. CASE opened = "open" /\ ~takes
  <2>1. fileFailed' = TRUE
    BY <1>2, <1>7
  <2>2. QED
    BY <1>1, <1>2, <1>7, <2>1, Zenon DEF WriteOutcome
<1>8. CASE opened = "closed"
  <2>1. fileFailed' = TRUE /\ pending' = << >> /\ stream' = "closed"
    BY <1>2, <1>5, <1>8 DEF BufferOK, MustOpen
  <2>2. written' = (written \o rest) \o << >>
    BY <1>2, <1>8
  <2>3. QED
    BY <1>1, <2>1, <2>2, Zenon DEF WriteOutcome
<1>9. CASE opened = "bad"
  <2>1. stream = "bad" /\ stream' = "bad" /\ rest = << >> /\ pending' = pending
    BY <1>2, <1>5, <1>9
  <2>2. fileFailed' = fileFailed
    BY <1>2, <1>5, <1>9 DEF FilesOK
  <2>3. written' = (written \o << >>) \o << >>
    BY <1>2, <1>9, <2>1
  <2>4. QED
    BY <1>1, <2>1, <2>2, <2>3, Zenon DEF WriteOutcome
<1>10. QED
  BY <1>4, <1>6, <1>7, <1>8, <1>9
-----------------------------------------------------------------------------
(* The file.                                                               *)

\* A file that has never failed has everything.  Whatever was lost, the rest is in
\* order, and what waits in the buffer of the stream comes behind it.
FileInv ==
  /\ FilesOK /\ BufferOK
  /\ ~fileFailed => stream # "bad" /\ written = handed
  /\ Within(written \o pending, handed)

\* What the file has when it is closed, with or without the rest of it.
LEMMA RestIsWithin ==
  ASSUME FileInv, NEW rest \in {<< >>, pending}
  PROVE  /\ rest \in Seq(Messages) /\ written \o rest \in Seq(Messages)
         /\ Within(written \o rest, handed)
<1>1. /\ written \in Seq(Messages) /\ pending \in Seq(Messages) /\ handed \in Seq(Messages)
      /\ << >> \in Seq(Messages) /\ Within(written \o pending, handed)
  BY DEF FileInv, FilesOK
<1>2. CASE rest = pending
  <2>1. written \o pending \in Seq(Messages)
    BY <1>1, ConcatProperties, Zenon
  <2>2. QED
    BY <1>1, <1>2, <2>1, Zenon
<1>3. CASE rest = << >>
  <2>1. Within(written, handed)
    BY <1>1, WithinLess, Zenon
  <2>2. written \o << >> = written
    BY <1>1, ConcatEmptySeq, Zenon
  <2>3. QED
    BY <1>1, <1>3, <2>1, <2>2, Zenon
<1>4. QED
  BY <1>2, <1>3

\* WriteLog keeps the invariant of the file.
LEMMA WriteKeeps ==
  ASSUME FileInv, NEW lines \in Seq(Messages), WriteLog(lines)
  PROVE  FileInv'
<1>1. PICK rest \in {<< >>, pending} : handed' = handed \o lines /\ WriteOutcome(lines, rest)
  BY WriteLogIs DEF FileInv
<1>2. /\ written \in Seq(Messages) /\ pending \in Seq(Messages) /\ handed \in Seq(Messages)
      /\ << >> \in Seq(Messages) /\ fileFailed \in BOOLEAN
      /\ handed \o lines \in Seq(Messages)
      /\ Within(written \o pending, handed)
  BY ConcatProperties DEF FileInv, FilesOK
<1> DEFINE w == written \o rest
<1>3. rest \in Seq(Messages) /\ w \in Seq(Messages) /\ Within(w, handed)
  BY RestIsWithin
<1>4. w \o lines \in Seq(Messages) /\ Within(w \o lines, handed \o lines)
  BY <1>2, <1>3, ConcatProperties, WithinBoth, Zenon
<1>5. w \o << >> = w /\ (w \o lines) \o << >> = w \o lines
  BY <1>3, <1>4, ConcatEmptySeq, Zenon
<1>6. Within(w, handed \o lines)
  BY <1>2, <1>3, WithinMore, Zenon
<1> HIDE DEF w
<1>7. CASE written' = w \o lines /\ stream' = "open" /\ pending' = << >> /\ fileFailed' = fileFailed
  <2>1. FilesOK' /\ BufferOK'
    BY <1>1, <1>2, <1>4, <1>7 DEF FilesOK, BufferOK
  <2>2. Within(written \o pending, handed)'
    BY <1>1, <1>4, <1>5, <1>7, Zenon
  <2>3. ASSUME ~fileFailed
        PROVE  written' = handed'
    <3>1. written = handed /\ pending = << >>
      BY <2>3 DEF FileInv, BufferOK
    <3>2. rest = << >> /\ written \o << >> = written
      BY <1>2, <3>1, ConcatEmptySeq
    <3>3. w = handed
      BY <3>1, <3>2 DEF w
    <3>4. QED
      BY <1>1, <1>7, <3>3
  <2>4. QED
    BY <1>7, <2>1, <2>2, <2>3 DEF FileInv
<1>8. CASE written' = w \o << >> /\ stream' = "bad" /\ pending' = lines /\ fileFailed' = TRUE
  <2>1. FilesOK' /\ BufferOK'
    BY <1>1, <1>2, <1>3, <1>5, <1>8 DEF FilesOK, BufferOK
  <2>2. Within(written \o pending, handed)'
    BY <1>1, <1>4, <1>5, <1>8, Zenon
  <2>3. QED
    BY <1>8, <2>1, <2>2 DEF FileInv
<1>9. CASE written' = w \o << >> /\ stream' = "closed" /\ pending' = << >> /\ fileFailed' = TRUE
  <2>1. FilesOK' /\ BufferOK'
    BY <1>1, <1>2, <1>3, <1>5, <1>9 DEF FilesOK, BufferOK
  <2>2. Within(written \o pending, handed)'
    BY <1>1, <1>5, <1>6, <1>9, Zenon
  <2>3. QED
    BY <1>9, <2>1, <2>2 DEF FileInv
<1>10. CASE /\ written' = (written \o << >>) \o << >> /\ stream = "bad" /\ stream' = "bad"
            /\ pending' = pending /\ fileFailed' = fileFailed
  <2>1. written' = written
    BY <1>2, <1>10, ConcatEmptySeq, Zenon
  <2>2. FilesOK' /\ BufferOK'
    BY <1>1, <1>2, <1>10, <2>1 DEF FilesOK, BufferOK
  <2>3. written \o pending \in Seq(Messages)
    BY <1>2, ConcatProperties, Zenon
  <2>4. Within(written \o pending, handed \o lines)
    BY <1>2, <2>3, WithinMore, Zenon
  <2>5. QED
    BY <1>1, <1>10, <2>1, <2>2, <2>4 DEF FileInv
<1>11. QED
  BY <1>1, <1>7, <1>8, <1>9, <1>10 DEF WriteOutcome, w

\* CloseFile keeps it.
LEMMA CloseKeeps ==
  ASSUME FileInv, NEW rest, CloseFile(rest)
  PROVE  FileInv'
<1>1. /\ rest \in {<< >>, pending} /\ written' = written \o rest /\ pending' = << >>
      /\ stream' = "closed" /\ handed' = handed /\ fileFailed' = fileFailed
  BY DEF CloseFile
<1>2. /\ written \o rest \in Seq(Messages) /\ Within(written \o rest, handed)
  BY <1>1, RestIsWithin
<1>3. FilesOK' /\ BufferOK'
  BY <1>1, <1>2 DEF FileInv, FilesOK, BufferOK
<1>4. (written \o rest) \o << >> = written \o rest
  BY <1>2, ConcatEmptySeq, Zenon
<1>5. Within(written \o pending, handed)'
  BY <1>1, <1>2, <1>4, Zenon
<1>6. ASSUME ~fileFailed
      PROVE  written' = handed'
  <2>1. written = handed /\ rest = << >> /\ written \in Seq(Messages)
    BY <1>1, <1>6 DEF FileInv, FilesOK, BufferOK
  <2>2. written \o << >> = written
    BY <2>1, ConcatEmptySeq, Zenon
  <2>3. QED
    BY <1>1, <2>1, <2>2
<1>7. QED
  BY <1>1, <1>3, <1>5, <1>6 DEF FileInv
-----------------------------------------------------------------------------
(* The threads.                                                            *)

\* A consumer runs from Start to the join; a logger that is not started has none and no
\* open file.  The consumer is in wait_pop only while it is popping.  Only while the
\* main thread is about to close the queue is the flag set and the queue open.
ThreadsInv ==
  /\ joinable <=> consumerPc # "absent"
  /\ ~isStarted => ~joinable /\ stream = "closed"
  /\ popPc[Consumer] # "idle" => consumerPc = "popping"
  /\ stopFlag /\ ~closed => mainPc = "close"

LoggerInv == FileInv /\ LTypeOK /\ ThreadsInv

\* Nothing has been logged yet.
LEMMA LoggerInit == LInit => LoggerInv
<1> SUFFICES ASSUME LInit
             PROVE  LoggerInv
  OBVIOUS
<1>1. << >> \in Seq(Messages) /\ 0 \in 0 .. MaxStarts
  BY StartsAssumption
<1>2. << >> \o << >> = << >>
  BY <1>1, ConcatEmptySeq, Zenon
<1>3. Within(<< >> \o << >>, << >>)
  BY <1>2, WithinEmpty, Zenon
<1>4. FilesOK /\ BufferOK /\ QueueOK
  BY <1>1 DEF LInit, logQueue!QInit, FilesOK, BufferOK, QueueOK
<1>5. CallsOK /\ ControlOK
  BY <1>1 DEF LInit, logQueue!QInit, logQueue!ConsPcs, CallsOK, ControlOK
<1>6. FileInv
  BY <1>3, <1>4 DEF LInit, FileInv
<1>7. ThreadsInv
  BY DEF LInit, logQueue!QInit, ThreadsInv
<1>8. QED
  BY <1>4, <1>5, <1>6, <1>7 DEF LoggerInv, LTypeOK

\* What the file keeps where nobody writes or closes it.
LEMMA FileUnchanged ==
  ASSUME FileInv, UNCHANGED fileVars
  PROVE  FileInv'
BY DEF FileInv, FilesOK, BufferOK, fileVars

\* Every step keeps the file in order.
LEMMA FileStep == LoggerInv /\ [LNext]_lvars => FileInv'
<1> SUFFICES ASSUME LoggerInv, [LNext]_lvars
             PROVE  FileInv'
  OBVIOUS
<1>a. FileInv /\ QueueOK
  BY DEF LoggerInv, LTypeOK
<1>1. CASE UNCHANGED fileVars
  BY <1>1, <1>a, FileUnchanged
<1>2. CASE WriteSeparator
  <2>1. << >> \in Seq(Messages) /\ WriteLog(<< >>)
    BY <1>2 DEF WriteSeparator
  <2>2. QED
    BY <1>a, <2>1, WriteKeeps, Zenon
<1>3. CASE WriteMessage
  <2>1. <<out>> \in Seq(Messages) /\ WriteLog(<<out>>)
    BY <1>3, <1>a DEF WriteMessage, QueueOK
  <2>2. QED
    BY <1>a, <2>1, WriteKeeps, Zenon
<1>4. CASE JoinConsumer
  <2>1. CASE mainCall = "Stop"
    <3>1. PICK rest \in {<< >>, pending} : CloseFile(rest)
      BY <1>4, <2>1 DEF JoinConsumer
    <3>2. QED
      BY <1>a, <3>1, CloseKeeps
  <2>2. CASE mainCall # "Stop"
    BY <1>1, <1>4, <2>2 DEF JoinConsumer
  <2>3. QED
    BY <2>1, <2>2
<1>5. ASSUME NEW c \in Clients, (\E m \in Messages : Log(c, m)) \/ LogNotify(c)
      PROVE  FileInv'
  BY <1>1, <1>5 DEF Log, LogNotify
<1>6. CASE CallWaitPop \/ SleepOrWake \/ PopMessage \/ PopNothing \/ CheckBeforeWrite \/ CheckAfterWrite
  BY <1>1, <1>6 DEF CallWaitPop, SleepOrWake, PopMessage, PopNothing, CheckBeforeWrite, CheckAfterWrite
<1>7. CASE Start \/ CallStop \/ CallStopWorkers \/ CloseQueue \/ WakeConsumer
  BY <1>1, <1>7 DEF Start, CallStop, CallStopWorkers, CloseQueue, WakeConsumer
<1>8. CASE UNCHANGED lvars
  BY <1>1, <1>8 DEF lvars
<1>9. QED
  BY <1>2, <1>3, <1>4, <1>5, <1>6, <1>7, <1>8 DEF LNext, ConsumerStep, MainStep

\* Every step keeps the types of queue and control, and what the threads rely on.
LEMMA ThreadsStep ==
  LoggerInv /\ [LNext]_lvars => QueueOK' /\ CallsOK' /\ ControlOK' /\ ThreadsInv'
<1> SUFFICES ASSUME LoggerInv, [LNext]_lvars
             PROVE  QueueOK' /\ CallsOK' /\ ControlOK' /\ ThreadsInv'
  OBVIOUS
<1>a. QueueOK /\ CallsOK /\ ControlOK /\ ThreadsInv
  BY DEF LoggerInv, LTypeOK
<1> USE DEF queueVars, fileVars, threadVars, mainVars
<1>1. ASSUME NEW c \in Clients, NEW m \in Messages, Log(c, m)
      PROVE  QueueOK' /\ CallsOK' /\ ControlOK' /\ ThreadsInv'
  <2>1. queue' \in Seq(Messages) /\ accepted' \in Seq(Messages)
    BY <1>1, <1>a, AppendProperties DEF Log, logQueue!Push, QueueOK
  <2>2. QueueOK' /\ CallsOK'
    BY <1>1, <1>a, <2>1 DEF Log, logQueue!Push, QueueOK, CallsOK
  <2>3. ControlOK' /\ ThreadsInv'
    BY <1>1, <1>a DEF Log, logQueue!Push, ControlOK, ThreadsInv
  <2>4. QED
    BY <2>2, <2>3
<1>2. ASSUME NEW c \in Clients, LogNotify(c)
      PROVE  QueueOK' /\ CallsOK' /\ ControlOK' /\ ThreadsInv'
  <2>1. /\ pushPc' = [pushPc EXCEPT ![c] = "idle"] /\ UNCHANGED <<queue, closed, timed, closePc, out>>
        /\ \/ popPc' = popPc
           \/ popPc[Consumer] = "waiting" /\ popPc' = [popPc EXCEPT ![Consumer] = "decide"]
    BY <1>2 DEF LogNotify, logQueue!NotifyOne, logQueue!ConsumersAt
  <2>2. QueueOK' /\ ControlOK'
    BY <1>2, <1>a, <2>1 DEF LogNotify, QueueOK, ControlOK
  <2>3. CallsOK' /\ ThreadsInv'
    BY <1>2, <1>a, <2>1 DEF LogNotify, CallsOK, ThreadsInv, logQueue!ConsPcs
  <2>4. QED
    BY <2>2, <2>3
<1>3. CASE WriteSeparator \/ WriteMessage
  <2>1. QueueOK' /\ CallsOK' /\ ControlOK'
    BY <1>3, <1>a DEF WriteSeparator, WriteMessage, QueueOK, CallsOK, ControlOK
  <2>2. ThreadsInv'
    BY <1>3, <1>a DEF WriteSeparator, WriteMessage, ThreadsInv, ControlOK
  <2>3. QED
    BY <2>1, <2>2
<1>4. CASE CallWaitPop
  <2>1. QueueOK' /\ CallsOK'
    BY <1>4, <1>a DEF CallWaitPop, logQueue!WaitPop, QueueOK, CallsOK, logQueue!ConsPcs
  <2>2. ControlOK' /\ ThreadsInv'
    BY <1>4, <1>a DEF CallWaitPop, logQueue!WaitPop, ControlOK, ThreadsInv
  <2>3. QED
    BY <2>1, <2>2
<1>5. CASE SleepOrWake
  <2>1. QueueOK' /\ CallsOK'
    BY <1>5, <1>a DEF SleepOrWake, logQueue!WaitPopBlock, logQueue!SpuriousWakeup, QueueOK, CallsOK,
                      logQueue!ConsPcs
  <2>2. ControlOK' /\ ThreadsInv'
    BY <1>5, <1>a DEF SleepOrWake, logQueue!WaitPopBlock, logQueue!SpuriousWakeup, ControlOK, ThreadsInv
  <2>3. QED
    BY <2>1, <2>2
<1>6. CASE PopMessage
  <2>1. out' \in Messages /\ queue' \in Seq(Messages)
    BY <1>6, <1>a, HeadTailProperties DEF PopMessage, logQueue!WaitPopTake, logQueue!TakeFront, QueueOK
  <2>2. QueueOK' /\ CallsOK'
    BY <1>6, <1>a, <2>1 DEF PopMessage, logQueue!WaitPopTake, QueueOK, CallsOK, logQueue!ConsPcs
  <2>3. ControlOK' /\ ThreadsInv'
    BY <1>6, <1>a DEF PopMessage, logQueue!WaitPopTake, ControlOK, CallsOK, ThreadsInv
  <2>4. QED
    BY <2>2, <2>3
<1>7. CASE PopNothing
  <2>1. QueueOK' /\ CallsOK'
    BY <1>7, <1>a DEF PopNothing, logQueue!WaitPopFail, QueueOK, CallsOK, logQueue!ConsPcs
  <2>2. ControlOK' /\ ThreadsInv'
    BY <1>7, <1>a DEF PopNothing, logQueue!WaitPopFail, ControlOK, CallsOK, ThreadsInv
  <2>3. QED
    BY <2>1, <2>2
<1>8. CASE CheckBeforeWrite \/ CheckAfterWrite
  <2>1. QueueOK' /\ CallsOK'
    BY <1>8, <1>a DEF CheckBeforeWrite, CheckAfterWrite, QueueOK, CallsOK
  <2>2. ControlOK' /\ ThreadsInv'
    BY <1>8, <1>a DEF CheckBeforeWrite, CheckAfterWrite, ControlOK, ThreadsInv
  <2>3. QED
    BY <2>1, <2>2
<1>9. CASE Start
  <2>1. starts' \in 0 .. MaxStarts
    BY <1>9, <1>a, StartsAssumption DEF Start, ControlOK
  <2>2. QueueOK' /\ CallsOK'
    BY <1>9, <1>a DEF Start, QueueOK, CallsOK
  <2>3. \/ joinable' = TRUE /\ consumerPc' = "begin"
        \/ UNCHANGED <<joinable, consumerPc>>
    BY <1>9 DEF Start
  <2>4. ControlOK'
    BY <1>9, <1>a, <2>1, <2>3 DEF Start, ControlOK
  <2>5. /\ ~stopFlag' /\ isStarted' /\ UNCHANGED popPc
        /\ ~joinable /\ consumerPc = "absent" /\ popPc[Consumer] = "idle"
    BY <1>9, <1>a DEF Start, ThreadsInv
  <2>6. ThreadsInv'
    BY <2>3, <2>5 DEF ThreadsInv
  <2>7. QED
    BY <2>2, <2>4, <2>6
<1>10. CASE CallStop \/ CallStopWorkers
  <2>1. QueueOK' /\ CallsOK'
    BY <1>10, <1>a DEF CallStop, CallStopWorkers, QueueOK, CallsOK
  <2>2. ControlOK'
    BY <1>10, <1>a DEF CallStop, CallStopWorkers, ControlOK
  <2>3. mainPc' = "close" /\ UNCHANGED <<joinable, consumerPc, isStarted, stream, popPc>>
    BY <1>10 DEF CallStop, CallStopWorkers
  <2>4. ThreadsInv'
    BY <1>a, <2>3 DEF ThreadsInv
  <2>5. QED
    BY <2>1, <2>2, <2>4
<1>11. CASE CloseQueue
  <2>1. QueueOK' /\ CallsOK'
    BY <1>11, <1>a DEF CloseQueue, logQueue!Close, QueueOK, CallsOK
  <2>2. ControlOK' /\ ThreadsInv'
    BY <1>11, <1>a DEF CloseQueue, logQueue!Close, ControlOK, ThreadsInv
  <2>3. QED
    BY <2>1, <2>2
<1>12. CASE WakeConsumer
  <2>1. QueueOK' /\ CallsOK'
    BY <1>12, <1>a DEF WakeConsumer, logQueue!CloseNotifyAll, QueueOK, CallsOK, logQueue!ConsPcs
  <2>2. ControlOK' /\ ThreadsInv'
    BY <1>12, <1>a DEF WakeConsumer, logQueue!CloseNotifyAll, ControlOK, CallsOK, ThreadsInv
  <2>3. QED
    BY <2>1, <2>2
<1>13. CASE JoinConsumer
  <2>1. QueueOK' /\ CallsOK'
    BY <1>13, <1>a DEF JoinConsumer, QueueOK, CallsOK
  <2>2. \/ mainCall = "Stop" /\ isStarted' = FALSE /\ stream' = "closed"
        \/ UNCHANGED <<isStarted, stream>>
    BY <1>13 DEF JoinConsumer, CloseFile
  <2>3. ControlOK' /\ ThreadsInv'
    BY <1>13, <1>a, <2>2 DEF JoinConsumer, ControlOK, ThreadsInv
  <2>4. QED
    BY <2>1, <2>3
<1>14. CASE UNCHANGED lvars
  BY <1>14, <1>a DEF lvars, QueueOK, CallsOK, ControlOK, ThreadsInv
<1>15. QED
  BY <1>1, <1>2, <1>3, <1>4, <1>5, <1>6, <1>7, <1>8, <1>9, <1>10, <1>11, <1>12, <1>13, <1>14
     DEF LNext, ConsumerStep, MainStep

\* All of it is an invariant.
THEOREM LoggerInvariant == LSpec => []LoggerInv
<1>1. LoggerInv /\ [LNext]_lvars => LoggerInv'
  BY FileStep, ThreadsStep DEF LoggerInv, LTypeOK, FileInv
<1>2. QED
  BY LoggerInit, <1>1, PTL DEF LSpec

\* The state of the logger has its type.
THEOREM LoggerTypeCorrect == LSpec => []LTypeOK
<1>1. LoggerInv => LTypeOK
  BY DEF LoggerInv
<1>2. QED
  BY LoggerInvariant, <1>1, PTL

\* A file that has not failed has every message that was handed to it, in order; one that
\* has failed keeps what it takes in order, and each message once (Logger.hpp:128-205).
THEOREM FileKeepsOrder == LSpec => []FileKeepsWhatItTakes
<1>1. LoggerInv => FileKeepsWhatItTakes
  <2> SUFFICES ASSUME LoggerInv
               PROVE  FileKeepsWhatItTakes
    OBVIOUS
  <2>1. /\ written \in Seq(Messages) /\ pending \in Seq(Messages) /\ handed \in Seq(Messages)
        /\ Within(written \o pending, handed)
    BY DEF LoggerInv, FileInv, FilesOK
  <2>2. Within(written, handed)
    BY <2>1, WithinLess, Zenon
  <2>3. QED
    BY <2>2 DEF LoggerInv, FileInv, FileKeepsWhatItTakes
<1>2. QED
  BY LoggerInvariant, <1>1, PTL

\* A logger that is not started has no consumer and no open file, once the main thread
\* is done with its calls (Logger.hpp:292-300).
THEOREM StoppedLoggerIsQuiet == LSpec => []StoppedIsQuiet
<1>1. LoggerInv => StoppedIsQuiet
  BY DEF LoggerInv, ThreadsInv, StoppedIsQuiet
<1>2. QED
  BY LoggerInvariant, <1>1, PTL
-----------------------------------------------------------------------------
(* No gap.                                                                 *)

\* The rest of what was accepted.
Begins(part) == \E rest \in Seq(Messages) : accepted = part \o rest

\* What was handed over, and what the consumer is about to hand over, are where the
\* accepted messages begin; and while nobody stops the logger nothing is missing.
GapInv ==
  /\ Begins(handed)
  /\ consumerPc = "write" => Begins(handed \o <<out>>)
  /\ ~stopFlag /\ ~closed => accepted = (handed \o InHand) \o queue

\* Messages put one after another may be grouped either way.
LEMMA Grouped ==
  ASSUME NEW s \in Seq(Messages), NEW t \in Seq(Messages), NEW u \in Seq(Messages)
  PROVE  (s \o t) \o u = s \o (t \o u)
BY ConcatAssociative

\* One more message accepted ends the same rest.
LEMMA BeginsAppend ==
  ASSUME NEW part \in Seq(Messages), Begins(part), NEW m \in Messages, accepted' = Append(accepted, m)
  PROVE  \E rest \in Seq(Messages) : accepted' = part \o rest
<1>1. PICK rest \in Seq(Messages) : accepted = part \o rest
  BY DEF Begins
<1>2. /\ Append(rest, m) = rest \o <<m>> /\ Append(rest, m) \in Seq(Messages)
      /\ <<m>> \in Seq(Messages) /\ accepted \in Seq(Messages)
  BY <1>1, ConcatProperties, AppendIsConcat
<1>3. Append(accepted, m) = accepted \o <<m>>
  BY <1>2, AppendIsConcat
<1>4. (part \o rest) \o <<m>> = part \o (rest \o <<m>>)
  BY <1>1, <1>2, Grouped
<1>5. QED
  BY <1>1, <1>2, <1>3, <1>4, Zenon

\* Nothing accepted, handed over or popped: no gap opens, unless the consumer goes on to
\* write.
LEMMA GapUnchanged ==
  ASSUME GapInv, UNCHANGED <<accepted, handed, queue, out, InHand>>,
         consumerPc' = "write" => consumerPc = "write",
         ~stopFlag' /\ ~closed' => ~stopFlag /\ ~closed
  PROVE  GapInv'
<1>1. Begins(handed)' /\ (consumerPc' = "write" => Begins(handed \o <<out>>)')
  BY DEF GapInv, Begins
<1>2. (~stopFlag /\ ~closed => accepted = (handed \o InHand) \o queue)'
  BY DEF GapInv
<1>3. QED
  BY <1>1, <1>2 DEF GapInv

\* A sequence is its first element and the others.
LEMMA HeadThenTail ==
  ASSUME NEW S, NEW s \in Seq(S), s # << >>
  PROVE  <<Head(s)>> \o Tail(s) = s
<1>1. /\ Head(s) \in S /\ <<Head(s)>> \in Seq(S) /\ Tail(s) \in Seq(S)
      /\ Len(s) \in Nat /\ Len(s) > 0
      /\ Len(Tail(s)) = Len(s) - 1
      /\ \A i \in 1 .. Len(Tail(s)) : Tail(s)[i] = s[i + 1]
  BY HeadTailProperties, EmptySeq
<1>2. /\ <<Head(s)>> \o Tail(s) \in Seq(S)
      /\ Len(<<Head(s)>> \o Tail(s)) = 1 + Len(Tail(s))
      /\ \A i \in 1 .. 1 + Len(Tail(s)) :
           (<<Head(s)>> \o Tail(s))[i] = IF i <= 1 THEN <<Head(s)>>[i] ELSE Tail(s)[i - 1]
  BY <1>1, ConcatProperties
<1>3. ASSUME NEW i \in 1 .. Len(s)
      PROVE  (<<Head(s)>> \o Tail(s))[i] = s[i]
  <2>1. CASE i = 1
    BY <1>1, <1>2, <2>1
  <2>2. CASE i > 1
    <3>1. i - 1 \in 1 .. Len(Tail(s)) /\ (i - 1) + 1 = i /\ i \in 1 .. 1 + Len(Tail(s))
      BY <1>1, <2>2
    <3>2. Tail(s)[i - 1] = s[i]
      BY <1>1, <3>1
    <3>3. QED
      BY <1>2, <2>2, <3>1, <3>2
  <2>3. QED
    BY <2>1, <2>2
<1>4. Len(<<Head(s)>> \o Tail(s)) = Len(s)
  BY <1>1, <1>2
<1>5. QED
  BY <1>2, <1>3, <1>4, SeqEqual, Zenon

\* Every step keeps the accepted messages together.
LEMMA GapStep == LoggerInv /\ GapInv /\ [LNext]_lvars => GapInv'
<1> SUFFICES ASSUME LoggerInv, GapInv, [LNext]_lvars
             PROVE  GapInv'
  OBVIOUS
<1>a. /\ handed \in Seq(Messages) /\ queue \in Seq(Messages) /\ accepted \in Seq(Messages)
      /\ << >> \in Seq(Messages) /\ InHand \in Seq(Messages)
      /\ consumerPc = "write" => <<out>> \in Seq(Messages) /\ handed \o <<out>> \in Seq(Messages)
      /\ handed \o InHand \in Seq(Messages)
  <2>1. /\ handed \in Seq(Messages) /\ queue \in Seq(Messages) /\ accepted \in Seq(Messages)
        /\ << >> \in Seq(Messages) /\ InHand \in Seq(Messages)
        /\ consumerPc = "write" => <<out>> \in Seq(Messages)
    BY DEF LoggerInv, LTypeOK, FilesOK, QueueOK, InHand
  <2>2. QED
    BY <2>1, ConcatProperties, Zenon
<1>b. handed \o << >> = handed
  BY <1>a, ConcatEmptySeq, Zenon
<1> USE DEF queueVars, fileVars, threadVars, mainVars
<1>1. ASSUME NEW c \in Clients, NEW m \in Messages, Log(c, m)
      PROVE  GapInv'
  <2>1. /\ accepted' = Append(accepted, m) /\ queue' = Append(queue, m)
        /\ UNCHANGED <<handed, out, consumerPc, stopFlag, closed>>
    BY <1>1 DEF Log, logQueue!Push
  <2>2. Begins(handed)'
    BY <1>a, <2>1, BeginsAppend DEF GapInv, Begins
  <2>3. ASSUME consumerPc = "write"
        PROVE  Begins(handed \o <<out>>)'
    BY <1>a, <2>1, <2>3, BeginsAppend DEF GapInv, Begins
  <2>4. ASSUME ~stopFlag, ~closed
        PROVE  accepted' = (handed \o InHand) \o queue'
    <3>1. accepted = (handed \o InHand) \o queue
      BY <2>4 DEF GapInv
    <3>2. <<m>> \in Seq(Messages) /\ Append(accepted, m) = accepted \o <<m>>
          /\ Append(queue, m) = queue \o <<m>>
      BY <1>a, AppendIsConcat
    <3>3. ((handed \o InHand) \o queue) \o <<m>> = (handed \o InHand) \o (queue \o <<m>>)
      <4>1. /\ handed \o InHand \in Seq(Messages) /\ queue \in Seq(Messages)
            /\ <<m>> \in Seq(Messages)
        BY <1>a, <3>2
      <4>2. QED
        BY ONLY <4>1, Grouped
    <3>4. QED
      BY <2>1, <3>1, <3>2, <3>3, Zenon
  <2>5. QED
    BY <2>1, <2>2, <2>3, <2>4 DEF GapInv, InHand
<1>2. ASSUME NEW c \in Clients, LogNotify(c)
      PROVE  GapInv'
  BY <1>2, GapUnchanged DEF LogNotify, logQueue!NotifyOne, InHand
<1>3. CASE WriteSeparator
  <2>1. handed' = handed \o << >>
    <3>1. FilesOK /\ BufferOK /\ << >> \in Seq(Messages) /\ WriteLog(<< >>)
      BY <1>a, <1>3 DEF WriteSeparator, LoggerInv, FileInv
    <3>2. QED
      BY <3>1, WriteLogIs, Zenon
  <2>2. /\ UNCHANGED <<accepted, handed, queue, out, InHand, stopFlag, closed>>
        /\ consumerPc' # "write"
    BY <1>3, <1>b, <2>1 DEF WriteSeparator, InHand
  <2>3. QED
    BY <2>2, GapUnchanged
<1>4. CASE CallWaitPop \/ SleepOrWake
  <2>1. /\ UNCHANGED <<accepted, handed, queue, out, InHand, stopFlag, closed>>
        /\ consumerPc' = "write" => consumerPc = "write"
    BY <1>4 DEF CallWaitPop, SleepOrWake, InHand, logQueue!WaitPop, logQueue!WaitPopBlock,
                logQueue!SpuriousWakeup
  <2>2. QED
    BY <2>1, GapUnchanged
<1>5. CASE PopMessage
  <2>1. /\ queue # << >> /\ out' = Head(queue) /\ queue' = Tail(queue)
        /\ consumerPc = "popping" /\ consumerPc' = "check"
        /\ UNCHANGED <<accepted, handed, stopFlag, closed>>
    BY <1>5 DEF PopMessage, logQueue!WaitPopTake, logQueue!TakeFront, LoggerInv, ThreadsInv
  <2>2. InHand = << >> /\ InHand' = <<Head(queue)>>
    BY <2>1 DEF InHand
  <2>3. /\ <<Head(queue)>> \in Seq(Messages) /\ Tail(queue) \in Seq(Messages)
        /\ <<Head(queue)>> \o Tail(queue) = queue
    BY <1>a, <2>1, HeadTailProperties, HeadThenTail
  <2>4. (handed \o <<Head(queue)>>) \o Tail(queue) = handed \o queue
    <3>1. (handed \o <<Head(queue)>>) \o Tail(queue) = handed \o (<<Head(queue)>> \o Tail(queue))
      <4>1. /\ handed \in Seq(Messages) /\ <<Head(queue)>> \in Seq(Messages)
            /\ Tail(queue) \in Seq(Messages)
        BY <1>a, <2>3
      <4>2. QED
        BY ONLY <4>1, Grouped
    <3>2. QED
      BY <2>3, <3>1, Zenon
  <2>5. ~stopFlag /\ ~closed => accepted = handed \o queue
    BY <1>b, <2>2 DEF GapInv
  <2>6. Begins(handed)'
    BY <2>1 DEF GapInv, Begins
  <2>7. QED
    BY <2>1, <2>2, <2>4, <2>5, <2>6 DEF GapInv
<1>6. CASE PopNothing
  <2>1. /\ UNCHANGED <<accepted, handed, queue, out, stopFlag, closed>>
        /\ consumerPc = "popping" /\ consumerPc' = "exited"
    BY <1>6 DEF PopNothing, logQueue!WaitPopFail, LoggerInv, ThreadsInv
  <2>2. QED
    BY <2>1, GapUnchanged DEF InHand
<1>7. CASE CheckBeforeWrite
  <2>1. UNCHANGED <<accepted, handed, queue, out, stopFlag, closed>> /\ consumerPc = "check"
    BY <1>7 DEF CheckBeforeWrite
  <2>2. Begins(handed)'
    BY <2>1 DEF GapInv, Begins
  <2>3. CASE stopFlag \/ closed
    BY <1>7, <2>1, <2>2, <2>3 DEF CheckBeforeWrite, GapInv
  <2>4. CASE ~stopFlag /\ ~closed
    <3>1. consumerPc' = "write" /\ InHand' = <<out>> /\ InHand = <<out>>
      BY <1>7, <2>1, <2>4 DEF CheckBeforeWrite, InHand
    <3>2. accepted = (handed \o <<out>>) \o queue
      BY <2>4, <3>1 DEF GapInv
    <3>3. Begins(handed \o <<out>>)'
      BY <1>a, <2>1, <3>2 DEF Begins
    <3>4. QED
      BY <2>1, <2>2, <3>1, <3>2, <3>3 DEF GapInv
  <2>5. QED
    BY <2>3, <2>4
<1>8. CASE WriteMessage
  <2>1. /\ UNCHANGED <<accepted, queue, out, stopFlag, closed>>
        /\ consumerPc = "write" /\ consumerPc' = "recheck" /\ WriteLog(<<out>>)
    BY <1>8 DEF WriteMessage
  <2>2. handed' = handed \o <<out>>
    BY <1>a, <2>1, WriteLogIs DEF LoggerInv, FileInv
  <2>3. InHand = <<out>> /\ InHand' = << >>
    BY <2>1 DEF InHand
  <2>4. Begins(handed)'
    BY <2>1, <2>2 DEF GapInv, Begins
  <2>5. (handed \o <<out>>) \o << >> = handed \o <<out>>
    BY <1>a, <2>1, ConcatEmptySeq, Zenon
  <2>6. QED
    BY <2>1, <2>2, <2>3, <2>4, <2>5 DEF GapInv
<1>9. CASE CheckAfterWrite
  <2>1. /\ UNCHANGED <<accepted, handed, queue, out, InHand, stopFlag, closed>>
        /\ consumerPc' # "write"
    BY <1>9 DEF CheckAfterWrite, InHand
  <2>2. QED
    BY <2>1, GapUnchanged
<1>10. CASE Start
  <2>1. /\ UNCHANGED <<accepted, handed, queue, out, closed>>
        /\ consumerPc = "absent" /\ consumerPc' \in {"absent", "begin"}
        /\ ~closed => ~stopFlag
    BY <1>10 DEF Start, LoggerInv, ThreadsInv
  <2>2. InHand' = InHand
    BY <2>1 DEF InHand
  <2>3. QED
    BY <2>1, <2>2, GapUnchanged
<1>11. CASE CallStop \/ CallStopWorkers \/ CloseQueue \/ WakeConsumer
  <2>1. /\ UNCHANGED <<accepted, handed, queue, out, consumerPc>>
        /\ ~stopFlag' /\ ~closed' => ~stopFlag /\ ~closed
    BY <1>11 DEF CallStop, CallStopWorkers, CloseQueue, WakeConsumer, logQueue!Close,
                 logQueue!CloseNotifyAll
  <2>2. QED
    BY <2>1, GapUnchanged DEF InHand
<1>12. CASE JoinConsumer
  <2>1. /\ UNCHANGED <<accepted, handed, queue, out, stopFlag, closed>>
        /\ \/ consumerPc = "exited" /\ consumerPc' = "absent"
           \/ consumerPc' = consumerPc
    BY <1>12 DEF JoinConsumer, CloseFile
  <2>2. QED
    BY <2>1, GapUnchanged DEF InHand
<1>13. CASE UNCHANGED lvars
  BY <1>13, GapUnchanged DEF lvars, InHand
<1>14. QED
  BY <1>1, <1>2, <1>3, <1>4, <1>5, <1>6, <1>7, <1>8, <1>9, <1>10, <1>11, <1>12, <1>13
     DEF LNext, ConsumerStep, MainStep

\* What is handed to WriteLog is an initial part of what was accepted, and unless somebody
\* stops the logger the rest is in the consumer's hand or in the queue, for all clients,
\* restarts and interleavings (Logger.hpp:218-239).
THEOREM NoGaps == LSpec => []NoGapInLog
<1>1. LInit => GapInv
  <2> SUFFICES ASSUME LInit
               PROVE  GapInv
    OBVIOUS
  <2>1. << >> \in Seq(Messages) /\ accepted = << >> /\ handed = << >> /\ queue = << >>
        /\ consumerPc = "absent"
    BY DEF LInit, logQueue!QInit
  <2>2. << >> \o << >> = << >>
    BY <2>1, ConcatEmptySeq, Zenon
  <2>3. InHand = << >>
    BY <2>1 DEF InHand
  <2>4. QED
    BY <2>1, <2>2, <2>3 DEF GapInv, Begins
<1>2. LoggerInv /\ GapInv => NoGapInLog
  <2> SUFFICES ASSUME LoggerInv, GapInv
               PROVE  NoGapInLog
    OBVIOUS
  <2>1. PICK rest \in Seq(Messages) : accepted = handed \o rest
    BY DEF GapInv, Begins
  <2>2. handed \in Seq(Messages)
    BY DEF LoggerInv, LTypeOK, FilesOK
  <2>3. IsPrefix(handed, accepted)
    BY <2>1, <2>2, PrefixOfConcat
  <2>4. QED
    BY <2>3 DEF GapInv, NoGapInLog
<1>3. QED
  BY LoggerInvariant, GapStep, <1>1, <1>2, PTL DEF LSpec
=============================================================================
