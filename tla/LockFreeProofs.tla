--------------------------- MODULE LockFreeProofs ---------------------------
(***************************************************************************)
(* Proofs about the two objects that threads share without a lock: the     *)
(* ring buffer, SpscQueue, for every capacity and every set of values, and *)
(* SlotArray, for any range of keys, any pointers and takers.              *)
(***************************************************************************)
EXTENDS SpscQueue, SlotArray, SequenceTheorems, FiniteSetTheorems, TLAPS

-----------------------------------------------------------------------------
(* The ring buffer.                                                        *)

RingInv == STypeOK /\ ViewsAreSafe /\ ChecksHold /\ SlotsHold

-----------------------------------------------------------------------------
(* Indices.                                                                *)

\* The remainder, for the numbers increment takes it of.
LEMMA ModIs ==
  ASSUME NEW b \in Nat, b > 0, NEW i \in 0 .. b
  PROVE  i % b = IF i = b THEN 0 ELSE i
OBVIOUS

\* increment is the successor in the ring.
LEMMA IncrementIs ==
  \A i \in Slots : increment(i) = (IF i = Capacity THEN 0 ELSE i + 1) /\ increment(i) \in Slots
<1> SUFFICES ASSUME NEW i \in Slots
             PROVE  increment(i) = (IF i = Capacity THEN 0 ELSE i + 1) /\ increment(i) \in Slots
  OBVIOUS
<1>1. BufferSize \in Nat /\ BufferSize > 0 /\ i + 1 \in 0 .. BufferSize
  BY CapacityAssumption DEF BufferSize, Slots
<1>2. (i + 1) % BufferSize = IF i + 1 = BufferSize THEN 0 ELSE i + 1
  BY <1>1, ModIs
<1>3. QED
  BY <1>2, CapacityAssumption DEF increment, BufferSize, Slots

\* Ahead is a distance in the ring: it has its range, and is zero only to itself.
LEMMA AheadIsDistance ==
  \A a, b \in Slots : /\ Ahead(a, b) \in 0 .. Capacity
                      /\ Ahead(a, b) = 0 <=> a = b
                      /\ Ahead(a, a) = 0
BY CapacityAssumption DEF Ahead, Slots, BufferSize

\* Moving the far end forward makes the distance longer by one ...
LEMMA AheadFar ==
  \A a, b \in Slots : Ahead(a, b) < Capacity => Ahead(a, increment(b)) = Ahead(a, b) + 1
BY IncrementIs, CapacityAssumption DEF Ahead, Slots, BufferSize

\* ... and moving the near end forward shorter by one.
LEMMA AheadNear ==
  \A a, b \in Slots : a # b => Ahead(increment(a), b) = Ahead(a, b) - 1
BY IncrementIs, CapacityAssumption DEF Ahead, Slots, BufferSize

\* A check that fails to find the next head at an old tail has found room.
LEMMA RoomBehindTail ==
  \A a, b \in Slots : increment(b) # a => Ahead(a, b) < Capacity
BY IncrementIs, CapacityAssumption DEF Ahead, Slots, BufferSize

\* An index on the way from a to b splits the way.
LEMMA BetweenSplits ==
  \A a, b \in Slots : \A i \in Between(a, b) :
     i \in Slots /\ Ahead(a, i) + Ahead(i, b) = Ahead(a, b)
BY CapacityAssumption DEF Ahead, Between, Slots, BufferSize

\* If b is on the way from a to c, and i on the way from a to b, then both are
\* met in the order a, i, b, c.
LEMMA WaysAddUp ==
  \A a, i, b, c \in Slots :
     /\ Ahead(a, i) + Ahead(i, b) = Ahead(a, b)
     /\ Ahead(a, b) + Ahead(b, c) = Ahead(a, c)
     => Ahead(i, b) + Ahead(b, c) = Ahead(i, c)
BY CapacityAssumption DEF Ahead, Slots, BufferSize

\* The same seen from the other end: if b is on the way from a to c, and i on the
\* way from b to c, then i is on the way from a to c.
LEMMA WayGoesOn ==
  \A a, b, i, c \in Slots :
     /\ Ahead(a, b) + Ahead(b, c) = Ahead(a, c)
     /\ Ahead(b, i) + Ahead(i, c) = Ahead(b, c)
     => Ahead(a, i) + Ahead(i, c) = Ahead(a, c)
BY CapacityAssumption DEF Ahead, Slots, BufferSize
-----------------------------------------------------------------------------
(* The invariant.                                                          *)

\* The invariant holds of the empty ring.
LEMMA RingInit == SInit => RingInv
<1> SUFFICES ASSUME SInit
             PROVE  RingInv
  OBVIOUS
<1> USE CapacityAssumption DEF SInit
<1>1. 0 \in Slots /\ Ahead(0, 0) = 0
  BY AheadIsDistance DEF Slots
<1>2. STypeOK
  BY <1>1 DEF STypeOK
<1>3. ViewsAreSafe /\ ChecksHold /\ SlotsHold
  BY <1>1 DEF ViewsAreSafe, ChecksHold, SlotsHold, Count
<1>4. QED
  BY <1>2, <1>3 DEF RingInv

\* The slot at the head is not one of those between tail and head.
LEMMA HeadIsFree ==
  ASSUME STypeOK
  PROVE  \A i \in 1 .. Count : Slot(i) \in Slots /\ Slot(i) # head
BY CapacityAssumption DEF STypeOK, Count, Slot, Ahead, Slots, BufferSize

\* The first of them is the one at the tail, and a consumer past its check has one.
LEMMA TailIsFirst ==
  ASSUME STypeOK, Count > 0
  PROVE  1 \in 1 .. Count /\ Slot(1) = tail
BY CapacityAssumption, AheadIsDistance DEF STypeOK, Count, Slot, Ahead, Slots, BufferSize

\* What the consumer knows of the items is true, however old its view is.
LEMMA ConsumerHasItem ==
  ASSUME RingInv, consPc # "idle"
  PROVE  Count > 0
<1>1. tail # seenHead /\ tail \in Slots /\ seenHead \in Slots /\ head \in Slots
  BY DEF RingInv, STypeOK, ChecksHold
<1>2. Ahead(tail, seenHead) \in 1 .. Capacity /\ Ahead(seenHead, head) \in 0 .. Capacity
  BY <1>1, AheadIsDistance, CapacityAssumption
<1>3. QED
  BY <1>2, CapacityAssumption DEF RingInv, ViewsAreSafe, Count

\* What the producer knows of the room is true, however old its view is.
LEMMA ProducerHasRoom ==
  ASSUME RingInv, prodPc # "idle"
  PROVE  Count < Capacity
<1>1. tail \in Slots /\ seenTail \in Slots /\ head \in Slots
  BY DEF RingInv, STypeOK
<1>2. Ahead(seenTail, tail) \in 0 .. Capacity /\ Ahead(tail, head) \in 0 .. Capacity
  BY <1>1, AheadIsDistance
<1>3. QED
  BY <1>2, CapacityAssumption DEF RingInv, ViewsAreSafe, ChecksHold, Count

\* Every step of producer and consumer keeps the invariant.
LEMMA RingStep == RingInv /\ [SNext]_svars => RingInv'
<1> SUFFICES ASSUME RingInv, [SNext]_svars
             PROVE  RingInv'
  OBVIOUS
<1> USE CapacityAssumption DEF prodVars, consVars
<1>a. /\ head \in Slots /\ tail \in Slots /\ seenTail \in Slots /\ seenHead \in Slots
      /\ STypeOK
  BY DEF RingInv, STypeOK
<1>b. /\ Ahead(seenTail, tail) + Ahead(tail, head) = Ahead(seenTail, head)
      /\ Ahead(tail, seenHead) + Ahead(seenHead, head) = Ahead(tail, head)
  BY DEF RingInv, ViewsAreSafe
<1>1. ASSUME NEW v \in Values, PushCheck(v)
      PROVE  RingInv'
  <2>1. seenTail' \in Slots /\ Ahead(seenTail, seenTail') + Ahead(seenTail', tail) = Ahead(seenTail, tail)
    BY <1>1, <1>a, BetweenSplits DEF PushCheck
  <2>2. Ahead(seenTail', tail) + Ahead(tail, head) = Ahead(seenTail', head)
    BY <2>1, <1>a, <1>b, WaysAddUp
  <2>3. ViewsAreSafe'
    BY <1>1, <2>2, <1>b DEF PushCheck, ViewsAreSafe
  <2>4. prodPc' # "idle" => Ahead(seenTail', head) < Capacity /\ item' \in Values
    BY <1>1, <2>1, <1>a, RoomBehindTail DEF PushCheck
  <2>5. STypeOK'
    BY <1>1, <2>1 DEF PushCheck, RingInv, STypeOK
  <2>6. ChecksHold' /\ SlotsHold'
    BY <1>1, <2>4 DEF PushCheck, RingInv, ChecksHold, SlotsHold, Count, Slot
  <2>7. QED
    BY <2>3, <2>5, <2>6 DEF RingInv
<1>2. CASE PushWrite
  <2>1. STypeOK' /\ ViewsAreSafe' /\ ChecksHold'
    BY <1>2 DEF PushWrite, RingInv, STypeOK, ViewsAreSafe, ChecksHold
  <2>2. \A i \in 1 .. Count : Slot(i) \in Slots /\ Slot(i) # head
    BY <1>a, HeadIsFree
  <2>3. consPc = "read" => tail # head
    BY <1>a, <2>2, ConsumerHasItem, TailIsFirst
  <2>4. buffer' = [buffer EXCEPT ![head] = item] /\ UNCHANGED <<head, tail, consPc, taken, item>>
    BY <1>2 DEF PushWrite
  <2>5. SlotsHold'
    BY <2>2, <2>3, <2>4, <1>a DEF RingInv, STypeOK, SlotsHold, Count, Slot
  <2>6. QED
    BY <2>1, <2>5 DEF RingInv
<1>3. CASE PushPublish
  <2>1. head' = increment(head) /\ prodPc = "written" /\ prodPc' = "idle"
        /\ UNCHANGED <<buffer, tail, seenTail, seenHead, item, consPc, taken, last>>
    BY <1>3 DEF PushPublish
  <2>2. Ahead(seenTail, head) < Capacity /\ Ahead(tail, head) < Capacity
    BY <2>1, ProducerHasRoom DEF RingInv, ChecksHold, Count
  <2>3. Ahead(seenHead, head) < Capacity
    BY <2>2, <1>a, <1>b, AheadIsDistance
  <2>4. /\ Ahead(seenTail, head') = Ahead(seenTail, head) + 1
        /\ Ahead(tail, head') = Ahead(tail, head) + 1
        /\ Ahead(seenHead, head') = Ahead(seenHead, head) + 1
    BY <2>1, <2>2, <2>3, <1>a, AheadFar
  <2>5. ViewsAreSafe'
    BY <2>1, <2>4, <1>a, <1>b, AheadIsDistance DEF ViewsAreSafe
  <2>6. head' \in Slots
    BY <2>1, <1>a, IncrementIs
  <2>7. STypeOK' /\ ChecksHold'
    BY <2>1, <2>6 DEF RingInv, STypeOK, ChecksHold
  <2>8. Slot(Count + 1) = head /\ buffer[head] \in Values
    <3>1. Slot(Count + 1) = head
      BY <1>a DEF Slot, Count, Ahead, Slots, BufferSize
    <3>2. QED
      BY <3>1, <2>1 DEF RingInv, SlotsHold, ChecksHold
  <2>9. Count' = Count + 1 /\ Count \in Nat
    BY <2>1, <2>4, <1>a, AheadIsDistance DEF Count
  <2>10. \A i \in 1 .. Count' : buffer'[Slot(i)'] \in Values
    <3> SUFFICES ASSUME NEW i \in 1 .. Count + 1
                 PROVE  buffer[Slot(i)] \in Values
      BY <2>1, <2>9 DEF Slot
    <3>1. CASE i = Count + 1
      BY <3>1, <2>8
    <3>2. CASE i \in 1 .. Count
      BY <3>2 DEF RingInv, SlotsHold
    <3>3. QED
      BY <3>1, <3>2, <2>9
  <2>11. SlotsHold'
    BY <2>1, <2>10 DEF RingInv, SlotsHold, Slot
  <2>12. QED
    BY <2>5, <2>7, <2>11 DEF RingInv
<1>4. CASE PopCheck
  <2>1. seenHead' \in Slots /\ Ahead(seenHead, seenHead') + Ahead(seenHead', head) = Ahead(seenHead, head)
    BY <1>4, <1>a, BetweenSplits DEF PopCheck
  <2>2. Ahead(tail, seenHead') + Ahead(seenHead', head) = Ahead(tail, head)
    BY <2>1, <1>a, <1>b, WayGoesOn
  <2>3. UNCHANGED <<buffer, head, tail, seenTail, prodPc, item, taken, last>>
        /\ consPc' = IF tail = seenHead' THEN "idle" ELSE "reading"
    BY <1>4 DEF PopCheck
  <2>4. STypeOK' /\ ViewsAreSafe' /\ ChecksHold'
    BY <2>1, <2>2, <2>3, <1>b DEF RingInv, STypeOK, ViewsAreSafe, ChecksHold
  <2>5. SlotsHold'
    BY <2>3 DEF RingInv, SlotsHold, Count, Slot
  <2>6. QED
    BY <2>4, <2>5 DEF RingInv
<1>5. CASE PopRead
  <2>1. STypeOK' /\ ViewsAreSafe' /\ ChecksHold'
    BY <1>5 DEF PopRead, RingInv, STypeOK, ViewsAreSafe, ChecksHold
  <2>2. SlotsHold'
    BY <1>5 DEF PopRead, RingInv, SlotsHold, Count, Slot
  <2>3. QED
    BY <2>1, <2>2 DEF RingInv
<1>6. CASE PopPublish
  <2>1. tail' = increment(tail) /\ consPc = "read" /\ consPc' = "idle" /\ last' = taken
        /\ UNCHANGED <<buffer, head, seenTail, seenHead, prodPc, item, taken>>
    BY <1>6 DEF PopPublish
  <2>2. tail # seenHead /\ Count > 0
    BY <2>1, ConsumerHasItem DEF RingInv, ChecksHold
  <2>3. tail # head
    BY <2>2, <1>a, AheadIsDistance DEF Count
  <2>4. /\ tail' \in Slots
        /\ Ahead(tail', head) = Ahead(tail, head) - 1
        /\ Ahead(tail', seenHead) = Ahead(tail, seenHead) - 1
    BY <2>1, <2>2, <2>3, <1>a, AheadNear, IncrementIs
  <2>5. Ahead(seenTail, tail') = Ahead(seenTail, tail) + 1
    <3>1. Ahead(seenTail, tail) < Capacity
      BY <2>3, <1>a, <1>b, AheadIsDistance
    <3>2. QED
      BY <2>1, <3>1, <1>a, AheadFar
  <2>6. ViewsAreSafe'
    BY <2>1, <2>4, <2>5, <1>a, <1>b, AheadIsDistance DEF ViewsAreSafe
  <2>7. STypeOK' /\ ChecksHold'
    BY <2>1, <2>4 DEF RingInv, STypeOK, ChecksHold
  <2>8. Count' = Count - 1 /\ Count \in Nat
    BY <2>1, <2>4, <1>a, AheadIsDistance DEF Count
  <2>9. \A i \in 1 .. Count - 1 : Slot(i)' = Slot(i + 1)
    BY <2>1, <2>8, <1>a, IncrementIs DEF Slot, Slots, BufferSize, Count, Ahead
  <2>10. \A i \in 1 .. Count' : buffer'[Slot(i)'] \in Values
    <3> SUFFICES ASSUME NEW i \in 1 .. Count - 1
                 PROVE  buffer[Slot(i + 1)] \in Values
      BY <2>1, <2>8, <2>9
    <3>1. i + 1 \in 1 .. Count
      BY <2>8
    <3>2. QED
      BY <3>1 DEF RingInv, SlotsHold
  <2>11. SlotsHold'
    BY <2>1, <2>10 DEF RingInv, SlotsHold
  <2>12. QED
    BY <2>6, <2>7, <2>11 DEF RingInv
<1>7. CASE UNCHANGED svars
  BY <1>7 DEF svars, RingInv, STypeOK, ViewsAreSafe, ChecksHold, SlotsHold, Count, Slot
<1>8. QED
  BY <1>1, <1>2, <1>3, <1>4, <1>5, <1>6, <1>7 DEF SNext

\* However old the index is that either side acts on, the producer never writes
\* the slot the consumer is reading.
THEOREM ExclusiveSlots == SSpec => []SlotExclusion
<1>1. ASSUME RingInv
      PROVE  SlotExclusion
  <2> SUFFICES ASSUME consPc = "reading"
               PROVE  head # tail
    BY DEF SlotExclusion
  <2>1. Count > 0
    BY <1>1, ConsumerHasItem
  <2>2. Slot(1) = tail /\ Slot(1) # head
    BY <1>1, <2>1, TailIsFirst, HeadIsFree DEF RingInv
  <2>3. QED
    BY <2>2
<1>2. QED
  BY RingInit, RingStep, <1>1, PTL DEF SSpec

\* Indices stay within the ring and the slots hold values only.
THEOREM RingTypeCorrect == SSpec => []STypeOK
<1>1. RingInv => STypeOK
  BY DEF RingInv
<1>2. QED
  BY RingInit, RingStep, <1>1, PTL DEF SSpec
-----------------------------------------------------------------------------
(* The bounded FIFO.                                                       *)

ContentOK ==
  /\ Count \in Nat
  /\ Content \in Seq(Values) /\ Len(Content) = Count
  /\ \A i \in 1 .. Count : Content[i] = buffer[Slot(i)]

\* The content is the sequence of the values in the slots from tail to head.
LEMMA ContentIs == RingInv => ContentOK
<1> SUFFICES ASSUME RingInv
             PROVE  ContentOK
  OBVIOUS
<1>1. Count \in Nat
  BY AheadIsDistance, CapacityAssumption DEF RingInv, STypeOK, Count
<1>2. \A i \in 1 .. Count : buffer[Slot(i)] \in Values
  BY DEF RingInv, SlotsHold
<1>3. QED
  BY <1>1, <1>2 DEF ContentOK, Content

\* Storing the head appends to the content what the producer has written.
LEMMA PublishedIsPut ==
  ASSUME RingInv, RingInv', PushPublish
  PROVE  Ring!Put(item)
<1> USE CapacityAssumption
<1>0. ContentOK /\ ContentOK'
  BY ContentIs, PTL
<1>1. head' = increment(head) /\ prodPc = "written"
      /\ UNCHANGED <<buffer, tail, seenTail, item, last>>
  BY DEF PushPublish, consVars
<1>2. Count < Capacity /\ item \in Values /\ buffer[head] = item
  BY <1>1, ProducerHasRoom DEF RingInv, ChecksHold, SlotsHold
<1>3. Count' = Count + 1
  BY <1>1, <1>2, AheadFar DEF RingInv, STypeOK, Count
<1>4. Slot(Count + 1) = head
  BY DEF RingInv, STypeOK, Slot, Count, Ahead, Slots, BufferSize
<1>5. \A i \in 1 .. Count + 1 : Slot(i)' = Slot(i)
  BY <1>1 DEF Slot
<1>6. Content' = Append(Content, item)
  <2>1. Content' \in Seq(Values) /\ Len(Content') = Count + 1
        /\ \A i \in 1 .. Count + 1 : Content'[i] = buffer[Slot(i)]
    BY <1>0, <1>1, <1>3, <1>5 DEF ContentOK
  <2>2. Count \in Nat /\ Content \in Seq(Values) /\ Len(Content) = Count
        /\ \A i \in 1 .. Count : Content[i] = buffer[Slot(i)]
    BY <1>0 DEF ContentOK
  <2>3. Append(Content, item) \in Seq(Values) /\ Len(Append(Content, item)) = Count + 1
    BY <2>2, <1>2
  <2>4. \A i \in 1 .. Count + 1 : Append(Content, item)[i] = buffer[Slot(i)]
    BY <2>2, <1>2, <1>4
  <2>5. QED
    BY <2>1, <2>2, <2>3, <2>4, SeqEqual
<1>7. Len(Content) < Capacity
  BY <1>0, <1>2 DEF ContentOK
<1>8. QED
  BY <1>1, <1>6, <1>7 DEF Ring!Put

\* Storing the tail removes from the content what the consumer has read.
LEMMA PublishedIsTake ==
  ASSUME RingInv, RingInv', PopPublish
  PROVE  Ring!Take
<1> USE CapacityAssumption
<1>0. ContentOK /\ ContentOK'
  BY ContentIs, PTL
<1>a. tail \in Slots /\ head \in Slots
  BY DEF RingInv, STypeOK
<1>1. tail' = increment(tail) /\ consPc = "read" /\ last' = taken
      /\ UNCHANGED <<buffer, head>>
  BY DEF PopPublish, prodVars
<1>2. Count > 0 /\ taken = buffer[tail]
  BY <1>1, ConsumerHasItem DEF RingInv, SlotsHold
<1>3. Count' = Count - 1 /\ Count \in Nat
  BY <1>1, <1>2, AheadNear, AheadIsDistance DEF RingInv, STypeOK, Count
<1>4. \A i \in 1 .. Count - 1 : Slot(i)' = Slot(i + 1)
  BY <1>1, <1>3, <1>a, IncrementIs DEF Slot, Slots, BufferSize, Count, Ahead
<1>5. Content \in Seq(Values) /\ Len(Content) = Count
      /\ \A i \in 1 .. Count : Content[i] = buffer[Slot(i)]
  BY <1>0 DEF ContentOK
<1>6. Content # << >> /\ Head(Content) = taken
  BY <1>2, <1>5, TailIsFirst DEF RingInv
<1>7. Content' = Tail(Content)
  <2>1. Content' \in Seq(Values) /\ Len(Content') = Count - 1
        /\ \A i \in 1 .. Count - 1 : Content'[i] = buffer[Slot(i + 1)]
    BY <1>0, <1>1, <1>3, <1>4 DEF ContentOK
  <2>2. Tail(Content) \in Seq(Values) /\ Len(Tail(Content)) = Count - 1
    BY <1>3, <1>5, <1>6
  <2>3. \A i \in 1 .. Count - 1 : Tail(Content)[i] = buffer[Slot(i + 1)]
    BY <1>3, <1>5, <1>6
  <2>4. QED
    BY <2>1, <2>2, <2>3, SeqEqual
<1>8. QED
  BY <1>1, <1>6, <1>7 DEF Ring!Take

\* A write to the slot at the head does not show in the content.
LEMMA WriteIsHidden ==
  ASSUME RingInv, RingInv', PushWrite
  PROVE  Content' = Content
<1>1. UNCHANGED <<head, tail>> /\ buffer' = [buffer EXCEPT ![head] = item]
  BY DEF PushWrite, consVars
<1>2. \A i \in 1 .. Count : Slot(i)' = Slot(i) /\ Slot(i) # head /\ Slot(i) \in Slots
  BY <1>1, HeadIsFree DEF RingInv, Slot
<1>3. Count' = Count
  BY <1>1 DEF Count
<1>4. \A i \in 1 .. Count : buffer'[Slot(i)'] = buffer[Slot(i)]
  BY <1>1, <1>2 DEF RingInv, STypeOK
<1>5. QED
  BY <1>3, <1>4 DEF Content

\* Stale indices, split accesses and all: every run of the ring buffer is a run of
\* a bounded FIFO.
THEOREM RingImplementsFifo == SSpec => ImplementsBoundedFifo
<1>1. SInit => Ring!FifoInit
  <2> SUFFICES ASSUME SInit
               PROVE  Ring!FifoInit
    OBVIOUS
  <2>1. Content = << >> /\ last = NoValue
    BY CapacityAssumption DEF SInit, Content, Count, Ahead
  <2>2. QED
    BY <2>1 DEF Ring!FifoInit
<1>2. RingInv /\ RingInv' /\ [SNext]_svars => [Ring!FifoNext]_(Ring!fifoVars)
  <2> SUFFICES ASSUME RingInv, RingInv', [SNext]_svars
               PROVE  Ring!FifoNext \/ UNCHANGED Ring!fifoVars
    OBVIOUS
  <2>1. ASSUME NEW v \in Values, PushCheck(v)
        PROVE  UNCHANGED Ring!fifoVars
    BY <2>1 DEF PushCheck, prodVars, consVars, Content, Count, Slot, Ring!fifoVars
  <2>2. CASE PushWrite
    BY <2>2, WriteIsHidden DEF PushWrite, consVars, Ring!fifoVars
  <2>3. CASE PushPublish
    <3>1. item \in Values
      BY <2>3 DEF PushPublish, RingInv, ChecksHold
    <3>2. QED
      BY <2>3, <3>1, PublishedIsPut DEF Ring!FifoNext
  <2>4. CASE PopCheck
    BY <2>4 DEF PopCheck, prodVars, consVars, Content, Count, Slot, Ring!fifoVars
  <2>5. CASE PopRead
    BY <2>5 DEF PopRead, prodVars, consVars, Content, Count, Slot, Ring!fifoVars
  <2>6. CASE PopPublish
    BY <2>6, PublishedIsTake DEF Ring!FifoNext
  <2>7. CASE UNCHANGED svars
    BY <2>7 DEF svars, prodVars, consVars, Content, Count, Slot, Ring!fifoVars
  <2>8. QED
    BY <2>1, <2>2, <2>3, <2>4, <2>5, <2>6, <2>7 DEF SNext
<1>3. QED
  BY RingInit, RingStep, <1>1, <1>2, PTL DEF SSpec, ImplementsBoundedFifo, Ring!FifoSpec
-----------------------------------------------------------------------------
(* The array of slots.                                                     *)

SlotsInv == ZTypeOK /\ ConsumedOnce

\* One, if the two pointers are the same.
One(q, p) == IF q = p THEN 1 ELSE 0

-----------------------------------------------------------------------------
(* Counting.                                                               *)

\* There are finitely many keys to find a pointer under.
LEMMA FinitelyManyKeys ==
  \A S \in SUBSET Keys : IsFiniteSet(S) /\ Cardinality(S) \in Nat
<1>1. IsFiniteSet(Keys)
  BY RangeAssumption, FS_Interval DEF Keys
<1>2. QED
  BY <1>1, FS_Subset, FS_CardinalityType

\* A store takes its slot from the pointer that was there and gives it to the new one.
LEMMA StoreCounts ==
  ASSUME ZTypeOK, NEW k \in Keys, NEW q \in Pointers \cup {Null}, Store(k, q),
         NEW p \in Pointers
  PROVE  Cardinality(KeysOf(p))' = Cardinality(KeysOf(p)) - One(slots[k], p) + One(q, p)
<1> DEFINE K == KeysOf(p)
<1>1. slots' = [slots EXCEPT ![k] = q] /\ slots \in [Keys -> Pointers \cup {Null}]
  BY DEF Store, ZTypeOK
<1>2. IsFiniteSet(K) /\ IsFiniteSet(K') /\ Cardinality(K) \in Nat /\ Cardinality(K') \in Nat
  BY FinitelyManyKeys DEF KeysOf
<1>3. k \in K <=> slots[k] = p
  BY DEF KeysOf
<1>4. K' = IF q = p THEN K \cup {k} ELSE K \ {k}
  BY <1>1 DEF KeysOf
<1> HIDE DEF K
<1>5. CASE q = p
  <2>1. CASE k \in K
    <3>1. K' = K
      BY <1>4, <1>5, <2>1
    <3>2. QED
      BY <1>2, <1>3, <1>5, <2>1, <3>1 DEF One, K
  <2>2. CASE k \notin K
    <3>1. Cardinality(K') = Cardinality(K) + 1
      BY <1>2, <1>4, <1>5, <2>2, FS_AddElement
    <3>2. QED
      BY <1>2, <1>3, <1>5, <2>2, <3>1 DEF One, K
  <2>3. QED
    BY <2>1, <2>2
<1>6. CASE q # p
  <2>1. CASE k \in K
    <3>1. Cardinality(K') = Cardinality(K) - 1
      BY <1>2, <1>4, <1>6, <2>1, FS_RemoveElement
    <3>2. QED
      BY <1>2, <1>3, <1>6, <2>1, <3>1 DEF One, K
  <2>2. CASE k \notin K
    BY <1>2, <1>3, <1>4, <1>6, <2>2 DEF One, K
  <2>3. QED
    BY <2>1, <2>2
<1>7. QED
  BY <1>5, <1>6

\* Counted adds one for its pointer, and nothing for nullptr.
LEMMA CountedIs ==
  ASSUME NEW f \in [Pointers -> Nat], NEW q \in Pointers \cup {Null}
  PROVE  /\ Counted(f, q) \in [Pointers -> Nat]
         /\ \A p \in Pointers : Counted(f, q)[p] = f[p] + One(q, p)
BY PointerAssumption DEF Counted, One
-----------------------------------------------------------------------------
(* The invariant.                                                          *)

\* Nothing has been set in a new array.
LEMMA SlotsInit == ZInit => SlotsInv
<1> SUFFICES ASSUME ZInit
             PROVE  SlotsInv
  OBVIOUS
<1>1. 0 \in Keys
  BY RangeAssumption DEF Keys
<1>2. ZTypeOK
  BY <1>1 DEF ZInit, ZTypeOK
<1>3. \A p \in Pointers : KeysOf(p) = {}
  BY PointerAssumption DEF ZInit, KeysOf
<1>4. ConsumedOnce
  BY <1>3, FS_EmptySet DEF ZInit, ConsumedOnce
<1>5. QED
  BY <1>2, <1>4 DEF SlotsInv

\* Every step keeps the types.
LEMMA SlotsTypeStep == ZTypeOK /\ [ZNext]_zvars => ZTypeOK'
<1> SUFFICES ASSUME ZTypeOK, [ZNext]_zvars
             PROVE  ZTypeOK'
  OBVIOUS
<1> USE DEF ZTypeOK, Store
<1>1. ASSUME NEW k \in Keys, NEW p \in Pointers, SetSlot(k, p)
      PROVE  ZTypeOK'
  <2>1. Counted(sets, p) \in [Pointers -> Nat] /\ Counted(dropped, slots[k]) \in [Pointers -> Nat]
    BY CountedIs
  <2>2. QED
    BY <1>1, <2>1 DEF SetSlot
<1>2. ASSUME NEW k \in Keys, Clear(k)
      PROVE  ZTypeOK'
  <2>1. Counted(dropped, slots[k]) \in [Pointers -> Nat]
    BY CountedIs
  <2>2. QED
    BY <1>2, <2>1 DEF Clear
<1>3. ASSUME NEW t \in Takers, NEW k \in Keys, TakeLoad(t, k)
      PROVE  ZTypeOK'
  BY <1>3 DEF TakeLoad
<1>4. ASSUME NEW t \in Takers, TakeSwap(t)
      PROVE  ZTypeOK'
  <2>1. Counted(consumed, expected[t]) \in [Pointers -> Nat]
    BY CountedIs
  <2>2. QED
    BY <1>4, <2>1 DEF TakeSwap
<1>5. CASE UNCHANGED zvars
  BY <1>5 DEF zvars
<1>6. QED
  BY <1>1, <1>2, <1>3, <1>4, <1>5 DEF ZNext

\* Every step keeps the account of each pointer.
LEMMA AccountStep == SlotsInv /\ [ZNext]_zvars => ConsumedOnce'
<1> SUFFICES ASSUME SlotsInv, [ZNext]_zvars, NEW p \in Pointers
             PROVE  (sets[p] = consumed[p] + dropped[p] + Cardinality(KeysOf(p)))'
  BY DEF ConsumedOnce
<1>a. /\ sets[p] = consumed[p] + dropped[p] + Cardinality(KeysOf(p))
      /\ sets[p] \in Nat /\ consumed[p] \in Nat /\ dropped[p] \in Nat
      /\ Cardinality(KeysOf(p)) \in Nat
  BY FinitelyManyKeys DEF SlotsInv, ZTypeOK, ConsumedOnce, KeysOf
<1>b. /\ ZTypeOK
      /\ \A k \in Keys : slots[k] \in Pointers \cup {Null}
      /\ {sets, consumed, dropped} \subseteq [Pointers -> Nat]
  BY DEF SlotsInv, ZTypeOK
<1>c. One(Null, p) = 0
  BY PointerAssumption DEF One
<1>d. \A q : One(q, p) \in {0, 1}
  BY DEF One
<1>1. ASSUME NEW k \in Keys, NEW q \in Pointers, SetSlot(k, q)
      PROVE  (sets[p] = consumed[p] + dropped[p] + Cardinality(KeysOf(p)))'
  <2>1. sets'[p] = sets[p] + One(q, p) /\ dropped'[p] = dropped[p] + One(slots[k], p)
    BY <1>1, <1>b, CountedIs DEF SetSlot
  <2>2. Cardinality(KeysOf(p))' = Cardinality(KeysOf(p)) - One(slots[k], p) + One(q, p)
    BY <1>1, <1>b, StoreCounts DEF SetSlot
  <2>3. consumed' = consumed
    BY <1>1 DEF SetSlot
  <2>4. QED
    BY <2>1, <2>2, <2>3, <1>a, <1>d
<1>2. ASSUME NEW k \in Keys, Clear(k)
      PROVE  (sets[p] = consumed[p] + dropped[p] + Cardinality(KeysOf(p)))'
  <2>1. dropped'[p] = dropped[p] + One(slots[k], p)
    BY <1>2, <1>b, CountedIs DEF Clear
  <2>2. Cardinality(KeysOf(p))' = Cardinality(KeysOf(p)) - One(slots[k], p) + One(Null, p)
    BY <1>2, <1>b, StoreCounts DEF Clear
  <2>3. sets' = sets /\ consumed' = consumed
    BY <1>2 DEF Clear
  <2>4. QED
    BY <2>1, <2>2, <2>3, <1>a, <1>c, <1>d
<1>3. ASSUME NEW t \in Takers, TakeSwap(t), slots[takerKey[t]] = expected[t]
      PROVE  (sets[p] = consumed[p] + dropped[p] + Cardinality(KeysOf(p)))'
  <2>1. takerKey[t] \in Keys /\ expected[t] \in Pointers \cup {Null}
    BY <1>b DEF ZTypeOK
  <2>2. consumed'[p] = consumed[p] + One(expected[t], p)
    BY <1>3, <1>b, <2>1, CountedIs DEF TakeSwap
  <2>3. Cardinality(KeysOf(p))' = Cardinality(KeysOf(p)) - One(expected[t], p) + One(Null, p)
    BY <1>3, <1>b, <2>1, StoreCounts DEF TakeSwap
  <2>4. sets' = sets /\ dropped' = dropped
    BY <1>3 DEF TakeSwap
  <2>5. QED
    BY <2>2, <2>3, <2>4, <1>a, <1>c, <1>d
<1>4. ASSUME UNCHANGED <<slots, sets, consumed, dropped>>
      PROVE  (sets[p] = consumed[p] + dropped[p] + Cardinality(KeysOf(p)))'
  BY <1>4, <1>a DEF KeysOf
<1>5. ASSUME NEW t \in Takers, (\E k \in Keys : TakeLoad(t, k)) \/ TakeSwap(t),
             TakeSwap(t) => slots[takerKey[t]] # expected[t]
      PROVE  UNCHANGED <<slots, sets, consumed, dropped>>
  BY <1>5 DEF TakeLoad, TakeSwap
<1>6. CASE UNCHANGED zvars
  BY <1>4, <1>6 DEF zvars
<1>7. QED
  BY <1>1, <1>2, <1>3, <1>4, <1>5, <1>6 DEF ZNext
-----------------------------------------------------------------------------
\* The slots, and what the takers have loaded, have their types.
THEOREM SlotsTypeCorrect == ZSpec => []ZTypeOK
<1>1. ZInit => ZTypeOK
  BY SlotsInit DEF SlotsInv
<1>2. QED
  BY <1>1, SlotsTypeStep, PTL DEF ZSpec

\* Each pointer that was set has been consumed once, or was overwritten or cleared, or
\* is still in a slot, whatever old values the takers act on (QueueSlot.hpp:28-46).
THEOREM NoPointerTwiceOrLost == ZSpec => []ConsumedOnce
<1>1. SlotsInv /\ [ZNext]_zvars => SlotsInv'
  BY SlotsTypeStep, AccountStep DEF SlotsInv
<1>2. SlotsInv => ConsumedOnce
  BY DEF SlotsInv
<1>3. QED
  BY SlotsInit, <1>1, <1>2, PTL DEF ZSpec
=============================================================================
