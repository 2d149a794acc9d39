----------------------------- MODULE TcpProofs -----------------------------
(***************************************************************************)
(* Proofs about the two TCP clients: TcpAsyncClient, for every number of   *)
(* messages, connects and starts, and TcpSyncClient, for all senders and   *)
(* every number of calls, connections and messages.                        *)
(***************************************************************************)
EXTENDS TcpAsyncClient, TcpSyncClient, SequenceTheorems, NaturalsInduction,
        WellFoundedInduction, TLAPS

-----------------------------------------------------------------------------
(* Sequences and numbers.                                                  *)

\* A sequence in two pieces.
LEMMA TwoPieces ==
  ASSUME NEW S, NEW s \in Seq(S), NEW n \in 0 .. Len(s)
  PROVE  /\ SubSeq(s, 1, n) \in Seq(S) /\ Len(SubSeq(s, 1, n)) = n
         /\ \A i \in 1 .. n : SubSeq(s, 1, n)[i] = s[i]
         /\ SubSeq(s, n + 1, Len(s)) \in Seq(S) /\ Len(SubSeq(s, n + 1, Len(s))) = Len(s) - n
         /\ \A i \in 1 .. Len(s) - n : SubSeq(s, n + 1, Len(s))[i] = s[n + i]
<1>1. Len(s) \in Nat /\ \A i \in 1 .. Len(s) : s[i] \in S
  BY LenProperties, ElementOfSeq
<1>2. \A i \in 1 .. n : s[i] \in S
  BY <1>1
<1>3. \A i \in n + 1 .. Len(s) : s[i] \in S
  BY <1>1
<1>4. 1 \in Int /\ n \in Int /\ n + 1 \in Int /\ Len(s) \in Int
  BY <1>1
<1>5. /\ SubSeq(s, 1, n) \in Seq(S)
      /\ Len(SubSeq(s, 1, n)) = IF 1 <= n THEN n - 1 + 1 ELSE 0
      /\ \A i \in 1 .. n - 1 + 1 : SubSeq(s, 1, n)[i] = s[1 + i - 1]
  BY <1>2, <1>4, SubSeqProperties
<1>6. /\ SubSeq(s, n + 1, Len(s)) \in Seq(S)
      /\ Len(SubSeq(s, n + 1, Len(s))) = IF n + 1 <= Len(s) THEN Len(s) - (n + 1) + 1 ELSE 0
      /\ \A i \in 1 .. Len(s) - (n + 1) + 1 : SubSeq(s, n + 1, Len(s))[i] = s[n + 1 + i - 1]
  BY <1>3, <1>4, SubSeqProperties
<1>7. ASSUME NEW i \in 1 .. n
      PROVE  SubSeq(s, 1, n)[i] = s[i]
  <2>1. 1 + i - 1 = i /\ i \in 1 .. n - 1 + 1
    OBVIOUS
  <2>2. QED
    BY <1>5, <2>1
<1>8. ASSUME NEW i \in 1 .. Len(s) - n
      PROVE  SubSeq(s, n + 1, Len(s))[i] = s[n + i]
  <2>1. n + 1 + i - 1 = n + i /\ i \in 1 .. Len(s) - (n + 1) + 1
    BY <1>1
  <2>2. QED
    BY <1>6, <2>1
<1>9. Len(SubSeq(s, 1, n)) = n /\ Len(SubSeq(s, n + 1, Len(s))) = Len(s) - n
  BY <1>1, <1>5, <1>6
<1>10. QED
  BY <1>5, <1>6, <1>7, <1>8, <1>9

\* There is a first one among some numbers.
LEMMA FirstNumber ==
  ASSUME NEW S \in SUBSET Nat, S # {}
  PROVE  \E m \in S : \A n \in S : m <= n
<1>1. PICK m \in S : \A n \in S : <<n, m>> \notin OpToRel(<, Nat)
  BY NatLessThanWellFounded, WFMin, Zenon
<1>2. \A n \in S : ~(n < m)
  BY <1>1 DEF OpToRel
<1>3. QED
  BY <1>2

\* Halves of numbers.
LEMMA HalfOf ==
  \A k \in Nat : /\ (2 * k + 2) \div 2 = k + 1 /\ (2 * k + 1) % 2 = 1
                 /\ (2 * k + 3) \div 2 = k + 1 /\ (2 * k + 2) % 2 = 0
OBVIOUS

\* Two further on is one message further on.
LEMMA HalfNext ==
  \A i \in Nat : ((i + 2) + 1) \div 2 = (i + 1) \div 2 + 1 /\ (i + 2) % 2 = i % 2
OBVIOUS
-----------------------------------------------------------------------------
(* The asynchronous client.                                                *)

Halves == [message : Messages, last : BOOLEAN]

\* The i-th half of what is sent after the first d messages.
Nth(d, i) == Half(d + (i + 1) \div 2, i % 2 = 0)

\* A message later.
LEMMA NthNext == \A d, i \in Nat : Nth(d, i + 2) = Nth(d + 1, i)
<1> SUFFICES ASSUME NEW d \in Nat, NEW i \in Nat
             PROVE  Nth(d, i + 2) = Nth(d + 1, i)
  OBVIOUS
<1>1. ((i + 2) + 1) \div 2 = (i + 1) \div 2 + 1 /\ (i + 2) % 2 = i % 2
  BY HalfNext
<1>2. (i + 1) \div 2 \in Int
  OBVIOUS
<1>3. d + ((i + 2) + 1) \div 2 = (d + 1) + (i + 1) \div 2
  BY <1>1, <1>2
<1>4. QED
  BY <1>1, <1>3 DEF Nth

\* The halves of message k + 1 of these.
LEMMA NthIs ==
  \A d, k \in Nat : /\ Nth(d, 2 * k + 1) = Half(d + k + 1, FALSE)
                    /\ Nth(d, 2 * k + 2) = Half(d + k + 1, TRUE)
<1> SUFFICES ASSUME NEW d \in Nat, NEW k \in Nat
             PROVE  /\ Nth(d, 2 * k + 1) = Half(d + k + 1, FALSE)
                    /\ Nth(d, 2 * k + 2) = Half(d + k + 1, TRUE)
  OBVIOUS
<1>1. (2 * k + 1) + 1 = 2 * k + 2 /\ (2 * k + 2) + 1 = 2 * k + 3
  OBVIOUS
<1>2. ((2 * k + 1) + 1) \div 2 = k + 1 /\ ((2 * k + 2) + 1) \div 2 = k + 1
  BY <1>1, HalfOf
<1>3. d + ((2 * k + 1) + 1) \div 2 = d + k + 1 /\ d + ((2 * k + 2) + 1) \div 2 = d + k + 1
  BY <1>2
<1>4. ((2 * k + 1) % 2 = 0) = FALSE /\ ((2 * k + 2) % 2 = 0) = TRUE
  BY HalfOf
<1>5. QED
  BY <1>3, <1>4 DEF Nth

\* The first two halves, and no other before them, are those of the next message.
LEMMA NthFirst ==
  ASSUME NEW d \in Nat
  PROVE  /\ Nth(d, 1) = Half(d + 1, FALSE) /\ Nth(d, 2) = Half(d + 1, TRUE)
         /\ \A i \in Nat \ {0} : Nth(d, i).last => 2 <= i
<1>1. 2 * 0 + 1 = 1 /\ 2 * 0 + 2 = 2 /\ d + 0 + 1 = d + 1
  OBVIOUS
<1>2. Nth(d, 1) = Half(d + 1, FALSE) /\ Nth(d, 2) = Half(d + 1, TRUE)
  BY <1>1, NthIs
<1>3. ~Nth(d, 1).last
  BY <1>2 DEF Half
<1>4. ASSUME NEW i \in Nat \ {0}, Nth(d, i).last
      PROVE  2 <= i
  <2>1. i # 1
    BY <1>3, <1>4
  <2>2. QED
    BY <2>1
<1>5. QED
  BY <1>2, <1>4

-----------------------------------------------------------------------------
(* Its control: the flags, operations, threads and calls.                  *)

AFlagsOK ==
  /\ IsEndPointOk \in BOOLEAN /\ isStarted \in BOOLEAN /\ isConnected \in BOOLEAN
  /\ stopFlag \in BOOLEAN /\ hbStopFlag \in BOOLEAN /\ isDone \in BOOLEAN
  /\ lateTimeout \in BOOLEAN /\ consumed \in BOOLEAN /\ disconnects \in BOOLEAN
  /\ stopped \in BOOLEAN /\ abandoned \in BOOLEAN

AOpsOK ==
  /\ socket \in {"closed", "open", "connected"} /\ connectOp \in Ops /\ readOp \in Ops
  /\ connTimer \in {"none", "armed"} /\ hbTimer \in {"none", "armed"}
  /\ waitTimer \in {"none", "armed"}
  /\ request \in {"none", "posted"} /\ beat \in {"none", "posted"}
  /\ connTimer = "armed" => connectOp # "none"

ACallsOK ==
  /\ service \in {"none", "run", "deliver", "ended", "crashed"}
  /\ isStarted = (service # "none")
  /\ app \in {"idle", "do_read", "HeartBeat", "wait", "hbStop", "stop", "join", "close"}
  /\ connects \in 0 .. MaxConnects /\ starts \in 0 .. MaxStarts

\* The socket is closed when there is no service thread, Start and Stop are under way
\* only while there is one, and it is joined after the io_context has been stopped.
AStartOK ==
  /\ app = "close" => service = "none"
  /\ app \in {"do_read", "HeartBeat", "hbStop", "stop", "join"} => service # "none"
  /\ app = "join" => stopped

AControl == AFlagsOK /\ AOpsOK /\ ACallsOK /\ AStartOK

\* The control is as it should be at first.
LEMMA AControlInit == AInit => AControl
<1> SUFFICES ASSUME AInit
             PROVE  AControl
  OBVIOUS
<1>1. 0 \in 0 .. MaxConnects /\ 0 \in 0 .. MaxStarts
  BY BoundsAssumption
<1>2. AFlagsOK /\ AOpsOK
  BY DEF AInit, AFlagsOK, AOpsOK, Ops
<1>3. ACallsOK /\ AStartOK
  BY <1>1 DEF AInit, ACallsOK, AStartOK
<1>4. QED
  BY <1>2, <1>3 DEF AControl

\* An operation that is cancelled is still an operation.
LEMMA AbortedOp ==
  \A op \in Ops : Aborted(op) \in Ops /\ (Aborted(op) = "none" <=> op = "none")
BY DEF Aborted, Ops

\* Every step keeps it so.
LEMMA AControlStep == AControl /\ [ANext]_avars => AControl'
<1> SUFFICES ASSUME AControl, [ANext]_avars
             PROVE  AControl'
  OBVIOUS
<1> USE DEF flagVars, socketVars, timerVars, writeVars, dataVars, appVars, InRun
<1>a. AFlagsOK /\ AOpsOK /\ ACallsOK /\ AStartOK
  BY DEF AControl
<1>1. CASE PeerSends
  <2>1. AFlagsOK'
    BY <1>1, <1>a DEF PeerSends, AFlagsOK
  <2>2. AOpsOK'
    BY <1>1, <1>a DEF PeerSends, AOpsOK
  <2>3. ACallsOK' /\ AStartOK'
    BY <1>1, <1>a DEF PeerSends, AFlagsOK, ACallsOK, AStartOK
  <2>4. QED
    BY <2>1, <2>2, <2>3 DEF AControl
<1>2. CASE ConnectEnds
  <2>1. AFlagsOK'
    BY <1>2, <1>a DEF ConnectEnds, AFlagsOK
  <2>2. AOpsOK'
    BY <1>2, <1>a DEF ConnectEnds, AOpsOK, Ops
  <2>3. ACallsOK' /\ AStartOK'
    BY <1>2, <1>a DEF ConnectEnds, AFlagsOK, ACallsOK, AStartOK
  <2>4. QED
    BY <2>1, <2>2, <2>3 DEF AControl
<1>3. CASE Receive
  <2>1. AFlagsOK'
    BY <1>3, <1>a DEF Receive, AFlagsOK
  <2>2. AOpsOK'
    BY <1>3, <1>a DEF Receive, AOpsOK, Ops
  <2>3. ACallsOK' /\ AStartOK'
    BY <1>3, <1>a DEF Receive, AFlagsOK, ACallsOK, AStartOK
  <2>4. QED
    BY <2>1, <2>2, <2>3 DEF AControl
<1>4. CASE ReadFails
  <2>1. AFlagsOK'
    BY <1>4, <1>a DEF ReadFails, AFlagsOK
  <2>2. AOpsOK'
    BY <1>4, <1>a DEF ReadFails, AOpsOK, Ops
  <2>3. ACallsOK' /\ AStartOK'
    BY <1>4, <1>a DEF ReadFails, AFlagsOK, ACallsOK, AStartOK
  <2>4. QED
    BY <2>1, <2>2, <2>3 DEF AControl
<1>5. CASE ConnTimerExpires
  <2>1. AFlagsOK'
    BY <1>5, <1>a DEF ConnTimerExpires, AFlagsOK
  <2>2. AOpsOK'
    BY <1>5, <1>a DEF ConnTimerExpires, AOpsOK
  <2>3. ACallsOK' /\ AStartOK'
    BY <1>5, <1>a DEF ConnTimerExpires, AFlagsOK, ACallsOK, AStartOK
  <2>4. QED
    BY <2>1, <2>2, <2>3 DEF AControl
<1>6. CASE ConnectTimeout
  <2>1. AFlagsOK'
    BY <1>6, <1>a DEF ConnectTimeout, AFlagsOK
  <2>2. AOpsOK'
    BY <1>6, <1>a, AbortedOp DEF ConnectTimeout, AOpsOK, CancelSocket
  <2>3. ACallsOK' /\ AStartOK'
    BY <1>6, <1>a DEF ConnectTimeout, ThrowIfClosed, AFlagsOK, ACallsOK, AStartOK
  <2>4. QED
    BY <2>1, <2>2, <2>3 DEF AControl
<1>7. CASE Connected
  <2>1. AFlagsOK'
    BY <1>7, <1>a DEF Connected, AFlagsOK
  <2>2. AOpsOK'
    BY <1>7, <1>a DEF Connected, AOpsOK, Ops
  <2>3. ACallsOK' /\ AStartOK'
    BY <1>7, <1>a DEF Connected, AFlagsOK, ACallsOK, AStartOK
  <2>4. QED
    BY <2>1, <2>2, <2>3 DEF AControl
<1>8. CASE ConnectFailed
  <2>1. AFlagsOK'
    BY <1>8, <1>a DEF ConnectFailed, AFlagsOK
  <2>2. AOpsOK'
    BY <1>8, <1>a, AbortedOp DEF ConnectFailed, AOpsOK, Ops
  <2>3. ACallsOK' /\ AStartOK'
    BY <1>8, <1>a DEF ConnectFailed, ThrowIfClosed, AFlagsOK, ACallsOK, AStartOK
  <2>4. QED
    BY <2>1, <2>2, <2>3 DEF AControl
<1>9. CASE ReadError
  <2>1. AFlagsOK'
    BY <1>9, <1>a DEF ReadError, AFlagsOK
  <2>2. AOpsOK'
    BY <1>9, <1>a, AbortedOp DEF ReadError, AOpsOK, Ops
  <2>3. ACallsOK' /\ AStartOK'
    BY <1>9, <1>a DEF ReadError, ThrowIfClosed, AFlagsOK, ACallsOK, AStartOK
  <2>4. QED
    BY <2>1, <2>2, <2>3 DEF AControl
<1>10. CASE ReadDone
  <2>1. AFlagsOK'
    BY <1>10, <1>a DEF ReadDone, AFlagsOK
  <2>2. AOpsOK'
    BY <1>10, <1>a DEF ReadDone, AOpsOK, Ops
  <2>3. ACallsOK' /\ AStartOK'
    BY <1>10, <1>a DEF ReadDone, AFlagsOK, ACallsOK, AStartOK
  <2>4. QED
    BY <2>1, <2>2, <2>3 DEF AControl
<1>11. CASE HeartBeat
  <2>1. AFlagsOK'
    BY <1>11, <1>a DEF HeartBeat, AFlagsOK
  <2>2. AOpsOK'
    BY <1>11, <1>a DEF HeartBeat, AOpsOK
  <2>3. ACallsOK' /\ AStartOK'
    BY <1>11, <1>a DEF HeartBeat, AFlagsOK, ACallsOK, AStartOK
  <2>4. QED
    BY <2>1, <2>2, <2>3 DEF AControl
<1>12. CASE Write
  <2>1. AFlagsOK'
    BY <1>12, <1>a DEF Write, AFlagsOK
  <2>2. AOpsOK'
    BY <1>12, <1>a DEF Write, AOpsOK
  <2>3. ACallsOK' /\ AStartOK'
    BY <1>12, <1>a DEF Write, AFlagsOK, ACallsOK, AStartOK
  <2>4. QED
    BY <2>1, <2>2, <2>3 DEF AControl
<1>13. CASE WaitOver
  <2>1. AFlagsOK'
    BY <1>13, <1>a DEF WaitOver, AFlagsOK
  <2>2. AOpsOK'
    BY <1>13, <1>a DEF WaitOver, AOpsOK
  <2>3. ACallsOK' /\ AStartOK'
    BY <1>13, <1>a DEF WaitOver, AFlagsOK, ACallsOK, AStartOK
  <2>4. QED
    BY <2>1, <2>2, <2>3 DEF AControl
<1>14. CASE DeliverMessage
  <2>1. AFlagsOK'
    BY <1>14, <1>a DEF DeliverMessage, AFlagsOK
  <2>2. AOpsOK'
    BY <1>14, <1>a DEF DeliverMessage, AOpsOK
  <2>3. ACallsOK' /\ AStartOK'
    BY <1>14, <1>a DEF DeliverMessage, AFlagsOK, ACallsOK, AStartOK
  <2>4. QED
    BY <2>1, <2>2, <2>3 DEF AControl
<1>15. CASE Overread
  <2>1. AFlagsOK'
    BY <1>15, <1>a DEF Overread, AFlagsOK
  <2>2. AOpsOK'
    BY <1>15, <1>a DEF Overread, AOpsOK
  <2>3. ACallsOK' /\ AStartOK'
    BY <1>15, <1>a DEF Overread, AFlagsOK, ACallsOK, AStartOK
  <2>4. QED
    BY <2>1, <2>2, <2>3 DEF AControl
<1>16. CASE ReadAgain
  <2>1. AFlagsOK'
    BY <1>16, <1>a DEF ReadAgain, AFlagsOK
  <2>2. AOpsOK'
    BY <1>16, <1>a DEF ReadAgain, AOpsOK, do_read, Ops
  <2>3. ACallsOK' /\ AStartOK'
    BY <1>16, <1>a DEF ReadAgain, AFlagsOK, ACallsOK, AStartOK
  <2>4. QED
    BY <2>1, <2>2, <2>3 DEF AControl
<1>17. CASE ReturnFromRun
  <2>1. AFlagsOK'
    BY <1>17, <1>a DEF ReturnFromRun, AFlagsOK
  <2>2. AOpsOK'
    BY <1>17, <1>a DEF ReturnFromRun, AOpsOK
  <2>3. ACallsOK' /\ AStartOK'
    BY <1>17, <1>a DEF ReturnFromRun, AFlagsOK, ACallsOK, AStartOK
  <2>4. QED
    BY <2>1, <2>2, <2>3 DEF AControl
<1>18. CASE Set
  <2>1. AFlagsOK'
    BY <1>18, <1>a DEF Set, AFlagsOK
  <2>2. AOpsOK'
    BY <1>18, <1>a DEF Set, AOpsOK
  <2>3. ACallsOK' /\ AStartOK'
    BY <1>18, <1>a DEF Set, AFlagsOK, ACallsOK, AStartOK
  <2>4. QED
    BY <2>1, <2>2, <2>3 DEF AControl
<1>19. CASE Connect
  <2>1. AFlagsOK'
    BY <1>19, <1>a DEF Connect, AFlagsOK
  <2>2. AOpsOK'
    BY <1>19, <1>a DEF Connect, AOpsOK, Ops
  <2>3. ACallsOK' /\ AStartOK'
    BY <1>19, <1>a, BoundsAssumption DEF Connect, AFlagsOK, ACallsOK, AStartOK
  <2>4. QED
    BY <2>1, <2>2, <2>3 DEF AControl
<1>20. CASE Connect2
  <2>1. AFlagsOK'
    BY <1>20, <1>a DEF Connect2, AFlagsOK
  <2>2. AOpsOK'
    BY <1>20, <1>a DEF Connect2, AOpsOK
  <2>3. ACallsOK' /\ AStartOK'
    BY <1>20, <1>a, BoundsAssumption DEF Connect2, AFlagsOK, ACallsOK, AStartOK
  <2>4. QED
    BY <2>1, <2>2, <2>3 DEF AControl
<1>21. CASE Start
  <2>1. AFlagsOK'
    BY <1>21, <1>a DEF Start, AFlagsOK
  <2>2. AOpsOK'
    BY <1>21, <1>a DEF Start, AOpsOK
  <2>3. ACallsOK'
    <3>1. starts + 1 \in 0 .. MaxStarts
      BY <1>21, <1>a, BoundsAssumption DEF Start, ACallsOK
    <3>2. QED
      BY <1>21, <1>a, <3>1 DEF Start, ACallsOK
  <2>4. AStartOK'
    BY <1>21, <1>a DEF Start, ACallsOK, AStartOK
  <2>5. QED
    BY <2>1, <2>2, <2>3, <2>4 DEF AControl
<1>22. CASE AsyncWrite
  <2>1. AFlagsOK'
    BY <1>22, <1>a DEF AsyncWrite, AFlagsOK
  <2>2. AOpsOK'
    BY <1>22, <1>a DEF AsyncWrite, AOpsOK
  <2>3. ACallsOK' /\ AStartOK'
    BY <1>22, <1>a DEF AsyncWrite, AFlagsOK, ACallsOK, AStartOK
  <2>4. QED
    BY <2>1, <2>2, <2>3 DEF AControl
<1>23. CASE WaitSeconds
  <2>1. AFlagsOK'
    BY <1>23, <1>a DEF WaitSeconds, AFlagsOK
  <2>2. AOpsOK'
    BY <1>23, <1>a DEF WaitSeconds, AOpsOK
  <2>3. ACallsOK' /\ AStartOK'
    BY <1>23, <1>a DEF WaitSeconds, AFlagsOK, ACallsOK, AStartOK
  <2>4. QED
    BY <2>1, <2>2, <2>3 DEF AControl
<1>24. CASE Stop
  <2>1. AFlagsOK'
    BY <1>24, <1>a DEF Stop, AFlagsOK
  <2>2. AOpsOK'
    BY <1>24, <1>a DEF Stop, AOpsOK
  <2>3. ACallsOK' /\ AStartOK'
    BY <1>24, <1>a DEF Stop, AFlagsOK, ACallsOK, AStartOK
  <2>4. QED
    BY <2>1, <2>2, <2>3 DEF AControl
<1>25. CASE StartReading
  <2>1. AFlagsOK'
    BY <1>25, <1>a DEF StartReading, AFlagsOK
  <2>2. AOpsOK'
    BY <1>25, <1>a DEF StartReading, AOpsOK, do_read, Ops
  <2>3. ACallsOK' /\ AStartOK'
    BY <1>25, <1>a DEF StartReading, AFlagsOK, ACallsOK, AStartOK
  <2>4. QED
    BY <2>1, <2>2, <2>3 DEF AControl
<1>26. CASE StartBeating
  <2>1. AFlagsOK'
    BY <1>26, <1>a DEF StartBeating, AFlagsOK
  <2>2. AOpsOK'
    BY <1>26, <1>a DEF StartBeating, AOpsOK
  <2>3. ACallsOK' /\ AStartOK'
    BY <1>26, <1>a DEF StartBeating, AFlagsOK, ACallsOK, AStartOK
  <2>4. QED
    BY <2>1, <2>2, <2>3 DEF AControl
<1>27. CASE StopHeartBeat
  <2>1. AFlagsOK'
    BY <1>27, <1>a DEF StopHeartBeat, AFlagsOK
  <2>2. AOpsOK'
    BY <1>27, <1>a DEF StopHeartBeat, AOpsOK
  <2>3. ACallsOK' /\ AStartOK'
    BY <1>27, <1>a DEF StopHeartBeat, AFlagsOK, ACallsOK, AStartOK
  <2>4. QED
    BY <2>1, <2>2, <2>3 DEF AControl
<1>28. CASE StopContext
  <2>1. AFlagsOK'
    BY <1>28, <1>a DEF StopContext, AFlagsOK
  <2>2. AOpsOK'
    BY <1>28, <1>a DEF StopContext, AOpsOK
  <2>3. ACallsOK' /\ AStartOK'
    BY <1>28, <1>a DEF StopContext, AFlagsOK, ACallsOK, AStartOK
  <2>4. QED
    BY <2>1, <2>2, <2>3 DEF AControl
<1>29. CASE JoinService
  <2>1. AFlagsOK'
    BY <1>29, <1>a DEF JoinService, AFlagsOK
  <2>2. AOpsOK'
    BY <1>29, <1>a DEF JoinService, AOpsOK
  <2>3. ACallsOK' /\ AStartOK'
    BY <1>29, <1>a DEF JoinService, AFlagsOK, ACallsOK, AStartOK
  <2>4. QED
    BY <2>1, <2>2, <2>3 DEF AControl
<1>30. CASE CloseSocket
  <2>1. AFlagsOK'
    BY <1>30, <1>a DEF CloseSocket, AFlagsOK
  <2>2. AOpsOK'
    BY <1>30, <1>a, AbortedOp DEF CloseSocket, AOpsOK, CancelSocket
  <2>3. ACallsOK' /\ AStartOK'
    BY <1>30, <1>a DEF CloseSocket, AFlagsOK, ACallsOK, AStartOK
  <2>4. QED
    BY <2>1, <2>2, <2>3 DEF AControl
<1>31. CASE UNCHANGED avars
  BY <1>31, <1>a DEF avars, AControl, AFlagsOK, AOpsOK, ACallsOK, AStartOK
<1>32. QED
  BY <1>1, <1>2, <1>3, <1>4, <1>5, <1>6, <1>7, <1>8, <1>9, <1>10, <1>11, <1>12, <1>13, <1>14, <1>15, <1>16, <1>17, <1>18, <1>19, <1>20, <1>21, <1>22, <1>23, <1>24, <1>25, <1>26, <1>27, <1>28, <1>29, <1>30, <1>31
     DEF ANext, Handlers, Deliver, AppStep

-----------------------------------------------------------------------------
(* What it has received and delivered.                                     *)

ADataOK ==
  /\ sent \in 0 .. MaxMessages
  /\ net \in Seq(Halves) /\ recvBuf \in Seq(Halves)
  /\ Len(net) <= 2 * sent
  /\ delivered \in Seq(0 .. MaxMessages + 1)

\* The search has run past the end of the buffer.
RanPast == \E i \in 1 .. Len(delivered) : delivered[i] = Garbled

\* Nothing will be delivered any more.
Over == stopped /\ service # "deliver"

\* The buffer, and after it the socket, hold what has been sent and not yet delivered.
StreamOK ==
  /\ Len(recvBuf) + Len(net) = 2 * (sent - Len(delivered))
  /\ \A i \in 1 .. Len(recvBuf) : recvBuf[i] = Nth(Len(delivered), i)
  /\ \A i \in 1 .. Len(net) : net[i] = Nth(Len(delivered), Len(recvBuf) + i)

InOrder == \A i \in 1 .. Len(delivered) : delivered[i] = i

ADataInv ==
  /\ ADataOK
  /\ RanPast \/ InOrder
  /\ RanPast \/ Over \/ StreamOK
  /\ service = "none" /\ ~stopped => readOp = "none" /\ recvBuf = << >> /\ delivered = << >>

\* Nothing has been received or sent at first.
LEMMA ADataInit == AInit => ADataInv
<1> SUFFICES ASSUME AInit
             PROVE  ADataInv
  OBVIOUS
<1>1. /\ << >> \in Seq(Halves) /\ << >> \in Seq(0 .. MaxMessages + 1)
      /\ Len(<< >>) = 0 /\ 0 \in 0 .. MaxMessages
  BY EmptySeq, BoundsAssumption
<1>2. net = << >> /\ recvBuf = << >> /\ delivered = << >> /\ sent = 0 /\ readOp = "none"
  BY DEF AInit
<1>3. ADataOK
  BY <1>1, <1>2 DEF ADataOK
<1>4. InOrder /\ StreamOK
  BY <1>1, <1>2 DEF InOrder, StreamOK
<1>5. QED
  BY <1>2, <1>3, <1>4 DEF ADataInv

\* The lengths are numbers, and the elements are those of the sets.
LEMMA ADataTypes ==
  ASSUME ADataOK
  PROVE  /\ Len(net) \in Nat /\ Len(recvBuf) \in Nat /\ Len(delivered) \in Nat
         /\ sent \in Nat /\ MaxMessages \in Nat
         /\ \A i \in 1 .. Len(recvBuf) : recvBuf[i] \in Halves
         /\ \A i \in 1 .. Len(net) : net[i] \in Halves
         /\ DOMAIN recvBuf = 1 .. Len(recvBuf)
BY LenProperties, ElementOfSeq, BoundsAssumption DEF ADataOK

\* A step that receives, delivers and sends nothing.
LEMMA ADataQuiet ==
  ASSUME ADataInv, UNCHANGED <<sent, net, recvBuf, delivered>>, Over => Over',
         service' = "none" /\ ~stopped' => service = "none" /\ ~stopped /\ readOp' = readOp
  PROVE  ADataInv'
BY DEF ADataInv, ADataOK, RanPast, InOrder, StreamOK

\* The peer sends the halves that come next.
LEMMA SendKeeps == ASSUME ADataInv, PeerSends PROVE ADataInv'
<1> DEFINE first == Half(sent + 1, FALSE)
           second == Half(sent + 1, TRUE)
<1>a. ADataOK /\ (RanPast \/ InOrder) /\ (RanPast \/ Over \/ StreamOK)
  BY DEF ADataInv
<1>b. /\ Len(net) \in Nat /\ Len(recvBuf) \in Nat /\ Len(delivered) \in Nat
      /\ sent \in Nat /\ MaxMessages \in Nat
  BY <1>a, ADataTypes
<1>1. /\ sent' = sent + 1 /\ net' = net \o <<first, second>> /\ sent < MaxMessages
      /\ UNCHANGED <<recvBuf, delivered, stopped, service, readOp>>
  BY DEF PeerSends, appVars, socketVars
<1>2. first \in Halves /\ second \in Halves
  BY <1>b, <1>1 DEF Halves, Half, Messages
<1> HIDE DEF first, second
<1>3. <<first, second>> \in Seq(Halves) /\ Len(<<first, second>>) = 2
      /\ <<first, second>>[1] = first /\ <<first, second>>[2] = second
  BY <1>2
<1>4. /\ net' \in Seq(Halves) /\ Len(net') = Len(net) + 2
      /\ \A i \in 1 .. Len(net) + 2 :
           net'[i] = IF i <= Len(net) THEN net[i] ELSE <<first, second>>[i - Len(net)]
  BY <1>a, <1>1, <1>3, ConcatProperties DEF ADataOK
<1>5. ADataOK'
  <2>1. sent' \in 0 .. MaxMessages
    BY <1>b, <1>1
  <2>2. Len(net') <= 2 * sent'
    BY <1>a, <1>b, <1>1, <1>4 DEF ADataOK
  <2>3. QED
    BY <1>a, <1>1, <1>4, <2>1, <2>2 DEF ADataOK
<1>6. ASSUME StreamOK
      PROVE  StreamOK'
  <2> DEFINE k == sent - Len(delivered)
  <2>1. k \in Nat /\ Len(recvBuf) + Len(net) = 2 * k /\ Len(delivered) + k + 1 = sent + 1
    BY <1>b, <1>6 DEF StreamOK
  <2> HIDE DEF k
  <2>2. Nth(Len(delivered), 2 * k + 1) = first /\ Nth(Len(delivered), 2 * k + 2) = second
    <3>1. /\ Nth(Len(delivered), 2 * k + 1) = Half(Len(delivered) + k + 1, FALSE)
          /\ Nth(Len(delivered), 2 * k + 2) = Half(Len(delivered) + k + 1, TRUE)
      BY <1>b, <2>1, NthIs
    <3>2. QED
      BY <2>1, <3>1 DEF first, second
  <2>3. ASSUME NEW i \in 1 .. Len(net')
        PROVE  net'[i] = Nth(Len(delivered), Len(recvBuf) + i)
    <3>1. CASE i <= Len(net)
      BY <1>4, <1>6, <3>1 DEF StreamOK
    <3>2. CASE i = Len(net) + 1
      <4>1. i - Len(net) = 1 /\ Len(recvBuf) + i = 2 * k + 1 /\ ~(i <= Len(net))
            /\ i \in 1 .. Len(net) + 2
        BY <1>b, <2>1, <3>2
      <4>2. QED
        BY <1>3, <1>4, <2>2, <4>1
    <3>3. CASE i = Len(net) + 2
      <4>1. i - Len(net) = 2 /\ Len(recvBuf) + i = 2 * k + 2 /\ ~(i <= Len(net))
            /\ i \in 1 .. Len(net) + 2
        BY <1>b, <2>1, <3>3
      <4>2. QED
        BY <1>3, <1>4, <2>2, <4>1
    <3>4. QED
      BY <1>b, <1>4, <3>1, <3>2, <3>3
  <2>4. Len(recvBuf) + Len(net') = 2 * (sent' - Len(delivered))
    <3>1. Len(recvBuf) + (Len(net) + 2) = 2 * ((sent + 1) - Len(delivered))
      BY <1>b, <2>1
    <3>2. QED
      BY <1>1, <1>4, <3>1
  <2>5. QED
    BY <1>1, <1>6, <2>3, <2>4 DEF StreamOK
<1>7. QED
  BY <1>a, <1>1, <1>5, <1>6 DEF ADataInv, RanPast, InOrder, Over

\* Some of the halves go from the socket into the buffer.
LEMMA ReceiveKeeps == ASSUME ADataInv, Receive PROVE ADataInv'
<1>a. ADataOK /\ (RanPast \/ InOrder) /\ (RanPast \/ Over \/ StreamOK)
  BY DEF ADataInv
<1>b. Len(net) \in Nat /\ Len(recvBuf) \in Nat /\ Len(delivered) \in Nat /\ sent \in Nat
  BY <1>a, ADataTypes
<1>1. PICK n \in 1 .. Len(net) : /\ recvBuf' = recvBuf \o SubSeq(net, 1, n)
                                 /\ net' = SubSeq(net, n + 1, Len(net))
  BY DEF Receive
<1>2. UNCHANGED <<sent, delivered, stopped, service>> /\ readOp = "pending"
  BY DEF Receive, appVars
<1>3. n \in 0 .. Len(net) /\ n \in Nat /\ n <= Len(net)
  BY <1>b, <1>1
<1> DEFINE came == SubSeq(net, 1, n)
<1>4. /\ came \in Seq(Halves) /\ Len(came) = n
      /\ \A i \in 1 .. n : came[i] = net[i]
      /\ net' \in Seq(Halves) /\ Len(net') = Len(net) - n
      /\ \A i \in 1 .. Len(net) - n : net'[i] = net[n + i]
  BY <1>a, <1>1, <1>3, TwoPieces DEF ADataOK
<1>5. /\ recvBuf' \in Seq(Halves) /\ Len(recvBuf') = Len(recvBuf) + n
      /\ \A i \in 1 .. Len(recvBuf) + n :
           recvBuf'[i] = IF i <= Len(recvBuf) THEN recvBuf[i] ELSE came[i - Len(recvBuf)]
  BY <1>a, <1>1, <1>4, ConcatProperties DEF ADataOK
<1>6. ADataOK'
  BY <1>a, <1>b, <1>2, <1>3, <1>4, <1>5 DEF ADataOK
<1>7. ASSUME StreamOK
      PROVE  StreamOK'
  <2>1. ASSUME NEW i \in 1 .. Len(recvBuf')
        PROVE  recvBuf'[i] = Nth(Len(delivered), i)
    <3>1. CASE i <= Len(recvBuf)
      <4>1. i \in 1 .. Len(recvBuf) /\ i \in 1 .. Len(recvBuf) + n
        BY <1>b, <1>5, <3>1
      <4>2. QED
        BY <1>5, <1>7, <3>1, <4>1 DEF StreamOK
    <3>2. CASE ~(i <= Len(recvBuf))
      <4>1. /\ i - Len(recvBuf) \in 1 .. n /\ i - Len(recvBuf) \in 1 .. Len(net)
            /\ Len(recvBuf) + (i - Len(recvBuf)) = i /\ i \in 1 .. Len(recvBuf) + n
        BY <1>b, <1>3, <1>5, <3>2
      <4>2. recvBuf'[i] = net[i - Len(recvBuf)]
        BY <1>4, <1>5, <3>2, <4>1
      <4>3. net[i - Len(recvBuf)] = Nth(Len(delivered), Len(recvBuf) + (i - Len(recvBuf)))
        BY <1>7, <4>1 DEF StreamOK
      <4>4. QED
        BY <4>1, <4>2, <4>3
    <3>3. QED
      BY <3>1, <3>2
  <2>2. ASSUME NEW i \in 1 .. Len(net')
        PROVE  net'[i] = Nth(Len(delivered), Len(recvBuf') + i)
    <3>1. /\ i \in 1 .. Len(net) - n /\ n + i \in 1 .. Len(net)
          /\ Len(recvBuf) + (n + i) = Len(recvBuf') + i
      BY <1>b, <1>3, <1>4, <1>5
    <3>2. net'[i] = net[n + i]
      BY <1>4, <3>1
    <3>3. net[n + i] = Nth(Len(delivered), Len(recvBuf) + (n + i))
      BY <1>7, <3>1 DEF StreamOK
    <3>4. QED
      BY <3>1, <3>2, <3>3
  <2>3. Len(recvBuf') + Len(net') = 2 * (sent - Len(delivered))
    <3>1. Len(recvBuf) + Len(net) = 2 * (sent - Len(delivered))
      BY <1>7 DEF StreamOK
    <3>2. (Len(recvBuf) + n) + (Len(net) - n) = Len(recvBuf) + Len(net)
      BY <1>b, <1>3
    <3>3. QED
      BY <1>4, <1>5, <3>1, <3>2
  <2>4. QED
    BY <1>2, <2>1, <2>2, <2>3 DEF StreamOK
<1>8. (RanPast \/ InOrder)' /\ (RanPast \/ Over \/ StreamOK)'
  BY <1>a, <1>2, <1>7 DEF RanPast, InOrder, Over
<1>9. ~(service' = "none" /\ ~stopped')
  BY <1>2 DEF ADataInv
<1>10. QED
  BY <1>6, <1>8, <1>9 DEF ADataInv

\* There is a first delimiter where there is any.
LEMMA PosIs ==
  ASSUME ADataOK, Delimiters # {}
  PROVE  /\ pos \in 1 .. Len(recvBuf) /\ recvBuf[pos].last
         /\ \A j \in Delimiters : pos <= j
<1>1. Delimiters \subseteq 1 .. Len(recvBuf) /\ Delimiters \in SUBSET Nat
  BY ADataTypes DEF Delimiters
<1>2. \E i \in Delimiters : \A j \in Delimiters : i <= j
  BY <1>1, FirstNumber, Zenon
<1>3. pos \in Delimiters /\ \A j \in Delimiters : pos <= j
  BY <1>2, Zenon DEF pos
<1>4. QED
  BY <1>1, <1>3 DEF Delimiters

\* A message is delivered: the next one, whole.
LEMMA DeliverKeeps == ASSUME ADataInv, DeliverMessage PROVE ADataInv'
<1> DEFINE it == IF pos = 2 THEN recvBuf[1].message ELSE Broken
<1>a. ADataOK /\ (RanPast \/ InOrder) /\ (RanPast \/ Over \/ StreamOK)
  BY DEF ADataInv
<1>b. /\ Len(net) \in Nat /\ Len(recvBuf) \in Nat /\ Len(delivered) \in Nat
      /\ sent \in Nat /\ MaxMessages \in Nat
      /\ \A i \in 1 .. Len(recvBuf) : recvBuf[i] \in Halves
      /\ DOMAIN recvBuf = 1 .. Len(recvBuf)
  BY <1>a, ADataTypes
<1>1. /\ delivered' = Append(delivered, it)
      /\ recvBuf' = SubSeq(recvBuf, pos + 1, Len(recvBuf))
      /\ Delimiters # {} /\ service = "deliver"
      /\ UNCHANGED <<sent, net, stopped, service, readOp>>
  BY DEF DeliverMessage, appVars, socketVars
<1>2. /\ pos \in 1 .. Len(recvBuf) /\ recvBuf[pos].last
      /\ \A j \in Delimiters : pos <= j
  BY <1>a, <1>1, PosIs
<1>3. it \in 0 .. MaxMessages + 1
  <2>1. CASE pos = 2
    <3>1. recvBuf[1] \in Halves
      BY <1>b, <1>2, <2>1
    <3>2. QED
      BY <1>b, <2>1, <3>1 DEF Halves, Messages
  <2>2. CASE pos # 2
    BY <1>b, <2>2 DEF Broken
  <2>3. QED
    BY <2>1, <2>2
<1>4. /\ recvBuf' \in Seq(Halves) /\ Len(recvBuf') = Len(recvBuf) - pos
      /\ \A i \in 1 .. Len(recvBuf) - pos : recvBuf'[i] = recvBuf[pos + i]
  <2>1. pos \in 0 .. Len(recvBuf)
    BY <1>2
  <2>2. QED
    BY <1>a, <1>1, <2>1, TwoPieces DEF ADataOK
<1>5. /\ delivered' \in Seq(0 .. MaxMessages + 1)
      /\ Len(delivered') = Len(delivered) + 1
      /\ delivered'[Len(delivered) + 1] = it
      /\ \A i \in 1 .. Len(delivered) : delivered'[i] = delivered[i]
  BY <1>a, <1>1, <1>3, AppendProperties DEF ADataOK
<1>6. ADataOK'
  BY <1>a, <1>1, <1>4, <1>5 DEF ADataOK
<1>7. CASE RanPast
  <2>1. RanPast'
    BY <1>b, <1>5, <1>7 DEF RanPast
  <2>2. QED
    BY <1>1, <1>6, <2>1 DEF ADataInv
<1>8. CASE ~RanPast
  <2>1. StreamOK /\ InOrder
    BY <1>a, <1>1, <1>8 DEF Over
  <2> DEFINE d == Len(delivered)
  <2>2. /\ Nth(d, 1) = Half(d + 1, FALSE) /\ Nth(d, 2) = Half(d + 1, TRUE)
        /\ \A i \in Nat \ {0} : Nth(d, i).last => 2 <= i
    BY <1>b, NthFirst
  <2>3. pos = 2
    <3>1. recvBuf[pos] = Nth(d, pos) /\ pos \in Nat \ {0}
      BY <1>b, <1>2, <2>1 DEF StreamOK
    <3>2. 2 <= pos
      BY <1>2, <2>2, <3>1
    <3>3. 2 \in 1 .. Len(recvBuf)
      BY <1>b, <1>2, <3>2
    <3>4. recvBuf[2] = Half(d + 1, TRUE)
      BY <2>1, <2>2, <3>3 DEF StreamOK
    <3>5. 2 \in Delimiters
      BY <1>b, <3>3, <3>4 DEF Delimiters, Half
    <3>6. QED
      BY <1>2, <3>2, <3>5
  <2>4. it = d + 1
    <3>1. 1 \in 1 .. Len(recvBuf)
      BY <1>b, <1>2
    <3>2. recvBuf[1] = Half(d + 1, FALSE)
      BY <2>1, <2>2, <3>1 DEF StreamOK
    <3>3. QED
      BY <2>3, <3>2 DEF Half
  <2>5. InOrder'
    BY <1>b, <1>5, <2>1, <2>4 DEF InOrder
  <2>6. ASSUME NEW i \in 1 .. Len(recvBuf')
        PROVE  recvBuf'[i] = Nth(d + 1, i)
    <3>1. /\ i \in Nat /\ i \in 1 .. Len(recvBuf) - 2
          /\ i + 2 \in 1 .. Len(recvBuf) /\ 2 + i = i + 2
      BY <1>b, <1>2, <1>4, <2>3
    <3>2. recvBuf'[i] = recvBuf[i + 2]
      BY <1>4, <2>3, <3>1
    <3>3. recvBuf[i + 2] = Nth(d, i + 2)
      BY <2>1, <3>1 DEF StreamOK
    <3>4. QED
      BY <1>b, <3>1, <3>2, <3>3, NthNext
  <2>7. ASSUME NEW i \in 1 .. Len(net)
        PROVE  net[i] = Nth(d + 1, Len(recvBuf') + i)
    <3>1. Len(recvBuf') + i \in Nat /\ Len(recvBuf) + i = (Len(recvBuf') + i) + 2
      BY <1>b, <1>2, <1>4, <2>3
    <3>2. net[i] = Nth(d, (Len(recvBuf') + i) + 2)
      BY <2>1, <3>1 DEF StreamOK
    <3>3. QED
      BY <1>b, <3>1, <3>2, NthNext
  <2>8. Len(recvBuf') + Len(net) = 2 * (sent - (d + 1))
    BY <1>b, <1>4, <2>1, <2>3 DEF StreamOK
  <2>9. StreamOK'
    BY <1>1, <1>5, <2>6, <2>7, <2>8 DEF StreamOK
  <2>10. QED
    BY <1>1, <1>6, <2>5, <2>9 DEF ADataInv
<1>9. QED
  BY <1>7, <1>8

\* The search runs past the end of the buffer.
LEMMA OverreadKeeps == ASSUME ADataInv, Overread PROVE ADataInv'
<1>1. /\ delivered' = Append(delivered, Garbled) /\ recvBuf' = << >> /\ service = "deliver"
      /\ UNCHANGED <<sent, net, service>>
  BY DEF Overread
<1>2. ADataOK /\ Garbled \in 0 .. MaxMessages + 1 /\ << >> \in Seq(Halves)
      /\ Len(delivered) \in Nat
  BY ADataTypes, EmptySeq DEF ADataInv, Garbled
<1>3. /\ delivered' \in Seq(0 .. MaxMessages + 1)
      /\ Len(delivered') = Len(delivered) + 1
      /\ delivered'[Len(delivered) + 1] = Garbled
  BY <1>1, <1>2, AppendProperties DEF ADataOK
<1>4. RanPast'
  BY <1>2, <1>3 DEF RanPast
<1>5. ADataOK'
  BY <1>1, <1>2, <1>3 DEF ADataOK
<1>6. QED
  BY <1>1, <1>4, <1>5 DEF ADataInv

\* The socket is closed before anything was received, or after the last delivery.
LEMMA CloseKeepsData == ASSUME AControl, ADataInv, CloseSocket PROVE ADataInv'
<1>1. /\ sent' = 0 /\ net' = << >> /\ service = "none"
      /\ readOp' = Aborted(readOp)
      /\ UNCHANGED <<recvBuf, delivered, stopped, service>>
  BY DEF CloseSocket, CancelSocket, AControl, AStartOK
<1>2. << >> \in Seq(Halves) /\ Len(<< >>) = 0 /\ 0 \in 0 .. MaxMessages
  BY EmptySeq, BoundsAssumption
<1>3. ADataOK'
  BY <1>1, <1>2 DEF ADataInv, ADataOK
<1>4. CASE stopped
  BY <1>1, <1>3, <1>4 DEF ADataInv, RanPast, InOrder, Over
<1>5. CASE ~stopped
  <2>1. recvBuf = << >> /\ delivered = << >> /\ readOp = "none"
    BY <1>1, <1>5 DEF ADataInv
  <2>2. StreamOK' /\ InOrder'
    BY <1>1, <1>2, <2>1 DEF StreamOK, InOrder
  <2>3. readOp' = "none"
    BY <1>1, <2>1 DEF Aborted
  <2>4. QED
    BY <1>1, <1>3, <2>1, <2>2, <2>3 DEF ADataInv
<1>6. QED
  BY <1>4, <1>5

\* Every step keeps what is received and delivered in order.
LEMMA ADataStep == AControl /\ ADataInv /\ [ANext]_avars => ADataInv'
<1> SUFFICES ASSUME AControl, ADataInv, [ANext]_avars
             PROVE  ADataInv'
  OBVIOUS
<1> USE DEF flagVars, socketVars, timerVars, writeVars, dataVars, appVars, InRun
<1>1. CASE PeerSends \/ Receive \/ DeliverMessage \/ Overread \/ CloseSocket
  BY <1>1, SendKeeps, ReceiveKeeps, DeliverKeeps, OverreadKeeps, CloseKeepsData
<1>2. CASE ConnectEnds \/ ReadFails
  <2>1. UNCHANGED <<sent, net, recvBuf, delivered, stopped, service>>
        /\ (UNCHANGED readOp \/ readOp = "pending")
    BY <1>2 DEF ConnectEnds, ReadFails
  <2>2. QED
    BY <2>1, ADataQuiet DEF Over, ADataInv
<1>3. CASE Handlers
  <2>1. /\ UNCHANGED <<sent, net, recvBuf, delivered, stopped>> /\ ~stopped /\ service = "run"
        /\ service' # "none"
    BY <1>3 DEF Handlers, ConnTimerExpires, ConnectTimeout, Connected, ConnectFailed, ReadError,
                ReadDone, HeartBeat, Write, WaitOver, ThrowIfClosed
  <2>2. QED
    BY <2>1, ADataQuiet DEF Over
<1>4. CASE ReadAgain \/ ReturnFromRun
  <2>1. UNCHANGED <<sent, net, recvBuf, delivered, stopped>> /\ service' \in {"run", "ended"}
    BY <1>4 DEF ReadAgain, ReturnFromRun
  <2>2. QED
    BY <2>1, ADataQuiet DEF Over
<1>5. CASE Set \/ Connect \/ Connect2 \/ AsyncWrite \/ WaitSeconds \/ Stop
           \/ StartBeating \/ StopHeartBeat
  <2>1. UNCHANGED <<sent, net, recvBuf, delivered, stopped, service, readOp>>
    BY <1>5 DEF Set, Connect, Connect2, AsyncWrite, WaitSeconds, Stop, StartBeating, StopHeartBeat
  <2>2. QED
    BY <2>1, ADataQuiet DEF Over
<1>6. CASE Start
  <2>1. UNCHANGED <<sent, net, recvBuf, delivered, stopped, readOp>>
        /\ (service' = "run" \/ UNCHANGED service)
    BY <1>6 DEF Start
  <2>2. QED
    BY <2>1, ADataQuiet DEF Over
<1>7. CASE StartReading
  <2>1. UNCHANGED <<sent, net, recvBuf, delivered, stopped, service>> /\ service # "none"
    BY <1>7 DEF StartReading, AControl, AStartOK
  <2>2. QED
    BY <2>1, ADataQuiet DEF Over
<1>8. CASE StopContext
  <2>1. UNCHANGED <<sent, net, recvBuf, delivered, service>> /\ stopped'
    BY <1>8 DEF StopContext
  <2>2. QED
    BY <2>1, ADataQuiet DEF Over
<1>9. CASE JoinService
  <2>1. UNCHANGED <<sent, net, recvBuf, delivered, stopped>> /\ stopped /\ service' = "none"
    BY <1>9 DEF JoinService, AControl, AStartOK
  <2>2. QED
    BY <2>1, ADataQuiet DEF Over
<1>10. CASE UNCHANGED avars
  <2>1. UNCHANGED <<sent, net, recvBuf, delivered, stopped, service, readOp>>
    BY <1>10 DEF avars
  <2>2. QED
    BY <2>1, ADataQuiet DEF Over
<1>11. QED
  BY <1>1, <1>2, <1>3, <1>4, <1>5, <1>6, <1>7, <1>8, <1>9, <1>10 DEF ANext, Deliver, AppStep

\* An operation on a closed socket that a handler may still see is an attempt to connect
\* that has lost it.  (The io_context runs at most once, so that a socket closed after
\* it is seen by no handler; before it there was no read and no expired timer.)
ALostInv ==
  /\ service = "none" /\ ~stopped => ~lateTimeout
  /\ socket = "closed" /\ ~stopped /\ (connectOp # "none" \/ readOp # "none" \/ lateTimeout)
       => abandoned
  /\ ~Alive => abandoned

\* Every step keeps that.
LEMMA ALostStep == AControl /\ ADataInv /\ ALostInv /\ [ANext]_avars => ALostInv'
<1> SUFFICES ASSUME AControl, ADataInv, ALostInv, [ANext]_avars
             PROVE  ALostInv'
  OBVIOUS
<1> USE DEF flagVars, socketVars, timerVars, writeVars, dataVars, appVars, InRun, Alive
<1>a. AFlagsOK /\ AOpsOK /\ ACallsOK /\ AStartOK
  BY DEF AControl
<1>b. service = "none" /\ ~stopped => readOp = "none"
  BY DEF ADataInv
<1>1. CASE \/ PeerSends \/ Receive \/ ReadFails \/ DeliverMessage \/ Overread \/ ReadDone
           \/ HeartBeat \/ Write \/ WaitOver \/ Connected \/ ConnectEnds
  BY <1>1, <1>a, AbortedOp
     DEF ALostInv, PeerSends, Receive, ReadFails, DeliverMessage, Overread, ReadDone, HeartBeat,
         Write, WaitOver, Connected, ConnectEnds, AOpsOK
<1>2. CASE ConnTimerExpires
  BY <1>2, <1>a DEF ALostInv, ConnTimerExpires, AOpsOK
<1>3. CASE ConnectTimeout \/ ConnectFailed \/ ReadError
  BY <1>3, <1>a, AbortedOp
     DEF ALostInv, ConnectTimeout, ConnectFailed, ReadError, CancelSocket, ThrowIfClosed, AOpsOK
<1>4. CASE ReadAgain \/ StartReading
  BY <1>4, <1>a DEF ALostInv, ReadAgain, StartReading, do_read, AStartOK
<1>5. CASE Connect \/ Connect2
  <2>1. CASE Connect
    <3>1. UNCHANGED <<readOp, lateTimeout, stopped, service>>
      BY <2>1 DEF Connect
    <3>2. abandoned \/ socket' = "closed" => abandoned'
      BY <2>1 DEF Connect
    <3>3. QED
      BY <3>1, <3>2 DEF ALostInv
  <2>2. CASE Connect2
    <3>1. UNCHANGED <<connectOp, readOp, lateTimeout, stopped, abandoned, service>>
          /\ (socket' = "closed" => socket = "closed")
      BY <2>2, <1>a DEF Connect2, AOpsOK
    <3>2. QED
      BY <3>1 DEF ALostInv
  <2>3. QED
    BY <1>5, <2>1, <2>2
<1>6. CASE \/ Set \/ Start \/ StartBeating \/ AsyncWrite \/ WaitSeconds \/ Stop \/ StopHeartBeat
           \/ StopContext \/ ReturnFromRun
  BY <1>6, <1>a
     DEF ALostInv, Set, Start, StartBeating, AsyncWrite, WaitSeconds, Stop, StopHeartBeat,
         StopContext, ReturnFromRun
<1>7. CASE JoinService
  BY <1>7, <1>a DEF ALostInv, JoinService, AStartOK
<1>8. CASE CloseSocket
  BY <1>8, <1>a, <1>b, AbortedOp DEF ALostInv, CloseSocket, CancelSocket, AOpsOK, AStartOK
<1>9. CASE UNCHANGED avars
  BY <1>9 DEF avars, ALostInv
<1>10. QED
  BY <1>1, <1>2, <1>3, <1>4, <1>5, <1>6, <1>7, <1>8, <1>9 DEF ANext, Handlers, Deliver, AppStep

\* All three are invariants of the asynchronous client.
THEOREM AsyncInvariant == ASpec => [](AControl /\ ADataInv /\ ALostInv)
<1>1. AInit => AControl /\ ADataInv /\ ALostInv
  <2>1. AInit => ALostInv
    BY DEF AInit, ALostInv, Alive
  <2>2. QED
    BY <2>1, AControlInit, ADataInit
<1>2. (AControl /\ ADataInv /\ ALostInv) /\ [ANext]_avars => (AControl /\ ADataInv /\ ALostInv)'
  BY AControlStep, ADataStep, ALostStep
<1>3. QED
  BY <1>1, <1>2, PTL DEF ASpec

\* The state of the client has its type: it is started exactly while it has a service
\* thread, and the time limit runs only while there is an attempt to connect
\* (TcpAsyncClient.cpp:151-163, 202-229, 360-378, 405-407).
THEOREM AsyncTypeCorrect == ASpec => []ATypeOK
<1>1. AControl /\ ADataInv => ATypeOK
  <2> SUFFICES ASSUME AControl, ADataInv
               PROVE  ATypeOK
    OBVIOUS
  <2>1. ADataOK
    BY DEF ADataInv
  <2>2. \A h \in ToSet(net) \cup ToSet(recvBuf) : h \in Halves
    BY <2>1, LenProperties, ElementOfSeq DEF ToSet, ADataOK
  <2>3. ToSet(delivered) \subseteq Messages \cup {Broken, Garbled}
    <3>1. \A i \in DOMAIN delivered : delivered[i] \in 0 .. MaxMessages + 1
      BY <2>1, LenProperties, ElementOfSeq DEF ADataOK
    <3>2. 0 .. MaxMessages + 1 \subseteq Messages \cup {Broken, Garbled}
      BY BoundsAssumption DEF Messages, Broken, Garbled
    <3>3. QED
      BY <3>1, <3>2 DEF ToSet
  <2>4. AFlagsOK /\ AOpsOK /\ ACallsOK
    BY DEF AControl
  <2>5. QED
    BY <2>1, <2>2, <2>3, <2>4 DEF ADataOK, AFlagsOK, AOpsOK, ACallsOK, Halves, ATypeOK
<1>2. QED
  BY AsyncInvariant, <1>1, PTL

\* No exception leaves the service thread but for an attempt to connect that has lost
\* its socket, however the calls, the handlers and the system interleave
\* (TcpAsyncClient.cpp:37-41, 68, 210, 222, 246-250, 371).
THEOREM OnlyLostAttemptsEndTheProgram == ASpec => []OnlyLostAttemptsThrow
<1>1. ALostInv => OnlyLostAttemptsThrow
  BY DEF ALostInv, OnlyLostAttemptsThrow
<1>2. QED
  BY AsyncInvariant, <1>1, PTL

\* Messages are delivered as they were sent, none left out and none twice, in whatever
\* pieces they arrive, until the search runs past the end of the buffer
\* (TcpAsyncClient.cpp:73-88).
THEOREM MessagesInOrder == ASpec => []DeliveredInOrder
<1>1. ADataInv => DeliveredInOrder
  <2> SUFFICES ASSUME ADataInv
               PROVE  DeliveredInOrder
    OBVIOUS
  <2>1. DOMAIN delivered = 1 .. Len(delivered)
    BY LenProperties DEF ADataInv, ADataOK
  <2>2. QED
    BY <2>1 DEF ADataInv, RanPast, InOrder, DeliveredInOrder, ToSet
<1>2. QED
  BY AsyncInvariant, <1>1, PTL

-----------------------------------------------------------------------------
(* The synchronous client.                                                 *)

Pieces == [link : Nat, message : Nat, end : BOOLEAN]
Places ==
  {"idle", "lock", "connect", "test", "dial", "dialing", "dialed",
   "clear", "write", "written", "read", "check", "extract"}

YStateOK ==
  /\ endPointOk \in BOOLEAN /\ peerOpen \in BOOLEAN /\ success \in BOOLEAN
  /\ disturbed \in BOOLEAN
  /\ link \in {"closed", "open", "connected"} /\ links \in Nat /\ at \in Nat
  /\ ec \in {"ok", "eof", "failed"}
  /\ mtx \in Senders \cup {Nobody}
  /\ userPc \in [Users -> Places]

\* The sequences: what waits in the socket, what the present Send holds and returns, and
\* what earlier ones have returned.
YSeqOK ==
  /\ spoken \in Nat
  /\ wire \in Seq(Pieces) /\ buf \in Seq(Pieces) /\ heard \in Seq(Pieces)
  /\ response \in Seq(Seq(Pieces))

\* Who is in the middle of Send holds mtx_, and only the manager's own calls of Connect are
\* made without it; unless it disturbs a Send there is none of these during one.
LockOK ==
  /\ \A s \in Senders : userPc[s] \notin {"idle", "lock"} <=> mtx = s
  /\ userPc[Manager] \in {"idle", "connect", "test", "dial", "dialing", "dialed"}
  /\ ~disturbed /\ mtx # Nobody => userPc[Manager] = "idle"

\* Nobody opens a socket before the end point is set.
EndPointInv ==
  ~endPointOk =>
    /\ link = "closed"
    /\ \A u \in Users : userPc[u] \notin {"test", "dial", "dialing", "dialed"}

\* A Send that has not come to its read has nothing yet.
EmptyInv ==
  \A s \in Senders :
    userPc[s] \in {"connect", "test", "dial", "dialing", "dialed", "clear", "write", "written"}
      => buf = << >> /\ response = << >>

YControl == YStateOK /\ LockOK /\ EndPointInv /\ EmptyInv

\* The control is as it should be at first.
LEMMA YControlInit == YInit => YControl
<1> SUFFICES ASSUME YInit
             PROVE  YControl
  OBVIOUS
<1>1. YStateOK
  BY DEF YInit, YStateOK, Places
<1>2. LockOK
  BY SendersAssumption DEF YInit, LockOK, Users
<1>3. EndPointInv /\ EmptyInv
  BY DEF YInit, EndPointInv, EmptyInv, Users
<1>4. QED
  BY <1>1, <1>2, <1>3 DEF YControl

\* Every step keeps it so.
LEMMA YControlStep == YControl /\ [YNext]_yvars => YControl'
<1> SUFFICES ASSUME YControl, [YNext]_yvars
             PROVE  YControl'
  OBVIOUS
<1> USE SendersAssumption DEF linkVars, sendVars, histVars, Users
<1>a. YStateOK /\ LockOK /\ EndPointInv /\ EmptyInv
  BY DEF YControl
<1>1. CASE SetEndPoint
  <2>1. YStateOK'
    BY <1>1, <1>a DEF SetEndPoint, YStateOK, Places
  <2>2. LockOK'
    BY <1>1, <1>a DEF SetEndPoint, YStateOK, LockOK
  <2>3. EndPointInv'
    BY <1>1, <1>a DEF SetEndPoint, YStateOK, EndPointInv
  <2>4. EmptyInv'
    BY <1>1, <1>a DEF SetEndPoint, YStateOK, LockOK, EmptyInv
  <2>5. QED
    BY <2>1, <2>2, <2>3, <2>4 DEF YControl
<1>2. CASE CallConnect
  <2>1. YStateOK'
    BY <1>2, <1>a DEF CallConnect, YStateOK, Places, GoOn
  <2>2. LockOK'
    BY <1>2, <1>a DEF CallConnect, YStateOK, LockOK, GoOn
  <2>3. EndPointInv'
    BY <1>2, <1>a DEF CallConnect, YStateOK, EndPointInv, GoOn
  <2>4. EmptyInv'
    BY <1>2, <1>a DEF CallConnect, YStateOK, LockOK, EmptyInv, GoOn
  <2>5. QED
    BY <2>1, <2>2, <2>3, <2>4 DEF YControl
<1>3. CASE DisConnect
  <2>1. YStateOK'
    BY <1>3, <1>a DEF DisConnect, YStateOK, Places
  <2>2. LockOK'
    BY <1>3, <1>a DEF DisConnect, YStateOK, LockOK
  <2>3. EndPointInv'
    BY <1>3, <1>a DEF DisConnect, YStateOK, EndPointInv
  <2>4. EmptyInv'
    BY <1>3, <1>a DEF DisConnect, YStateOK, LockOK, EmptyInv
  <2>5. QED
    BY <2>1, <2>2, <2>3, <2>4 DEF YControl
<1>4. ASSUME NEW u \in Users, ConnectClear(u)
      PROVE  YControl'
  <2>1. YStateOK'
    BY <1>4, <1>a DEF ConnectClear, YStateOK, Places, GoOn, Return
  <2>2. LockOK'
    BY <1>4, <1>a DEF ConnectClear, YStateOK, LockOK, GoOn, Return
  <2>3. EndPointInv'
    BY <1>4, <1>a DEF ConnectClear, YStateOK, EndPointInv, GoOn, Return
  <2>4. EmptyInv'
    BY <1>4, <1>a DEF ConnectClear, YStateOK, LockOK, EmptyInv, GoOn, Return
  <2>5. QED
    BY <2>1, <2>2, <2>3, <2>4 DEF YControl
<1>5. ASSUME NEW u \in Users, ConnectTest(u)
      PROVE  YControl'
  <2>1. YStateOK'
    BY <1>5, <1>a DEF ConnectTest, YStateOK, Places, GoOn, Return, Proceed
  <2>2. LockOK'
    BY <1>5, <1>a DEF ConnectTest, YStateOK, LockOK, GoOn, Return, Proceed
  <2>3. EndPointInv'
    BY <1>5, <1>a DEF ConnectTest, YStateOK, EndPointInv, GoOn, Return, Proceed
  <2>4. EmptyInv'
    BY <1>5, <1>a DEF ConnectTest, YStateOK, LockOK, EmptyInv, GoOn, Return, Proceed
  <2>5. QED
    BY <2>1, <2>2, <2>3, <2>4 DEF YControl
<1>6. ASSUME NEW u \in Users, Dial(u)
      PROVE  YControl'
  <2>1. YStateOK'
    BY <1>6, <1>a DEF Dial, YStateOK, Places, GoOn
  <2>2. LockOK'
    BY <1>6, <1>a DEF Dial, YStateOK, LockOK, GoOn
  <2>3. EndPointInv'
    BY <1>6, <1>a DEF Dial, YStateOK, EndPointInv, GoOn
  <2>4. EmptyInv'
    BY <1>6, <1>a DEF Dial, YStateOK, LockOK, EmptyInv, GoOn
  <2>5. QED
    BY <2>1, <2>2, <2>3, <2>4 DEF YControl
<1>7. ASSUME NEW u \in Users, DialEnds(u)
      PROVE  YControl'
  <2>1. YStateOK'
    <3>1. userPc' \in [Users -> Places] /\ UNCHANGED <<endPointOk, success, at, mtx>>
      BY <1>7, <1>a DEF DialEnds, YStateOK, Places, GoOn
    <3>2. disturbed' \in BOOLEAN /\ peerOpen' \in BOOLEAN
      BY <1>7, <1>a DEF DialEnds, YStateOK
    <3>3. link' \in {"closed", "open", "connected"} /\ links' \in Nat /\ ec' \in {"ok", "failed"}
      BY <1>7, <1>a DEF DialEnds, YStateOK
    <3>4. QED
      BY <1>a, <3>1, <3>2, <3>3 DEF YStateOK
  <2>2. LockOK'
    BY <1>7, <1>a DEF DialEnds, YStateOK, LockOK, GoOn
  <2>3. EndPointInv'
    BY <1>7, <1>a DEF DialEnds, YStateOK, EndPointInv, GoOn
  <2>4. EmptyInv'
    BY <1>7, <1>a DEF DialEnds, YStateOK, LockOK, EmptyInv, GoOn
  <2>5. QED
    BY <2>1, <2>2, <2>3, <2>4 DEF YControl
<1>8. ASSUME NEW u \in Users, ConnectCheck(u)
      PROVE  YControl'
  <2>1. YStateOK'
    BY <1>8, <1>a DEF ConnectCheck, YStateOK, Places, GoOn, Return, Proceed
  <2>2. LockOK'
    BY <1>8, <1>a DEF ConnectCheck, YStateOK, LockOK, GoOn, Return, Proceed
  <2>3. EndPointInv'
    BY <1>8, <1>a DEF ConnectCheck, YStateOK, EndPointInv, GoOn, Return, Proceed
  <2>4. EmptyInv'
    BY <1>8, <1>a DEF ConnectCheck, YStateOK, LockOK, EmptyInv, GoOn, Return, Proceed
  <2>5. QED
    BY <2>1, <2>2, <2>3, <2>4 DEF YControl
<1>9. ASSUME NEW s \in Senders, CallSend(s)
      PROVE  YControl'
  <2>1. YStateOK'
    BY <1>9, <1>a DEF CallSend, YStateOK, Places, GoOn
  <2>2. LockOK'
    BY <1>9, <1>a DEF CallSend, YStateOK, LockOK, GoOn
  <2>3. EndPointInv'
    BY <1>9, <1>a DEF CallSend, YStateOK, EndPointInv, GoOn
  <2>4. EmptyInv'
    BY <1>9, <1>a DEF CallSend, YStateOK, LockOK, EmptyInv, GoOn
  <2>5. QED
    BY <2>1, <2>2, <2>3, <2>4 DEF YControl
<1>10. ASSUME NEW s \in Senders, SendLock(s)
      PROVE  YControl'
  <2>1. YStateOK'
    BY <1>10, <1>a DEF SendLock, YStateOK, Places, GoOn
  <2>2. LockOK'
    BY <1>10, <1>a DEF SendLock, YStateOK, LockOK, GoOn
  <2>3. EndPointInv'
    BY <1>10, <1>a DEF SendLock, YStateOK, EndPointInv, GoOn
  <2>4. EmptyInv'
    BY <1>10, <1>a DEF SendLock, YStateOK, LockOK, EmptyInv, GoOn
  <2>5. QED
    BY <2>1, <2>2, <2>3, <2>4 DEF YControl
<1>11. ASSUME NEW s \in Senders, SendClear(s)
      PROVE  YControl'
  <2>1. YStateOK'
    BY <1>11, <1>a DEF SendClear, YStateOK, Places, GoOn
  <2>2. LockOK'
    BY <1>11, <1>a DEF SendClear, YStateOK, LockOK, GoOn
  <2>3. EndPointInv'
    BY <1>11, <1>a DEF SendClear, YStateOK, EndPointInv, GoOn
  <2>4. EmptyInv'
    BY <1>11, <1>a DEF SendClear, YStateOK, LockOK, EmptyInv, GoOn
  <2>5. QED
    BY <2>1, <2>2, <2>3, <2>4 DEF YControl
<1>12. ASSUME NEW s \in Senders, SendWrite(s)
      PROVE  YControl'
  <2>1. YStateOK'
    BY <1>12, <1>a DEF SendWrite, YStateOK, Places, GoOn
  <2>2. LockOK'
    BY <1>12, <1>a DEF SendWrite, YStateOK, LockOK, GoOn
  <2>3. EndPointInv'
    BY <1>12, <1>a DEF SendWrite, YStateOK, EndPointInv, GoOn
  <2>4. EmptyInv'
    BY <1>12, <1>a DEF SendWrite, YStateOK, LockOK, EmptyInv, GoOn
  <2>5. QED
    BY <2>1, <2>2, <2>3, <2>4 DEF YControl
<1>13. ASSUME NEW s \in Senders, SendCheckWrite(s)
      PROVE  YControl'
  <2>1. YStateOK'
    BY <1>13, <1>a DEF SendCheckWrite, YStateOK, Places, GoOn, Return
  <2>2. LockOK'
    BY <1>13, <1>a DEF SendCheckWrite, YStateOK, LockOK, GoOn, Return
  <2>3. EndPointInv'
    BY <1>13, <1>a DEF SendCheckWrite, YStateOK, EndPointInv, GoOn, Return
  <2>4. EmptyInv'
    BY <1>13, <1>a DEF SendCheckWrite, YStateOK, LockOK, EmptyInv, GoOn, Return
  <2>5. QED
    BY <2>1, <2>2, <2>3, <2>4 DEF YControl
<1>14. ASSUME NEW s \in Senders, BytesArrive(s)
      PROVE  YControl'
  <2>1. YStateOK'
    BY <1>14, <1>a DEF BytesArrive, YStateOK, Places
  <2>2. LockOK'
    BY <1>14, <1>a DEF BytesArrive, YStateOK, LockOK
  <2>3. EndPointInv'
    BY <1>14, <1>a DEF BytesArrive, YStateOK, EndPointInv
  <2>4. EmptyInv'
    BY <1>14, <1>a DEF BytesArrive, YStateOK, LockOK, EmptyInv
  <2>5. QED
    BY <2>1, <2>2, <2>3, <2>4 DEF YControl
<1>15. ASSUME NEW s \in Senders, ReadComplete(s)
      PROVE  YControl'
  <2>1. YStateOK'
    BY <1>15, <1>a DEF ReadComplete, YStateOK, Places, ReadEnds, GoOn
  <2>2. LockOK'
    BY <1>15, <1>a DEF ReadComplete, YStateOK, LockOK, ReadEnds, GoOn
  <2>3. EndPointInv'
    BY <1>15, <1>a DEF ReadComplete, YStateOK, EndPointInv, ReadEnds, GoOn
  <2>4. EmptyInv'
    BY <1>15, <1>a DEF ReadComplete, YStateOK, LockOK, EmptyInv, ReadEnds, GoOn
  <2>5. QED
    BY <2>1, <2>2, <2>3, <2>4 DEF YControl
<1>16. ASSUME NEW s \in Senders, ReadBreaks(s)
      PROVE  YControl'
  <2>1. YStateOK'
    BY <1>16, <1>a DEF ReadBreaks, YStateOK, Places, ReadEnds, GoOn
  <2>2. LockOK'
    BY <1>16, <1>a DEF ReadBreaks, YStateOK, LockOK, ReadEnds, GoOn
  <2>3. EndPointInv'
    BY <1>16, <1>a DEF ReadBreaks, YStateOK, EndPointInv, ReadEnds, GoOn
  <2>4. EmptyInv'
    BY <1>16, <1>a DEF ReadBreaks, YStateOK, LockOK, EmptyInv, ReadEnds, GoOn
  <2>5. QED
    BY <2>1, <2>2, <2>3, <2>4 DEF YControl
<1>17. ASSUME NEW s \in Senders, SendCheckRead(s)
      PROVE  YControl'
  <2>1. YStateOK'
    BY <1>17, <1>a DEF SendCheckRead, YStateOK, Places, GoOn, Return
  <2>2. LockOK'
    BY <1>17, <1>a DEF SendCheckRead, YStateOK, LockOK, GoOn, Return
  <2>3. EndPointInv'
    BY <1>17, <1>a DEF SendCheckRead, YStateOK, EndPointInv, GoOn, Return
  <2>4. EmptyInv'
    BY <1>17, <1>a DEF SendCheckRead, YStateOK, LockOK, EmptyInv, GoOn, Return
  <2>5. QED
    BY <2>1, <2>2, <2>3, <2>4 DEF YControl
<1>18. ASSUME NEW s \in Senders, SendExtract(s)
      PROVE  YControl'
  <2>1. YStateOK'
    BY <1>18, <1>a DEF SendExtract, YStateOK, Places, GoOn, Return, ExtractSingleResponse
  <2>2. LockOK'
    BY <1>18, <1>a DEF SendExtract, YStateOK, LockOK, GoOn, Return, ExtractSingleResponse
  <2>3. EndPointInv'
    BY <1>18, <1>a DEF SendExtract, YStateOK, EndPointInv, GoOn, Return, ExtractSingleResponse
  <2>4. EmptyInv'
    BY <1>18, <1>a DEF SendExtract, YStateOK, LockOK, EmptyInv, GoOn, Return, ExtractSingleResponse
  <2>5. QED
    BY <2>1, <2>2, <2>3, <2>4 DEF YControl
<1>19. CASE PeerSpeaks
  <2>1. YStateOK'
    BY <1>19, <1>a DEF PeerSpeaks, YStateOK, Places
  <2>2. LockOK'
    BY <1>19, <1>a DEF PeerSpeaks, YStateOK, LockOK
  <2>3. EndPointInv'
    BY <1>19, <1>a DEF PeerSpeaks, YStateOK, EndPointInv
  <2>4. EmptyInv'
    BY <1>19, <1>a DEF PeerSpeaks, YStateOK, LockOK, EmptyInv
  <2>5. QED
    BY <2>1, <2>2, <2>3, <2>4 DEF YControl
<1>20. CASE PeerLeaves
  <2>1. YStateOK'
    BY <1>20, <1>a DEF PeerLeaves, YStateOK, Places
  <2>2. LockOK'
    BY <1>20, <1>a DEF PeerLeaves, YStateOK, LockOK
  <2>3. EndPointInv'
    BY <1>20, <1>a DEF PeerLeaves, YStateOK, EndPointInv
  <2>4. EmptyInv'
    BY <1>20, <1>a DEF PeerLeaves, YStateOK, LockOK, EmptyInv
  <2>5. QED
    BY <2>1, <2>2, <2>3, <2>4 DEF YControl
<1>21. CASE LimitPasses
  <2>1. YStateOK'
    BY <1>21, <1>a DEF LimitPasses, YStateOK, Places
  <2>2. LockOK'
    BY <1>21, <1>a DEF LimitPasses, YStateOK, LockOK
  <2>3. EndPointInv'
    BY <1>21, <1>a DEF LimitPasses, YStateOK, EndPointInv
  <2>4. EmptyInv'
    BY <1>21, <1>a DEF LimitPasses, YStateOK, LockOK, EmptyInv
  <2>5. QED
    BY <2>1, <2>2, <2>3, <2>4 DEF YControl
<1>22. CASE UNCHANGED yvars
  BY <1>22, <1>a DEF yvars, YControl, YStateOK, LockOK, EndPointInv, EmptyInv
<1>23. QED
  BY <1>1, <1>2, <1>3, <1>4, <1>5, <1>6, <1>7, <1>8, <1>9, <1>10, <1>11, <1>12, <1>13, <1>14, <1>15, <1>16, <1>17, <1>18, <1>19, <1>20, <1>21, <1>22
     DEF YNext, ConnectStep, SendStep, ReadStep, PeerStep

-----------------------------------------------------------------------------
(* Where a Send that nobody disturbs is, and what it knows.                *)

\* It dials a socket that is closed; it has written, or failed to; it reads on the
\* connection it has written to; and once the read is over it has a whole message, or has
\* met the end of all that is said.
HolderInv ==
  ~disturbed =>
    \A s \in Senders :
      /\ userPc[s] = "dial" => link = "closed"
      /\ userPc[s] = "dialing" => link = "open"
      /\ userPc[s] = "dialed" /\ ec # "ok" => link # "connected"
      /\ userPc[s] = "written" /\ ec = "ok" => link = "connected"
      /\ userPc[s] = "written" /\ ec # "ok" => ~(link = "connected" /\ peerOpen)
      /\ userPc[s] = "read" => link = "connected" /\ at = links
      /\ userPc[s] = "check" /\ ec = "ok" => HasDelimiter(buf)
      /\ userPc[s] = "check" /\ ec # "ok" => ~peerOpen /\ wire = << >>
      /\ userPc[s] \in {"check", "extract"} => link = "connected"
      /\ userPc[s] = "extract" => HasDelimiter(buf)

\* Nobody else changes what it knows.
LEMMA HolderStep == YControl /\ HolderInv /\ [YNext]_yvars => HolderInv'
<1> SUFFICES ASSUME YControl, HolderInv, [YNext]_yvars
             PROVE  HolderInv'
  OBVIOUS
<1> USE SendersAssumption DEF linkVars, sendVars, histVars, Users
<1>a. YStateOK /\ LockOK
  BY DEF YControl
<1>1. CASE SetEndPoint
  BY <1>1, <1>a DEF SetEndPoint, YStateOK, LockOK, HolderInv
<1>2. CASE CallConnect
  BY <1>2, <1>a DEF CallConnect, YStateOK, LockOK, HolderInv, GoOn
<1>3. CASE DisConnect
  BY <1>3, <1>a DEF DisConnect, YStateOK, LockOK, HolderInv
<1>4. ASSUME NEW u \in Users, ConnectClear(u)
      PROVE  HolderInv'
  BY <1>4, <1>a DEF ConnectClear, YStateOK, LockOK, HolderInv, GoOn, Return
<1>5. ASSUME NEW u \in Users, ConnectTest(u)
      PROVE  HolderInv'
  BY <1>5, <1>a DEF ConnectTest, YStateOK, LockOK, HolderInv, GoOn, Return, Proceed
<1>6. ASSUME NEW u \in Users, Dial(u)
      PROVE  HolderInv'
  BY <1>6, <1>a DEF Dial, YStateOK, LockOK, HolderInv, GoOn
<1>7. ASSUME NEW u \in Users, DialEnds(u)
      PROVE  HolderInv'
  BY <1>7, <1>a DEF DialEnds, YStateOK, LockOK, HolderInv, GoOn
<1>8. ASSUME NEW u \in Users, ConnectCheck(u)
      PROVE  HolderInv'
  BY <1>8, <1>a DEF ConnectCheck, YStateOK, LockOK, HolderInv, GoOn, Return, Proceed
<1>9. ASSUME NEW s \in Senders, CallSend(s)
      PROVE  HolderInv'
  BY <1>9, <1>a DEF CallSend, YStateOK, LockOK, HolderInv, GoOn
<1>10. ASSUME NEW s \in Senders, SendLock(s)
      PROVE  HolderInv'
  BY <1>10, <1>a DEF SendLock, YStateOK, LockOK, HolderInv, GoOn
<1>11. ASSUME NEW s \in Senders, SendClear(s)
      PROVE  HolderInv'
  BY <1>11, <1>a DEF SendClear, YStateOK, LockOK, HolderInv, GoOn
<1>12. ASSUME NEW s \in Senders, SendWrite(s)
      PROVE  HolderInv'
  BY <1>12, <1>a DEF SendWrite, YStateOK, LockOK, HolderInv, GoOn
<1>13. ASSUME NEW s \in Senders, SendCheckWrite(s)
      PROVE  HolderInv'
  BY <1>13, <1>a DEF SendCheckWrite, YStateOK, LockOK, HolderInv, GoOn, Return
<1>14. ASSUME NEW s \in Senders, BytesArrive(s)
      PROVE  HolderInv'
  BY <1>14, <1>a DEF BytesArrive, YStateOK, LockOK, HolderInv
<1>15. ASSUME NEW s \in Senders, ReadComplete(s)
      PROVE  HolderInv'
  BY <1>15, <1>a DEF ReadComplete, YStateOK, LockOK, HolderInv, ReadEnds, GoOn
<1>16. ASSUME NEW s \in Senders, ReadBreaks(s)
      PROVE  HolderInv'
  BY <1>16, <1>a DEF ReadBreaks, YStateOK, LockOK, HolderInv, ReadEnds, GoOn
<1>17. ASSUME NEW s \in Senders, SendCheckRead(s)
      PROVE  HolderInv'
  BY <1>17, <1>a DEF SendCheckRead, YStateOK, LockOK, HolderInv, GoOn, Return
<1>18. ASSUME NEW s \in Senders, SendExtract(s)
      PROVE  HolderInv'
  BY <1>18, <1>a DEF SendExtract, YStateOK, LockOK, HolderInv, GoOn, Return
<1>19. CASE PeerSpeaks
  BY <1>19, <1>a DEF PeerSpeaks, YStateOK, LockOK, HolderInv
<1>20. CASE PeerLeaves
  BY <1>20, <1>a DEF PeerLeaves, YStateOK, LockOK, HolderInv
<1>21. CASE LimitPasses
  BY <1>21, <1>a DEF LimitPasses, YStateOK, LockOK, HolderInv
<1>22. CASE UNCHANGED yvars
  BY <1>22 DEF yvars, HolderInv
<1>23. QED
  BY <1>1, <1>2, <1>3, <1>4, <1>5, <1>6, <1>7, <1>8, <1>9, <1>10, <1>11, <1>12, <1>13, <1>14, <1>15, <1>16, <1>17, <1>18, <1>19, <1>20, <1>21, <1>22
     DEF YNext, ConnectStep, SendStep, ReadStep, PeerStep

-----------------------------------------------------------------------------
(* What the peer has said, and what has become of it.                      *)

\* The halves of the first n messages on connection l.
Say(n, l) == [i \in 1 .. 2 * n |-> [link |-> l, message |-> (i + 1) \div 2, end |-> i % 2 = 0]]

\* There are two of each message.
LEMMA SayIs ==
  ASSUME NEW n \in Nat, NEW l \in Nat
  PROVE  /\ Say(n, l) \in Seq(Pieces) /\ Len(Say(n, l)) = 2 * n
         /\ \A i \in 1 .. 2 * n :
              Say(n, l)[i] = [link |-> l, message |-> (i + 1) \div 2, end |-> i % 2 = 0]
         /\ \A k \in Nat : k < n =>
              /\ Say(n, l)[2 * k + 1] = [link |-> l, message |-> k + 1, end |-> FALSE]
              /\ Say(n, l)[2 * k + 2] = [link |-> l, message |-> k + 1, end |-> TRUE]
<1>1. 2 * n \in Nat /\ \A i \in 1 .. 2 * n : (i + 1) \div 2 \in Nat
  OBVIOUS
<1>2. Say(n, l) \in [1 .. 2 * n -> Pieces]
  BY <1>1 DEF Say, Pieces
<1>3. Say(n, l) \in Seq(Pieces)
  BY <1>1, <1>2, SeqDef
<1>4. Len(Say(n, l)) = 2 * n
  BY <1>1, <1>2, <1>3, LenProperties
<1>5. \A i \in 1 .. 2 * n :
        Say(n, l)[i] = [link |-> l, message |-> (i + 1) \div 2, end |-> i % 2 = 0]
  BY DEF Say
<1>6. ASSUME NEW k \in Nat, k < n
      PROVE  /\ Say(n, l)[2 * k + 1] = [link |-> l, message |-> k + 1, end |-> FALSE]
             /\ Say(n, l)[2 * k + 2] = [link |-> l, message |-> k + 1, end |-> TRUE]
  <2>1. /\ 2 * k + 1 \in 1 .. 2 * n /\ 2 * k + 2 \in 1 .. 2 * n
        /\ (2 * k + 1) + 1 = 2 * k + 2 /\ (2 * k + 2) + 1 = 2 * k + 3
    BY <1>6
  <2>2. /\ ((2 * k + 1) + 1) \div 2 = k + 1 /\ ((2 * k + 2) + 1) \div 2 = k + 1
        /\ ((2 * k + 1) % 2 = 0) = FALSE /\ ((2 * k + 2) % 2 = 0) = TRUE
    BY <2>1, HalfOf
  <2>3. QED
    BY <1>5, <2>1, <2>2
<1>7. QED
  BY <1>3, <1>4, <1>5, <1>6

\* One message more, two halves more.
LEMMA SayMore ==
  ASSUME NEW n \in Nat, NEW l \in Nat
  PROVE  Say(n + 1, l) = Say(n, l) \o <<[link |-> l, message |-> n + 1, end |-> FALSE],
                                        [link |-> l, message |-> n + 1, end |-> TRUE]>>
<1> DEFINE first == [link |-> l, message |-> n + 1, end |-> FALSE]
           second == [link |-> l, message |-> n + 1, end |-> TRUE]
<1>1. n + 1 \in Nat /\ n < n + 1 /\ 2 * (n + 1) = 2 * n + 2 /\ 2 * n \in Nat
  OBVIOUS
<1>2. /\ Say(n, l) \in Seq(Pieces) /\ Len(Say(n, l)) = 2 * n
      /\ \A i \in 1 .. 2 * n :
           Say(n, l)[i] = [link |-> l, message |-> (i + 1) \div 2, end |-> i % 2 = 0]
  BY SayIs
<1>3. /\ Say(n + 1, l) \in Seq(Pieces) /\ Len(Say(n + 1, l)) = 2 * n + 2
      /\ \A i \in 1 .. 2 * n + 2 :
           Say(n + 1, l)[i] = [link |-> l, message |-> (i + 1) \div 2, end |-> i % 2 = 0]
      /\ Say(n + 1, l)[2 * n + 1] = first /\ Say(n + 1, l)[2 * n + 2] = second
  <2>1. /\ Say(n + 1, l) \in Seq(Pieces) /\ Len(Say(n + 1, l)) = 2 * (n + 1)
        /\ \A i \in 1 .. 2 * (n + 1) :
             Say(n + 1, l)[i] = [link |-> l, message |-> (i + 1) \div 2, end |-> i % 2 = 0]
        /\ \A k \in Nat : k < n + 1 =>
             /\ Say(n + 1, l)[2 * k + 1] = [link |-> l, message |-> k + 1, end |-> FALSE]
             /\ Say(n + 1, l)[2 * k + 2] = [link |-> l, message |-> k + 1, end |-> TRUE]
    BY <1>1, SayIs
  <2>2. Say(n + 1, l)[2 * n + 1] = first /\ Say(n + 1, l)[2 * n + 2] = second
    BY <1>1, <2>1
  <2> HIDE DEF first, second
  <2>3. QED
    BY <1>1, <2>1, <2>2, Zenon
<1>4. first \in Pieces /\ second \in Pieces
  BY DEF Pieces
<1> HIDE DEF first, second
<1>5. /\ <<first, second>> \in Seq(Pieces) /\ Len(<<first, second>>) = 2
      /\ <<first, second>>[1] = first /\ <<first, second>>[2] = second
  BY <1>4
<1>6. /\ Say(n, l) \o <<first, second>> \in Seq(Pieces)
      /\ Len(Say(n, l) \o <<first, second>>) = 2 * n + 2
      /\ \A i \in 1 .. 2 * n + 2 :
           (Say(n, l) \o <<first, second>>)[i]
             = IF i <= 2 * n THEN Say(n, l)[i] ELSE <<first, second>>[i - 2 * n]
  BY <1>2, <1>5, ConcatProperties
<1>7. ASSUME NEW i \in 1 .. 2 * n + 2
      PROVE  Say(n + 1, l)[i] = (Say(n, l) \o <<first, second>>)[i]
  <2>1. CASE i <= 2 * n
    <3>1. i \in 1 .. 2 * n
      BY <1>1, <2>1
    <3>2. QED
      BY <1>2, <1>3, <1>6, <2>1, <3>1
  <2>2. CASE i = 2 * n + 1
    <3>1. ~(i <= 2 * n) /\ i - 2 * n = 1
      BY <1>1, <2>2
    <3>2. QED
      BY <1>3, <1>5, <1>6, <2>2, <3>1
  <2>3. CASE i = 2 * n + 2
    <3>1. ~(i <= 2 * n) /\ i - 2 * n = 2
      BY <1>1, <2>3
    <3>2. QED
      BY <1>3, <1>5, <1>6, <2>3, <3>1
  <2>4. i <= 2 * n \/ i = 2 * n + 1 \/ i = 2 * n + 2
    BY <1>1
  <2>5. QED
    BY <2>1, <2>2, <2>3, <2>4
<1>8. Say(n + 1, l) = Say(n, l) \o <<first, second>>
  BY <1>3, <1>6, <1>7, SeqEqual
<1>9. QED
  BY <1>8 DEF first, second

\* What the present Send holds.
Held == IF mtx = Nobody THEN << >> ELSE buf

Said(q) == \E rest \in Seq(Pieces) : Say(spoken, links) = q \o rest

\* Unless the manager has disturbed a Send, what Sends have returned, what the present one
\* holds and what waits in the socket is where that which was said begins, and all of it
\* as long as the peer has not closed; and only whole messages have been returned.
LinkInv ==
  ~disturbed /\ link = "connected" =>
    /\ Said((heard \o Held) \o wire)
    /\ peerOpen => Say(spoken, links) = (heard \o Held) \o wire
    /\ \E k \in Nat : Len(heard) = 2 * k

WholeInv == ~disturbed /\ mtx # Nobody => \A i \in 1 .. Len(response) : Whole(response[i])

YInv == YControl /\ YSeqOK /\ HolderInv /\ LinkInv /\ WholeInv

\* The pieces may be grouped either way.
LEMMA PiecesGrouped ==
  ASSUME NEW s \in Seq(Pieces), NEW t \in Seq(Pieces), NEW u \in Seq(Pieces)
  PROVE  (s \o t) \o u = s \o (t \o u)
BY ConcatAssociative

\* One after the other they are pieces again.
LEMMA PiecesJoined ==
  ASSUME NEW s \in Seq(Pieces), NEW t \in Seq(Pieces)
  PROVE  s \o t \in Seq(Pieces) /\ Len(s \o t) = Len(s) + Len(t) /\ Len(s) \in Nat /\ Len(t) \in Nat
BY ConcatProperties, LenProperties

\* A sequence is what it begins with and the rest.
LEMMA SplitIs ==
  ASSUME NEW s \in Seq(Pieces), NEW n \in 0 .. Len(s)
  PROVE  SubSeq(s, 1, n) \o SubSeq(s, n + 1, Len(s)) = s
<1> DEFINE p == SubSeq(s, 1, n)
           q == SubSeq(s, n + 1, Len(s))
<1>1. /\ p \in Seq(Pieces) /\ Len(p) = n
      /\ \A i \in 1 .. n : p[i] = s[i]
      /\ q \in Seq(Pieces) /\ Len(q) = Len(s) - n
      /\ \A i \in 1 .. Len(s) - n : q[i] = s[n + i]
      /\ Len(s) \in Nat
  BY TwoPieces, LenProperties
<1> HIDE DEF p, q
<1>2. /\ p \o q \in Seq(Pieces) /\ Len(p \o q) = Len(s)
      /\ \A i \in 1 .. Len(s) : (p \o q)[i] = IF i <= n THEN p[i] ELSE q[i - n]
  <2>1. /\ p \o q \in Seq(Pieces) /\ Len(p \o q) = Len(p) + Len(q)
        /\ \A i \in 1 .. Len(p) + Len(q) :
             (p \o q)[i] = IF i <= Len(p) THEN p[i] ELSE q[i - Len(p)]
    BY <1>1, ConcatProperties
  <2>2. Len(p) + Len(q) = Len(s)
    BY <1>1
  <2>3. QED
    BY <1>1, <2>1, <2>2
<1>3. ASSUME NEW i \in 1 .. Len(s)
      PROVE  (p \o q)[i] = s[i]
  <2>1. CASE i <= n
    <3>1. i \in 1 .. n
      BY <1>1, <2>1
    <3>2. QED
      BY <1>1, <1>2, <2>1, <3>1
  <2>2. CASE ~(i <= n)
    <3>1. i - n \in 1 .. Len(s) - n /\ n + (i - n) = i
      BY <1>1, <2>2
    <3>2. q[i - n] = s[i]
      BY <1>1, <3>1
    <3>3. QED
      BY <1>2, <2>2, <3>2
  <2>3. QED
    BY <2>1, <2>2
<1>4. p \o q = s
  BY <1>2, <1>3, SeqEqual
<1>5. QED
  BY <1>4 DEF p, q

\* Where the first message in the buffer ends.
LEMMA FirstEndIs ==
  ASSUME YSeqOK
  PROVE  /\ FirstEnd \in 0 .. Len(buf)
         /\ HasDelimiter(buf) =>
              /\ FirstEnd \in 1 .. Len(buf) /\ buf[FirstEnd].end
              /\ \A j \in 1 .. Len(buf) : buf[j].end => FirstEnd <= j
<1>1. Len(buf) \in Nat /\ DOMAIN buf = 1 .. Len(buf)
  BY LenProperties DEF YSeqOK
<1> DEFINE I == {i \in 1 .. Len(buf) : buf[i].end}
<1>2. CASE HasDelimiter(buf)
  <2>1. I # {} /\ I \in SUBSET Nat
    BY <1>1, <1>2 DEF HasDelimiter
  <2>2. FirstEnd = CHOOSE m \in I : \A j \in I : m <= j
    BY <1>2, <2>1 DEF FirstEnd, SelectInSeq, Min
  <2> HIDE DEF I
  <2>3. \E m \in I : \A j \in I : m <= j
    BY <2>1, FirstNumber
  <2>4. FirstEnd \in I /\ \A j \in I : FirstEnd <= j
    BY <2>2, <2>3
  <2>5. QED
    BY <1>1, <2>4 DEF I
<1>3. CASE ~HasDelimiter(buf)
  BY <1>1, <1>3 DEF FirstEnd
<1>4. QED
  BY <1>2, <1>3

-----------------------------------------------------------------------------
(* The steps, and what is said.                                            *)

\* A step that leaves the pieces where they are.
LEMMA LinkQuiet ==
  ASSUME LinkInv, UNCHANGED <<links, spoken, heard, wire, Held>>,
         link' = "connected" /\ ~disturbed' => link = "connected" /\ ~disturbed,
         peerOpen' => peerOpen
  PROVE  LinkInv'
BY DEF LinkInv, Said

\* The holder of mtx_ holds what it has read.
LEMMA HolderIs ==
  ASSUME YControl, NEW s \in Senders, userPc[s] \notin {"idle", "lock"}
  PROVE  mtx = s /\ mtx # Nobody /\ Held = buf
BY SendersAssumption DEF YControl, LockOK, Held

\* Bytes go from the socket into the buffer.
LEMMA ArriveKeeps ==
  ASSUME YInv, NEW s \in Senders, BytesArrive(s)
  PROVE  YSeqOK' /\ LinkInv' /\ WholeInv'
<1>a. YSeqOK /\ LinkInv /\ WholeInv /\ YControl
  BY DEF YInv
<1>1. PICK n \in 1 .. Len(wire) : /\ buf' = buf \o SubSeq(wire, 1, n)
                                  /\ wire' = SubSeq(wire, n + 1, Len(wire))
  BY DEF BytesArrive
<1>2. /\ UNCHANGED <<link, links, peerOpen, spoken, mtx, response, heard, disturbed>>
      /\ mtx # Nobody /\ Held = buf
  BY <1>a, HolderIs DEF BytesArrive, histVars
<1> DEFINE came == SubSeq(wire, 1, n)
<1>3. n \in 0 .. Len(wire)
  BY <1>1
<1>4. came \in Seq(Pieces) /\ wire' \in Seq(Pieces) /\ came \o wire' = wire
  BY <1>a, <1>1, <1>3, TwoPieces, SplitIs DEF YSeqOK
<1>5. buf' \in Seq(Pieces) /\ heard \o buf \in Seq(Pieces)
  BY <1>a, <1>1, <1>4, PiecesJoined DEF YSeqOK
<1>6. YSeqOK'
  BY <1>a, <1>2, <1>4, <1>5 DEF YSeqOK
<1>7. (heard \o buf') \o wire' = (heard \o buf) \o wire
  <2>1. heard \in Seq(Pieces) /\ buf \in Seq(Pieces)
    BY <1>a DEF YSeqOK
  <2>2. (heard \o buf) \o came = heard \o buf'
    <3>1. (heard \o buf) \o came = heard \o (buf \o came)
      BY ONLY <1>4, <2>1, PiecesGrouped, Zenon
    <3>2. QED
      BY <1>1, <3>1
  <2>3. ((heard \o buf) \o came) \o wire' = (heard \o buf) \o (came \o wire')
    BY <1>4, <1>5, PiecesGrouped, Zenon
  <2>4. QED
    BY <1>4, <2>2, <2>3
<1>8. Held' = buf'
  BY <1>2 DEF Held
<1>9. LinkInv'
  BY <1>a, <1>2, <1>7, <1>8 DEF LinkInv, Said
<1>10. WholeInv'
  BY <1>a, <1>2 DEF WholeInv
<1>11. QED
  BY <1>6, <1>9, <1>10

\* The peer says more.
LEMMA SpeakKeeps == ASSUME YInv, PeerSpeaks PROVE YSeqOK' /\ LinkInv' /\ WholeInv'
<1> DEFINE two == <<[link |-> links, message |-> spoken + 1, end |-> FALSE],
                    [link |-> links, message |-> spoken + 1, end |-> TRUE]>>
           X == heard \o Held
<1>a. YSeqOK /\ LinkInv /\ WholeInv /\ links \in Nat /\ spoken \in Nat
  BY DEF YInv, YControl, YStateOK, YSeqOK
<1>1. /\ spoken' = spoken + 1 /\ wire' = wire \o two /\ peerOpen /\ link = "connected"
      /\ UNCHANGED <<link, links, peerOpen, mtx, buf, response, heard, disturbed>>
  BY DEF PeerSpeaks, Piece, sendVars, histVars
<1>2. two \in Seq(Pieces)
  <2> DEFINE first == [link |-> links, message |-> spoken + 1, end |-> FALSE]
             second == [link |-> links, message |-> spoken + 1, end |-> TRUE]
  <2>1. first \in Pieces /\ second \in Pieces
    BY <1>a DEF Pieces
  <2> HIDE DEF first, second
  <2>2. <<first, second>> \in Seq(Pieces)
    BY <2>1
  <2>3. QED
    BY <2>2 DEF first, second
<1>3. Say(spoken + 1, links) = Say(spoken, links) \o two
  BY <1>a, SayMore
<1> HIDE DEF two
<1>4. /\ wire \in Seq(Pieces) /\ heard \in Seq(Pieces) /\ Held \in Seq(Pieces)
      /\ << >> \in Seq(Pieces) /\ wire' \in Seq(Pieces)
  BY <1>a, <1>1, <1>2, PiecesJoined, EmptySeq DEF YSeqOK, Held
<1>5. X \in Seq(Pieces) /\ X \o wire' \in Seq(Pieces)
  BY <1>4, PiecesJoined
<1>6. YSeqOK'
  BY <1>a, <1>1, <1>4 DEF YSeqOK
<1>7. UNCHANGED Held
  BY <1>1 DEF Held
<1>8. ASSUME ~disturbed
      PROVE  Say(spoken', links') = X \o wire'
  <2>1. Say(spoken, links) = X \o wire
    BY <1>a, <1>1, <1>8 DEF LinkInv
  <2> HIDE DEF X
  <2>2. (X \o wire) \o two = X \o (wire \o two)
    <3>1. X \in Seq(Pieces) /\ wire \in Seq(Pieces) /\ two \in Seq(Pieces)
      BY <1>2, <1>4, <1>5
    <3>2. QED
      BY ONLY <3>1, PiecesGrouped
  <2>3. QED
    BY <1>1, <1>3, <2>1, <2>2, Zenon
<1>9. X \o wire' = (X \o wire') \o << >>
  BY <1>5, ConcatEmptySeq
<1>10. LinkInv'
  BY <1>a, <1>1, <1>4, <1>7, <1>8, <1>9 DEF LinkInv, Said
<1>11. WholeInv'
  BY <1>a, <1>1 DEF WholeInv
<1>12. QED
  BY <1>6, <1>10, <1>11

\* The peer closes, and what it has not sent is lost.
LEMMA LeaveKeeps == ASSUME YInv, PeerLeaves PROVE YSeqOK' /\ LinkInv' /\ WholeInv'
<1> DEFINE X == heard \o Held
<1>a. YSeqOK /\ LinkInv /\ WholeInv
  BY DEF YInv
<1>1. /\ UNCHANGED <<link, links, spoken, mtx, buf, response, heard, disturbed>>
      /\ link = "connected" /\ peerOpen' = FALSE
      /\ wire' = wire \/ (wire' = Front(wire) /\ DOMAIN wire # {})
  BY DEF PeerLeaves, sendVars, histVars
<1>2. /\ wire \in Seq(Pieces) /\ heard \in Seq(Pieces) /\ Held \in Seq(Pieces)
      /\ << >> \in Seq(Pieces) /\ Len(wire) \in Nat
  BY <1>a, EmptySeq, LenProperties DEF YSeqOK, Held
<1>3. X \in Seq(Pieces)
  BY <1>2, PiecesJoined
<1>4. PICK last \in Seq(Pieces) : wire' \in Seq(Pieces) /\ wire = wire' \o last
  <2>1. CASE wire' = wire
    <3>1. wire = wire \o << >>
      BY <1>2, ConcatEmptySeq
    <3>2. QED
      BY <1>2, <2>1, <3>1
  <2>2. CASE wire' = Front(wire) /\ DOMAIN wire # {}
    <3>1. DOMAIN wire = 1 .. Len(wire)
      BY <1>2, LenProperties
    <3>2. Len(wire) - 1 \in 0 .. Len(wire)
      BY <1>2, <2>2, <3>1
    <3>3. /\ SubSeq(wire, 1, Len(wire) - 1) \in Seq(Pieces)
          /\ SubSeq(wire, (Len(wire) - 1) + 1, Len(wire)) \in Seq(Pieces)
          /\ wire = SubSeq(wire, 1, Len(wire) - 1) \o SubSeq(wire, (Len(wire) - 1) + 1, Len(wire))
      BY <1>2, <3>2, TwoPieces, SplitIs
    <3>4. QED
      BY <2>2, <3>3 DEF Front
  <2>3. QED
    BY <1>1, <2>1, <2>2
<1>5. YSeqOK'
  BY <1>a, <1>1, <1>4 DEF YSeqOK
<1>6. UNCHANGED Held
  BY <1>1 DEF Held
<1>7. ASSUME Said(X \o wire)
      PROVE  \E rest \in Seq(Pieces) : Say(spoken, links) = (X \o wire') \o rest
  <2>1. PICK rest \in Seq(Pieces) : Say(spoken, links) = (X \o wire) \o rest
    BY <1>7 DEF Said
  <2> HIDE DEF X
  <2>2. X \o wire' \in Seq(Pieces) /\ last \o rest \in Seq(Pieces)
    BY <1>3, <1>4, PiecesJoined
  <2>3. X \o wire = (X \o wire') \o last
    <3>1. (X \o wire') \o last = X \o (wire' \o last)
      BY ONLY <1>3, <1>4, PiecesGrouped, Zenon
    <3>2. QED
      BY <1>4, <3>1
  <2>4. ((X \o wire') \o last) \o rest = (X \o wire') \o (last \o rest)
    <3>1. X \o wire' \in Seq(Pieces) /\ last \in Seq(Pieces) /\ rest \in Seq(Pieces)
      BY <1>4, <2>2
    <3>2. QED
      BY ONLY <3>1, PiecesGrouped
  <2>5. Say(spoken, links) = (X \o wire') \o (last \o rest)
    BY <2>1, <2>3, <2>4
  <2>6. QED
    BY <2>2, <2>5
<1>8. LinkInv'
  BY <1>a, <1>1, <1>6, <1>7 DEF LinkInv, Said
<1>9. WholeInv'
  BY <1>a, <1>1 DEF WholeInv
<1>10. QED
  BY <1>5, <1>8, <1>9

\* A new connection begins with nothing said.
LEMMA DialEndsKeeps ==
  ASSUME YInv, NEW u \in Users, DialEnds(u)
  PROVE  YSeqOK' /\ LinkInv' /\ WholeInv'
<1>a. /\ YSeqOK /\ LinkInv /\ WholeInv /\ YControl
      /\ YStateOK /\ LockOK /\ EmptyInv /\ << >> \in Seq(Pieces) /\ Len(<< >>) = 0
  BY EmptySeq DEF YInv, YControl
<1>1. UNCHANGED <<mtx, buf, response>> /\ userPc[u] = "dialing"
  BY DEF DialEnds, sendVars
<1>2. \/ /\ link' = "connected" /\ links' = links + 1
         /\ spoken' = 0 /\ wire' = << >> /\ heard' = << >>
         /\ disturbed' = (mtx # Nobody /\ userPc[Manager] # "idle")
      \/ UNCHANGED <<linkVars, histVars>>
  BY DEF DialEnds
<1>3. u # Manager => u \in Senders /\ mtx = u /\ buf = << >> /\ response = << >>
  BY <1>a, <1>1 DEF Users, LockOK, EmptyInv
<1>4. CASE /\ link' = "connected" /\ links' = links + 1
           /\ spoken' = 0 /\ wire' = << >> /\ heard' = << >>
           /\ disturbed' = (mtx # Nobody /\ userPc[Manager] # "idle")
  <2>1. ~disturbed' => mtx = Nobody \/ (buf = << >> /\ response = << >>)
    BY <1>1, <1>3, <1>4
  <2>2. ~disturbed' => Held' = << >>
    BY <1>1, <2>1 DEF Held
  <2>3. Say(0, links') = << >>
    <3>1. Say(0, links + 1) \in Seq(Pieces) /\ Len(Say(0, links + 1)) = 2 * 0
      BY <1>a, SayIs DEF YStateOK
    <3>2. QED
      BY <1>4, <3>1, EmptySeq
  <2>4. << >> = << >> \o << >>
    BY <1>a, ConcatEmptySeq
  <2>5. LinkInv'
    <3>1. 0 = 2 * 0 /\ 0 \in Nat
      OBVIOUS
    <3>2. ~disturbed' => (heard' \o Held') \o wire' = << >>
      BY <1>4, <2>2, <2>4
    <3>3. ~disturbed' => Say(spoken', links') = (heard' \o Held') \o wire'
      BY <1>4, <2>3, <3>2
    <3>4. ~disturbed' => Said((heard \o Held) \o wire)'
      BY <1>a, <1>4, <2>3, <2>4, <3>2 DEF Said
    <3>5. QED
      BY <1>a, <1>4, <3>1, <3>3, <3>4 DEF LinkInv
  <2>6. YSeqOK'
    BY <1>a, <1>1, <1>4 DEF YSeqOK
  <2>7. WholeInv'
    BY <1>a, <1>1, <2>1 DEF WholeInv
  <2>8. QED
    BY <2>5, <2>6, <2>7
<1>5. CASE UNCHANGED <<linkVars, histVars>>
  <2>1. UNCHANGED <<link, links, peerOpen, spoken, wire, heard, disturbed, Held>>
    BY <1>1, <1>5 DEF linkVars, histVars, Held
  <2>2. LinkInv'
    BY <1>a, <2>1, LinkQuiet
  <2>3. QED
    BY <1>a, <1>1, <2>1, <2>2 DEF YSeqOK, WholeInv
<1>6. QED
  BY <1>2, <1>4, <1>5

\* A Send whose read has failed drops what it holds: nothing comes after it.
LEMMA CheckKeeps ==
  ASSUME YInv, NEW s \in Senders, SendCheckRead(s)
  PROVE  YSeqOK' /\ LinkInv' /\ WholeInv'
<1>a. /\ YSeqOK /\ LinkInv /\ WholeInv /\ YControl /\ HolderInv
      /\ << >> \in Seq(Pieces)
  BY EmptySeq DEF YInv
<1>1. /\ UNCHANGED <<link, links, peerOpen, spoken, wire, buf, response, heard, disturbed>>
      /\ userPc[s] = "check"
      /\ mtx' \in {mtx, Nobody}
      /\ ec # "ok" \/ buf = << >> \/ UNCHANGED mtx
  BY SendersAssumption DEF SendCheckRead, Return, linkVars, histVars
<1>2. mtx = s /\ mtx # Nobody /\ Held = buf
  BY <1>a, <1>1, HolderIs
<1>3. YSeqOK' /\ WholeInv'
  BY <1>a, <1>1, <1>2 DEF YSeqOK, WholeInv
<1>4. CASE Held' = Held
  BY <1>a, <1>1, <1>3, <1>4, LinkQuiet
<1>5. CASE Held' # Held
  <2>1. Held' = << >> /\ ec # "ok"
    BY <1>1, <1>2, <1>5 DEF Held
  <2>2. ASSUME ~disturbed, link = "connected"
        PROVE  /\ ~peerOpen
               /\ \E rest \in Seq(Pieces) : Say(spoken, links) = (heard \o << >>) \o wire \o rest
    <3>1. ~peerOpen /\ wire = << >>
      BY <1>a, <1>1, <2>1, <2>2 DEF HolderInv
    <3>2. PICK rest \in Seq(Pieces) : Say(spoken, links) = ((heard \o buf) \o wire) \o rest
      BY <1>a, <1>2, <2>2 DEF LinkInv, Said
    <3>3. heard \in Seq(Pieces) /\ buf \in Seq(Pieces)
          /\ heard \o buf \in Seq(Pieces) /\ buf \o rest \in Seq(Pieces)
      BY <1>a, PiecesJoined DEF YSeqOK
    <3>4. (heard \o buf) \o << >> = heard \o buf /\ (heard \o << >>) \o << >> = heard
      BY <3>3, ConcatEmptySeq
    <3>5. (heard \o buf) \o rest = heard \o (buf \o rest)
      <4>1. heard \in Seq(Pieces) /\ buf \in Seq(Pieces) /\ rest \in Seq(Pieces)
        BY <3>3
      <4>2. QED
        BY ONLY <4>1, PiecesGrouped
    <3>6. Say(spoken, links) = ((heard \o << >>) \o wire) \o (buf \o rest)
      BY <3>1, <3>2, <3>4, <3>5
    <3>7. QED
      BY <3>1, <3>3, <3>6
  <2>3. LinkInv'
    BY <1>a, <1>1, <2>1, <2>2 DEF LinkInv, Said
  <2>4. QED
    BY <1>3, <2>3
<1>6. QED
  BY <1>4, <1>5

-----------------------------------------------------------------------------
(* The messages that are taken out of the buffer.                          *)

\* What stands in the middle of a sequence.
LEMMA MiddleIs ==
  ASSUME NEW h, NEW b, NEW w, NEW r, NEW q, NEW i,
         /\ h \in Seq(Pieces) /\ b \in Seq(Pieces) /\ w \in Seq(Pieces) /\ r \in Seq(Pieces)
         /\ q = ((h \o b) \o w) \o r /\ i \in 1 .. Len(b)
  PROVE  Len(h) + i \in 1 .. Len(q) /\ q[Len(h) + i] = b[i]
<1>1. Len(h) \in Nat /\ Len(b) \in Nat /\ Len(w) \in Nat /\ Len(r) \in Nat
  BY LenProperties
<1> DEFINE hb == h \o b
           wr == w \o r
           t  == b \o wr
<1>2. /\ wr \in Seq(Pieces) /\ Len(wr) = Len(w) + Len(r) /\ Len(wr) \in Nat
      /\ hb \in Seq(Pieces)
      /\ t \in Seq(Pieces) /\ Len(t) = Len(b) + Len(wr)
  BY PiecesJoined
<1>3. q = h \o t
  <2>1. (hb \o w) \o r = hb \o wr
    <3>1. hb \in Seq(Pieces) /\ w \in Seq(Pieces) /\ r \in Seq(Pieces)
      BY <1>2
    <3> HIDE DEF hb
    <3>2. QED
      BY ONLY <3>1, PiecesGrouped
  <2>2. hb \o wr = h \o t
    <3>1. h \in Seq(Pieces) /\ b \in Seq(Pieces) /\ wr \in Seq(Pieces)
      BY <1>2
    <3> HIDE DEF wr
    <3>2. QED
      BY ONLY <3>1, PiecesGrouped
  <2>3. QED
    BY ONLY <2>1, <2>2, q = ((h \o b) \o w) \o r
<1> HIDE DEF hb, wr
<1>4. t[i] = b[i]
  <2>1. /\ Len(t) = Len(b) + Len(wr)
        /\ \A j \in 1 .. Len(b) + Len(wr) : t[j] = IF j <= Len(b) THEN b[j] ELSE wr[j - Len(b)]
    BY <1>2, ConcatProperties
  <2>2. i \in 1 .. Len(b) + Len(wr) /\ i <= Len(b)
    BY <1>1, <1>2
  <2>3. QED
    BY <2>1, <2>2
<1> HIDE DEF t
<1>5. /\ Len(h \o t) = Len(h) + Len(t)
      /\ \A j \in 1 .. Len(h) + Len(t) :
           (h \o t)[j] = IF j <= Len(h) THEN h[j] ELSE t[j - Len(h)]
  <2>1. h \in Seq(Pieces) /\ t \in Seq(Pieces)
    BY <1>2
  <2>2. QED
    BY ONLY <2>1, ConcatProperties
<1>6. Len(h) + i \in 1 .. Len(h) + Len(t) /\ ~(Len(h) + i <= Len(h)) /\ (Len(h) + i) - Len(h) = i
  BY <1>1, <1>2
<1>7. QED
  BY <1>3, <1>4, <1>5, <1>6

\* The first half of a message is the second one without the delimiter.
LEMMA FirstHalfIs ==
  ASSUME NEW f \in Pieces, NEW g \in Pieces,
         g.link = f.link, g.message = f.message, g.end = FALSE
  PROVE  [f EXCEPT !.end = FALSE] = g
<1> DEFINE e == [f EXCEPT !.end = FALSE]
<1>1. e \in Pieces /\ e.link = f.link /\ e.message = f.message /\ e.end = FALSE
  BY DEF Pieces
<1> HIDE DEF e
<1>2. e = g
  BY <1>1 DEF Pieces
<1>3. QED
  BY <1>2 DEF e

\* The first message in the buffer of a Send that is not disturbed is whole.
LEMMA TakesWhole ==
  ASSUME YInv, NEW s \in Senders, userPc[s] = "extract", ~disturbed
  PROVE  FirstEnd = 2 /\ Len(buf) >= 2 /\ Whole(SubSeq(buf, 1, FirstEnd))
<1>a. /\ YSeqOK /\ LinkInv /\ HolderInv /\ YControl
      /\ heard \in Seq(Pieces) /\ buf \in Seq(Pieces) /\ wire \in Seq(Pieces)
      /\ Len(buf) \in Nat /\ spoken \in Nat /\ links \in Nat
  BY LenProperties DEF YInv, YControl, YStateOK, YSeqOK
<1>1. link = "connected" /\ HasDelimiter(buf) /\ Held = buf
  BY <1>a, HolderIs DEF HolderInv
<1>2. PICK rest \in Seq(Pieces) : Say(spoken, links) = ((heard \o buf) \o wire) \o rest
  BY <1>a, <1>1 DEF LinkInv, Said
<1>3. PICK k \in Nat : Len(heard) = 2 * k
  BY <1>a, <1>1 DEF LinkInv
<1>4. ASSUME NEW i \in 1 .. Len(buf)
      PROVE  2 * k + i <= 2 * spoken /\ Say(spoken, links)[2 * k + i] = buf[i]
  <2>1. /\ Len(heard) + i \in 1 .. Len(Say(spoken, links))
        /\ Say(spoken, links)[Len(heard) + i] = buf[i]
    <3>1. /\ heard \in Seq(Pieces) /\ buf \in Seq(Pieces) /\ wire \in Seq(Pieces)
          /\ rest \in Seq(Pieces) /\ i \in 1 .. Len(buf)
      BY <1>a, <1>2
    <3>2. QED
      BY ONLY <1>2, <3>1, MiddleIs, SMT
  <2>2. Len(Say(spoken, links)) = 2 * spoken
    BY <1>a, SayIs
  <2>3. QED
    BY <1>a, <1>3, <2>1, <2>2
<1>5. /\ FirstEnd \in 1 .. Len(buf) /\ buf[FirstEnd].end
      /\ \A j \in 1 .. Len(buf) : buf[j].end => FirstEnd <= j
  BY <1>a, <1>1, FirstEndIs
<1>6. 1 \in 1 .. Len(buf) /\ k < spoken
  <2>1. 1 \in 1 .. Len(buf)
    BY <1>a, <1>5
  <2>2. 2 * k + 1 <= 2 * spoken
    BY <1>4, <2>1
  <2>3. QED
    BY <1>a, <2>1, <2>2
<1>7. /\ Say(spoken, links)[2 * k + 1] = [link |-> links, message |-> k + 1, end |-> FALSE]
      /\ Say(spoken, links)[2 * k + 2] = [link |-> links, message |-> k + 1, end |-> TRUE]
  BY <1>a, <1>6, SayIs
<1>8. buf[1] = [link |-> links, message |-> k + 1, end |-> FALSE]
  BY <1>4, <1>6, <1>7
<1>9. FirstEnd # 1
  BY <1>5, <1>8
<1>10. 2 \in 1 .. Len(buf) /\ 2 <= FirstEnd
  BY <1>a, <1>5, <1>9
<1>11. buf[2] = [link |-> links, message |-> k + 1, end |-> TRUE]
  BY <1>4, <1>7, <1>10
<1>12. FirstEnd = 2
  <2>1. FirstEnd <= 2
    BY <1>5, <1>10, <1>11
  <2>2. QED
    BY <1>5, <1>10, <2>1
<1>13. Whole(SubSeq(buf, 1, 2))
  <2> DEFINE m == SubSeq(buf, 1, 2)
             first == [link |-> links, message |-> k + 1, end |-> FALSE]
             second == [link |-> links, message |-> k + 1, end |-> TRUE]
  <2>1. m \in Seq(Pieces) /\ Len(m) = 2 /\ \A i \in 1 .. 2 : m[i] = buf[i]
    <3>1. 2 \in 0 .. Len(buf)
      BY <1>a, <1>10
    <3>2. QED
      BY <1>a, <3>1, TwoPieces
  <2>2. m[1] = first /\ m[2] = second
    BY <1>8, <1>11, <2>1
  <2>3. [m[2] EXCEPT !.end = FALSE] = first /\ first \in Pieces /\ second \in Pieces
    <3>1. k + 1 \in Nat
      OBVIOUS
    <3>2. first \in Pieces /\ second \in Pieces
      BY <1>a, <3>1 DEF Pieces
    <3>3. [second EXCEPT !.end = FALSE] = first
      BY <3>2, FirstHalfIs
    <3>4. QED
      BY <2>2, <3>2, <3>3
  <2> HIDE DEF m, first, second
  <2>4. <<first, second>> \in Seq(Pieces) /\ Len(<<first, second>>) = 2
        /\ <<first, second>>[1] = first /\ <<first, second>>[2] = second
    BY <2>3
  <2>5. \A i \in 1 .. 2 : m[i] = <<first, second>>[i]
    BY <2>2, <2>4
  <2>6. m = <<first, second>>
    BY <2>1, <2>4, <2>5, SeqEqual
  <2>7. m = <<[m[2] EXCEPT !.end = FALSE], m[2]>>
    BY <2>2, <2>3, <2>6
  <2>8. Whole(m)
    BY <2>1, <2>7 DEF Whole
  <2>9. QED
    BY <2>8 DEF m
<1>14. QED
  BY <1>a, <1>10, <1>12, <1>13

\* The response gets one message more.
LEMMA ExtractIs ==
  ASSUME YInv, NEW s \in Senders, SendExtract(s)
  PROVE  /\ FirstEnd \in 0 .. Len(buf)
         /\ heard' \in Seq(Pieces) /\ buf' \in Seq(Pieces) /\ heard' \o buf' = heard \o buf
         /\ response' \in Seq(Seq(Pieces))
         /\ ~disturbed =>
              /\ Len(heard') = Len(heard) + 2
              /\ Len(response') = Len(response) + 1 /\ Len(response) \in Nat
              /\ \A i \in 1 .. Len(response') : Whole(response'[i])
<1> DEFINE m == SubSeq(buf, 1, FirstEnd)
<1>a. /\ YSeqOK /\ WholeInv /\ YControl
      /\ heard \in Seq(Pieces) /\ buf \in Seq(Pieces) /\ response \in Seq(Seq(Pieces))
      /\ Len(response) \in Nat
  BY LenProperties DEF YInv, YSeqOK
<1>1. /\ buf' = SubSeq(buf, FirstEnd + 1, Len(buf)) /\ heard' = heard \o m
      /\ response' = IF FirstEnd = 0 THEN response ELSE Append(response, m)
      /\ userPc[s] = "extract"
  BY DEF SendExtract, ExtractSingleResponse
<1>2. FirstEnd \in 0 .. Len(buf)
  BY <1>a, FirstEndIs
<1>3. m \in Seq(Pieces) /\ Len(m) = FirstEnd /\ buf' \in Seq(Pieces) /\ m \o buf' = buf
  <2>1. m \in Seq(Pieces) /\ Len(m) = FirstEnd /\ buf' \in Seq(Pieces)
    BY <1>a, <1>1, <1>2, TwoPieces
  <2>2. m \o buf' = buf
    BY <1>a, <1>1, <1>2, SplitIs
  <2>3. QED
    BY <2>1, <2>2
<1>4. ~disturbed => FirstEnd = 2 /\ Whole(m)
  BY <1>1, TakesWhole
<1> HIDE DEF m
<1>5. heard' \in Seq(Pieces) /\ Len(heard') = Len(heard) + FirstEnd
  BY <1>a, <1>1, <1>3, PiecesJoined
<1>6. heard' \o buf' = heard \o buf
  <2>1. (heard \o m) \o buf' = heard \o (m \o buf')
    <3>1. heard \in Seq(Pieces) /\ m \in Seq(Pieces) /\ buf' \in Seq(Pieces)
      BY <1>a, <1>3
    <3>2. QED
      BY ONLY <3>1, PiecesGrouped
  <2>2. QED
    BY <1>1, <1>3, <2>1
<1>7. /\ Append(response, m) \in Seq(Seq(Pieces))
      /\ Len(Append(response, m)) = Len(response) + 1
      /\ Append(response, m)[Len(response) + 1] = m
      /\ \A i \in 1 .. Len(response) : Append(response, m)[i] = response[i]
  BY <1>a, <1>3, AppendProperties
<1>8. ASSUME ~disturbed
      PROVE  /\ Len(response') = Len(response) + 1
             /\ \A i \in 1 .. Len(response') : Whole(response'[i])
  <2>1. response' = Append(response, m) /\ Whole(m)
    BY <1>1, <1>4, <1>8
  <2>2. \A i \in 1 .. Len(response) : Whole(response[i])
    BY <1>a, <1>1, <1>8, HolderIs DEF WholeInv
  <2>3. ASSUME NEW i \in 1 .. Len(response) + 1
        PROVE  Whole(Append(response, m)[i])
    <3>1. CASE i = Len(response) + 1
      BY <1>7, <2>1, <3>1
    <3>2. CASE i # Len(response) + 1
      <4>1. i \in 1 .. Len(response)
        BY <1>a, <3>2
      <4>2. QED
        BY <1>7, <2>2, <4>1
    <3>3. QED
      BY <3>1, <3>2
  <2>4. QED
    BY <1>7, <2>1, <2>3
<1>9. QED
  BY <1>a, <1>1, <1>2, <1>3, <1>4, <1>5, <1>6, <1>7, <1>8

\* What is returned and what is held make the same as before.
LEMMA ExtractKeeps ==
  ASSUME YInv, NEW s \in Senders, SendExtract(s)
  PROVE  YSeqOK' /\ LinkInv' /\ WholeInv'
<1>a. YSeqOK /\ LinkInv /\ WholeInv /\ YControl
  BY DEF YInv
<1>1. /\ UNCHANGED <<link, links, peerOpen, spoken, wire, disturbed>>
      /\ userPc[s] = "extract"
      /\ UNCHANGED mtx \/ (mtx' = Nobody /\ buf' = << >>)
  BY SendersAssumption DEF SendExtract, Return, linkVars
<1>2. mtx # Nobody /\ Held = buf
  BY <1>a, <1>1, HolderIs
<1>3. Held' = buf'
  BY <1>1, <1>2 DEF Held
<1>4. /\ heard' \in Seq(Pieces) /\ buf' \in Seq(Pieces) /\ heard' \o buf' = heard \o buf
      /\ response' \in Seq(Seq(Pieces))
      /\ ~disturbed => /\ Len(heard') = Len(heard) + 2
                       /\ \A i \in 1 .. Len(response') : Whole(response'[i])
  BY ExtractIs
<1>5. YSeqOK'
  BY <1>a, <1>1, <1>4 DEF YSeqOK
<1>6. WholeInv'
  BY <1>1, <1>4 DEF WholeInv
<1>7. (\E k \in Nat : Len(heard) = 2 * k) /\ ~disturbed => \E k \in Nat : Len(heard') = 2 * k
  <2>1. \A k \in Nat : k + 1 \in Nat /\ 2 * k + 2 = 2 * (k + 1)
    OBVIOUS
  <2>2. QED
    BY <1>4, <2>1
<1>8. LinkInv'
  BY <1>a, <1>1, <1>2, <1>3, <1>4, <1>7 DEF LinkInv, Said
<1>9. QED
  BY <1>5, <1>6, <1>8

\* Nothing is said at first.
LEMMA SyncInit == YInit => YInv
<1> SUFFICES ASSUME YInit
             PROVE  YInv
  OBVIOUS
<1>1. << >> \in Seq(Pieces) /\ << >> \in Seq(Seq(Pieces)) /\ Len(<< >>) = 0
  BY EmptySeq
<1>2. YSeqOK
  BY <1>1 DEF YInit, YSeqOK
<1>3. LinkInv /\ WholeInv
  BY DEF YInit, LinkInv, WholeInv
<1>4. HolderInv
  BY DEF YInit, HolderInv, Users
<1>5. QED
  BY YControlInit, <1>2, <1>3, <1>4 DEF YInv

\* What a step leaves alone that neither moves halves of messages nor connects.
Quiet ==
  /\ UNCHANGED <<links, spoken, wire, heard, buf, response>>
  /\ link' = "connected" => link = "connected"
  /\ disturbed => disturbed'
  /\ peerOpen' => peerOpen
  /\ mtx' = mtx \/ (mtx' = Nobody /\ buf = << >>)

\* Such a step keeps what is said together.
LEMMA QuietKeeps ==
  ASSUME YInv, Quiet
  PROVE  YSeqOK' /\ LinkInv' /\ WholeInv'
<1>a. YSeqOK /\ LinkInv /\ WholeInv
  BY DEF YInv
<1>1. Held' = Held
  BY DEF Quiet, Held
<1>2. LinkInv'
  BY <1>a, <1>1, LinkQuiet DEF Quiet
<1>3. YSeqOK'
  BY <1>a DEF Quiet, YSeqOK
<1>4. WholeInv'
  BY <1>a DEF Quiet, WholeInv
<1>5. QED
  BY <1>2, <1>3, <1>4

\* Every step keeps what is said together.
LEMMA SaidStep ==
  ASSUME YInv, [YNext]_yvars
  PROVE  YSeqOK' /\ LinkInv' /\ WholeInv'
<1>a. /\ YSeqOK /\ LinkInv /\ WholeInv /\ YControl /\ LockOK /\ EmptyInv
      /\ << >> \in Seq(Pieces) /\ << >> \in Seq(Seq(Pieces))
  BY EmptySeq DEF YInv, YControl
<1>1. CASE SetEndPoint
  <2>1. Quiet
    BY <1>1 DEF SetEndPoint, Quiet, linkVars, sendVars, histVars
  <2>2. QED
    BY <2>1, QuietKeeps
<1>2. CASE CallConnect
  <2>1. Quiet
    BY <1>2 DEF CallConnect, GoOn, Quiet, linkVars, sendVars, histVars
  <2>2. QED
    BY <2>1, QuietKeeps
<1>3. CASE DisConnect
  <2>1. /\ UNCHANGED <<spoken, heard, buf, response, mtx>>
        /\ link' = "closed" /\ wire' = << >> /\ (~disturbed' => ~disturbed)
    BY <1>3 DEF DisConnect, sendVars
  <2>2. YSeqOK'
    BY <1>a, <2>1 DEF YSeqOK
  <2>3. LinkInv'
    BY <2>1 DEF LinkInv
  <2>4. WholeInv'
    BY <1>a, <2>1 DEF WholeInv
  <2>5. QED
    BY <2>2, <2>3, <2>4
<1>4. ASSUME NEW u \in Users, ConnectClear(u)
      PROVE  YSeqOK' /\ LinkInv' /\ WholeInv'
  <2>1. Quiet
    BY <1>a, SendersAssumption, <1>4 DEF ConnectClear, GoOn, Return, Quiet, linkVars, sendVars, histVars, LockOK, EmptyInv, Users
  <2>2. QED
    BY <2>1, QuietKeeps
<1>5. ASSUME NEW u \in Users, ConnectTest(u)
      PROVE  YSeqOK' /\ LinkInv' /\ WholeInv'
  <2>1. Quiet
    BY <1>a, SendersAssumption, <1>5 DEF ConnectTest, GoOn, Return, Proceed, Quiet, linkVars, sendVars, histVars, LockOK, EmptyInv, Users
  <2>2. QED
    BY <2>1, QuietKeeps
<1>6. ASSUME NEW u \in Users, Dial(u)
      PROVE  YSeqOK' /\ LinkInv' /\ WholeInv'
  <2>1. Quiet
    BY <1>a, SendersAssumption, <1>6 DEF Dial, GoOn, Quiet, linkVars, sendVars, histVars, LockOK, EmptyInv, Users
  <2>2. QED
    BY <2>1, QuietKeeps
<1>7. ASSUME NEW u \in Users, DialEnds(u)
      PROVE  YSeqOK' /\ LinkInv' /\ WholeInv'
  BY <1>7, DialEndsKeeps
<1>8. ASSUME NEW u \in Users, ConnectCheck(u)
      PROVE  YSeqOK' /\ LinkInv' /\ WholeInv'
  <2>1. Quiet
    BY <1>a, SendersAssumption, <1>8 DEF ConnectCheck, GoOn, Return, Proceed, Quiet, linkVars, sendVars, histVars, LockOK, EmptyInv, Users
  <2>2. QED
    BY <2>1, QuietKeeps
<1>9. ASSUME NEW s \in Senders, CallSend(s)
      PROVE  YSeqOK' /\ LinkInv' /\ WholeInv'
  <2>1. Quiet
    BY <1>9 DEF CallSend, GoOn, Quiet, linkVars, sendVars, histVars
  <2>2. QED
    BY <2>1, QuietKeeps
<1>10. ASSUME NEW s \in Senders, SendLock(s)
      PROVE  YSeqOK' /\ LinkInv' /\ WholeInv'
  <2>1. /\ UNCHANGED <<link, links, peerOpen, spoken, wire, heard>>
        /\ mtx = Nobody /\ buf' = << >> /\ response' = << >>
        /\ ~disturbed' => ~disturbed
    BY <1>10 DEF SendLock, linkVars
  <2>2. Held' = Held
    BY <2>1 DEF Held
  <2>3. LinkInv'
    BY <1>a, <2>1, <2>2, LinkQuiet
  <2>4. YSeqOK'
    BY <1>a, <2>1 DEF YSeqOK
  <2>5. WholeInv'
    BY <2>1 DEF WholeInv
  <2>6. QED
    BY <2>3, <2>4, <2>5
<1>11. ASSUME NEW s \in Senders, SendClear(s)
      PROVE  YSeqOK' /\ LinkInv' /\ WholeInv'
  <2>1. Quiet
    BY <1>11 DEF SendClear, GoOn, Quiet, linkVars, sendVars, histVars
  <2>2. QED
    BY <2>1, QuietKeeps
<1>12. ASSUME NEW s \in Senders, SendWrite(s)
      PROVE  YSeqOK' /\ LinkInv' /\ WholeInv'
  <2>1. Quiet
    BY <1>12 DEF SendWrite, GoOn, Quiet, linkVars, sendVars, histVars
  <2>2. QED
    BY <2>1, QuietKeeps
<1>13. ASSUME NEW s \in Senders, SendCheckWrite(s)
      PROVE  YSeqOK' /\ LinkInv' /\ WholeInv'
  <2>1. Quiet
    BY <1>a, SendersAssumption, <1>13 DEF SendCheckWrite, GoOn, Return, Quiet, linkVars, sendVars, histVars, LockOK, EmptyInv, Users
  <2>2. QED
    BY <2>1, QuietKeeps
<1>14. ASSUME NEW s \in Senders, BytesArrive(s)
      PROVE  YSeqOK' /\ LinkInv' /\ WholeInv'
  BY <1>14, ArriveKeeps
<1>15. ASSUME NEW s \in Senders, ReadComplete(s)
      PROVE  YSeqOK' /\ LinkInv' /\ WholeInv'
  <2>1. Quiet
    BY <1>15 DEF ReadComplete, ReadEnds, GoOn, Quiet, linkVars, sendVars, histVars
  <2>2. QED
    BY <2>1, QuietKeeps
<1>16. ASSUME NEW s \in Senders, ReadBreaks(s)
      PROVE  YSeqOK' /\ LinkInv' /\ WholeInv'
  <2>1. Quiet
    BY <1>16 DEF ReadBreaks, ReadEnds, GoOn, Quiet, linkVars, sendVars, histVars
  <2>2. QED
    BY <2>1, QuietKeeps
<1>17. ASSUME NEW s \in Senders, SendCheckRead(s)
      PROVE  YSeqOK' /\ LinkInv' /\ WholeInv'
  BY <1>17, CheckKeeps
<1>18. ASSUME NEW s \in Senders, SendExtract(s)
      PROVE  YSeqOK' /\ LinkInv' /\ WholeInv'
  BY <1>18, ExtractKeeps
<1>19. CASE PeerSpeaks
  BY <1>19, SpeakKeeps
<1>20. CASE PeerLeaves
  BY <1>20, LeaveKeeps
<1>21. CASE LimitPasses
  <2>1. Quiet
    BY <1>21 DEF LimitPasses, Quiet, linkVars, sendVars, histVars
  <2>2. QED
    BY <2>1, QuietKeeps
<1>22. CASE UNCHANGED yvars
  <2>1. Quiet
    BY <1>22 DEF yvars, Quiet, linkVars, sendVars, histVars
  <2>2. QED
    BY <2>1, QuietKeeps
<1>23. QED
  BY <1>1, <1>2, <1>3, <1>4, <1>5, <1>6, <1>7, <1>8, <1>9, <1>10, <1>11,
     <1>12, <1>13, <1>14, <1>15, <1>16, <1>17, <1>18, <1>19, <1>20, <1>21, <1>22
     DEF YNext, ConnectStep, SendStep, ReadStep, PeerStep

\* Every step keeps the invariant.
LEMMA SyncStep == YInv /\ [YNext]_yvars => YInv'
<1> SUFFICES ASSUME YInv, [YNext]_yvars
             PROVE  YInv'
  OBVIOUS
<1>1. YControl' /\ HolderInv'
  BY YControlStep, HolderStep DEF YInv
<1>2. YSeqOK' /\ LinkInv' /\ WholeInv'
  BY SaidStep
<1>3. QED
  BY <1>1, <1>2 DEF YInv

\* All of it is an invariant of the synchronous client.
THEOREM SyncInvariant == YSpec => []YInv
BY SyncInit, SyncStep, PTL DEF YSpec

\* What Say says is Spoken.
LEMMA SpokenIs == Spoken = Say(spoken, links)
BY DEF Spoken, Say, Piece

\* A sequence that is continued is a prefix.
LEMMA PrefixIs ==
  ASSUME NEW q \in Seq(Pieces), NEW rest \in Seq(Pieces)
  PROVE  IsPrefix(q, q \o rest)
<1>1. /\ Len(q) \in Nat /\ Len(rest) \in Nat
      /\ q \o rest \in Seq(Pieces) /\ Len(q \o rest) = Len(q) + Len(rest)
      /\ \A i \in 1 .. Len(q) + Len(rest) :
           (q \o rest)[i] = IF i <= Len(q) THEN q[i] ELSE rest[i - Len(q)]
  BY ConcatProperties, LenProperties
<1>2. Len(q) \in 0 .. Len(q) /\ Len(q) \in 0 .. Len(q \o rest)
  BY <1>1
<1>3. /\ SubSeq(q, 1, Len(q)) \in Seq(Pieces) /\ Len(SubSeq(q, 1, Len(q))) = Len(q)
      /\ \A i \in 1 .. Len(q) : SubSeq(q, 1, Len(q))[i] = q[i]
  BY <1>2, TwoPieces
<1>4. /\ SubSeq(q \o rest, 1, Len(q)) \in Seq(Pieces) /\ Len(SubSeq(q \o rest, 1, Len(q))) = Len(q)
      /\ \A i \in 1 .. Len(q) : SubSeq(q \o rest, 1, Len(q))[i] = (q \o rest)[i]
  BY <1>1, <1>2, TwoPieces
<1>5. \A i \in 1 .. Len(q) : SubSeq(q, 1, Len(q))[i] = SubSeq(q \o rest, 1, Len(q))[i]
  <2>1. \A i \in 1 .. Len(q) : i \in 1 .. Len(q) + Len(rest) /\ i <= Len(q)
    BY <1>1
  <2>2. QED
    BY <1>1, <1>3, <1>4, <2>1
<1>6. SubSeq(q, 1, Len(q)) = SubSeq(q \o rest, 1, Len(q))
  BY <1>3, <1>4, <1>5, SeqEqual
<1>7. QED
  BY <1>1, <1>6 DEF IsPrefix

\* No Send skips or repeats anything of what the peer says, in whatever pieces it arrives
\* and whoever listens to it, unless the manager disturbs a Send
\* (TcpSyncClient.cpp:24-52, 219-240).
THEOREM NothingIsSkipped == YSpec => []NothingSkipped
<1>1. YInv => NothingSkipped
  <2> SUFFICES ASSUME YInv, ~disturbed, link = "connected"
               PROVE  /\ IsPrefix((heard \o Held) \o wire, Spoken)
                      /\ peerOpen => (heard \o Held) \o wire = Spoken
    BY DEF NothingSkipped, Held
  <2>1. /\ heard \in Seq(Pieces) /\ Held \in Seq(Pieces) /\ wire \in Seq(Pieces)
    BY EmptySeq DEF YInv, YSeqOK, Held
  <2>2. (heard \o Held) \o wire \in Seq(Pieces)
    BY <2>1, PiecesJoined
  <2>3. PICK rest \in Seq(Pieces) : Say(spoken, links) = ((heard \o Held) \o wire) \o rest
    BY DEF YInv, LinkInv, Said
  <2>4. IsPrefix((heard \o Held) \o wire, Spoken)
    BY <2>2, <2>3, PrefixIs, SpokenIs
  <2>5. peerOpen => (heard \o Held) \o wire = Spoken
    BY SpokenIs DEF YInv, LinkInv
  <2>6. QED
    BY <2>4, <2>5
<1>2. QED
  BY SyncInvariant, <1>1, PTL

\* On a connection on which no Send has been disturbed, a Send that returns tells the truth.
LEMMA OutcomeStep ==
  ASSUME YInv, [YNext]_yvars, mtx # Nobody, mtx' = Nobody, ~disturbed
  PROVE  IF success'
           THEN response' # << >> /\ \A i \in DOMAIN response' : Whole(response'[i])
           ELSE ~(link = "connected" /\ peerOpen)
<1> USE SendersAssumption DEF linkVars, sendVars, histVars, Users
<1>a. YStateOK /\ LockOK /\ EndPointInv /\ HolderInv /\ YSeqOK
  BY DEF YInv, YControl
<1>1. ASSUME NEW u \in Users, ConnectClear(u)
      PROVE  ~success' /\ link = "closed"
  BY <1>1, <1>a DEF ConnectClear, GoOn, Return, EndPointInv
<1>2. ASSUME NEW u \in Users, ConnectTest(u)
      PROVE  FALSE
  BY <1>2, <1>a DEF ConnectTest, GoOn, Return, Proceed
<1>3. ASSUME NEW u \in Users, ConnectCheck(u)
      PROVE  ~success' /\ link # "connected"
  BY <1>3, <1>a DEF ConnectCheck, GoOn, Return, Proceed, HolderInv
<1>4. ASSUME NEW s \in Senders, SendCheckWrite(s)
      PROVE  ~success' /\ ~(link = "connected" /\ peerOpen)
  BY <1>4, <1>a DEF SendCheckWrite, GoOn, Return, HolderInv
<1>5. ASSUME NEW s \in Senders, SendCheckRead(s)
      PROVE  ~success' /\ ~peerOpen
  <2>1. userPc[s] = "check"
    BY <1>5 DEF SendCheckRead
  <2>2. CASE ec # "ok"
    BY <1>5, <1>a, <2>1, <2>2 DEF SendCheckRead, Return, HolderInv
  <2>3. CASE ec = "ok"
    <3>1. HasDelimiter(buf)
      BY <1>a, <2>1, <2>3 DEF HolderInv
    <3>2. buf # << >>
      BY <3>1 DEF HasDelimiter
    <3>3. QED
      BY <1>5, <2>3, <3>2 DEF SendCheckRead
  <2>4. QED
    BY <2>2, <2>3
<1>6. ASSUME NEW s \in Senders, SendExtract(s)
      PROVE  success' /\ response' # << >> /\ \A i \in DOMAIN response' : Whole(response'[i])
  <2>1. success'
    BY <1>6 DEF SendExtract, Return
  <2>2. /\ response' \in Seq(Seq(Pieces)) /\ Len(response) \in Nat
        /\ Len(response') = Len(response) + 1
        /\ \A i \in 1 .. Len(response') : Whole(response'[i])
    BY <1>6, ExtractIs
  <2>3. response' # << >> /\ DOMAIN response' = 1 .. Len(response')
    BY <2>2, EmptySeq, LenProperties
  <2>4. QED
    BY <2>1, <2>2, <2>3
<1>7. ASSUME NEW u \in Users, Dial(u) \/ DialEnds(u)
      PROVE  FALSE
  BY <1>7 DEF Dial, DialEnds
<1>8. ASSUME NEW s \in Senders,
             \/ CallSend(s) \/ SendLock(s) \/ SendClear(s) \/ SendWrite(s)
             \/ ReadStep(s)
      PROVE  FALSE
  BY <1>8 DEF CallSend, SendLock, SendClear, SendWrite, ReadStep, BytesArrive, ReadComplete,
              ReadBreaks
<1>9. CASE SetEndPoint \/ CallConnect \/ DisConnect \/ PeerStep \/ LimitPasses \/ UNCHANGED yvars
  BY <1>9 DEF SetEndPoint, CallConnect, DisConnect, PeerStep, PeerSpeaks, PeerLeaves, LimitPasses,
              yvars
<1>10. QED
  BY <1>1, <1>2, <1>3, <1>4, <1>5, <1>6, <1>7, <1>8, <1>9 DEF YNext, ConnectStep, SendStep

\* On a connection on which no Send has been disturbed, success means an answer of whole messages and
\* failure means being without a peer to talk to (TcpSyncClient.cpp:199, 221-240).
THEOREM SendsTellTheTruth == YSpec => OutcomeIsTrue
<1>1. YInv /\ [YNext]_yvars =>
        [(mtx # Nobody /\ mtx' = Nobody /\ ~disturbed) =>
           IF success' THEN response' # << >> /\ \A i \in DOMAIN response' : Whole(response'[i])
           ELSE ~(link = "connected" /\ peerOpen)]_yvars
  BY OutcomeStep
<1>2. QED
  BY SyncInvariant, <1>1, PTL DEF YSpec, OutcomeIsTrue
=============================================================================
