------------------------------ MODULE MCShared ------------------------------
(* The objects that threads share and wait on: the blocking queue, the     *)
(* ring buffer, the array of slots and the synchronous TCP client.  None   *)
(* knows of another, so that their behaviours need not be interleaved:     *)
(* while one is at work the others are as they were created, where nothing *)
(* of them is under way.                                                   *)
EXTENDS WaitableQueue, SpscQueue, SlotArray, TcpSyncClient

CONSTANTS p1, p2, c1, c2, k1, k2, a, b, s1, s2

\* Two producers and two consumers, so that notifications and wakeups can cross;
\* two closers, the owner and whoever destroys the queue.
MCProducers == {p1, p2}
MCConsumers == {c1, c2}
MCClosers == {k1, k2}
\* Two values, to tell the order apart.
MCValues == {a, b}
\* Two threads that send, or that take from the same slots.
MCSenders == {s1, s2}

SharedInit == QInit /\ SInit /\ ZInit /\ YInit

SharedNext ==
  \/ SInit /\ ZInit /\ YInit /\ QNext /\ UNCHANGED <<svars, zvars, yvars>>
  \/ QInit /\ ZInit /\ YInit /\ SNext /\ UNCHANGED <<qvars, zvars, yvars>>
  \/ QInit /\ SInit /\ YInit /\ ZNext /\ UNCHANGED <<qvars, svars, yvars>>
  \/ QInit /\ SInit /\ ZInit /\ YNext /\ UNCHANGED <<qvars, svars, zvars>>

SharedSpec ==
  SharedInit /\ [][SharedNext]_<<qvars, svars, zvars, yvars>> /\ QFairness /\ ClientFairness
=============================================================================
