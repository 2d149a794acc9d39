---------------------------- MODULE BoundedFifo ----------------------------
(***************************************************************************)
(* What the queues of the library promise: values come out in the order in *)
(* which they went in, never more than Bound of them are inside, and a     *)
(* queue that has been shut takes nothing more but still gives out what it *)
(* holds.  WaitableQueue and SpscQueue are shown to implement it.          *)
(***************************************************************************)
EXTENDS Naturals, Sequences

CONSTANTS Values, Bound, NoValue

VARIABLES
  content,  \* the values inside, oldest first
  shut,
  last      \* the value taken out last

fifoVars == <<content, shut, last>>

FifoInit == content = << >> /\ shut = FALSE /\ last = NoValue

Put(v) ==
  /\ ~shut /\ Len(content) < Bound
  /\ content' = Append(content, v)
  /\ UNCHANGED <<shut, last>>

Take ==
  /\ content # << >>
  /\ last' = Head(content)
  /\ content' = Tail(content)
  /\ UNCHANGED shut

Shut ==
  /\ shut' = TRUE
  /\ UNCHANGED <<content, last>>

FifoNext == (\E v \in Values : Put(v)) \/ Take \/ Shut

FifoSpec == FifoInit /\ [][FifoNext]_fifoVars
=============================================================================
