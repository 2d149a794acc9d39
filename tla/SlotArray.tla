------------------------------ MODULE SlotArray ------------------------------
(***************************************************************************)
(* QueueSlot.hpp: LockFreeSignedSlotArray, an array of atomic pointers     *)
(* under the keys 0 to RangeN.  set stores over whatever is there, and     *)
(* try_consume is a load and a compare-and-swap.  A call with a key out of *)
(* range, or a set of nullptr, does nothing; peek changes nothing.         *)
(*                                                                         *)
(* A load may return an old value of its slot, a compare-and-swap acts on  *)
(* the newest.                                                             *)
(***************************************************************************)
EXTENDS Naturals, FiniteSets

CONSTANTS
  Takers,     \* threads that call try_consume; any thread may set and clear
  Pointers, Null,
  RangeN,
  MaxSets     \* bound: calls of set for a pointer

ASSUME RangeAssumption   == RangeN \in Nat \ {0} /\ MaxSets \in Nat
ASSUME PointerAssumption == Null \notin Pointers

Keys == 0 .. RangeN

VARIABLES
  slots,     \* slots_
  past,      \* the values that slot k has had, which a load may return
  expected,  \* what taker t has loaded, Null between its calls
  takerKey,  \* the key of its call
  sets,      \* history: how often set was called for pointer p,
  consumed,  \* how often try_consume returned it,
  dropped    \* and how often it was overwritten or cleared

zvars == <<slots, past, expected, takerKey, sets, consumed, dropped>>

ZInit ==
  /\ slots = [k \in Keys |-> Null] /\ past = [k \in Keys |-> {Null}]
  /\ expected = [t \in Takers |-> Null] /\ takerKey = [t \in Takers |-> 0]
  /\ sets = [p \in Pointers |-> 0]
  /\ consumed = [p \in Pointers |-> 0]
  /\ dropped = [p \in Pointers |-> 0]

Counted(f, p) == IF p = Null THEN f ELSE [f EXCEPT ![p] = @ + 1]

Store(k, p) ==
  /\ slots' = [slots EXCEPT ![k] = p]
  /\ past' = [past EXCEPT ![k] = @ \cup {p}]

SetSlot(k, p) ==
  /\ sets[p] < MaxSets
  /\ Store(k, p)
  /\ sets' = Counted(sets, p)
  /\ dropped' = Counted(dropped, slots[k])
  /\ UNCHANGED <<expected, takerKey, consumed>>

Clear(k) ==
  /\ Store(k, Null)
  /\ dropped' = Counted(dropped, slots[k])
  /\ UNCHANGED <<expected, takerKey, sets, consumed>>

\* Where nullptr is loaded the call returns nothing.
TakeLoad(t, k) ==
  /\ expected[t] = Null
  /\ \E p \in past[k] : expected' = [expected EXCEPT ![t] = p]
  /\ takerKey' = [takerKey EXCEPT ![t] = k]
  /\ UNCHANGED <<slots, past, sets, consumed, dropped>>

\* Mutation: a store in the place of the compare-and-swap.
TakeStore(t) ==
  /\ expected[t] # Null
  /\ Store(takerKey[t], Null)
  /\ consumed' = Counted(consumed, expected[t])
  /\ expected' = [expected EXCEPT ![t] = Null]
  /\ UNCHANGED <<takerKey, sets, dropped>>

TakeSwap(t) ==
  /\ expected[t] # Null
  /\ IF slots[takerKey[t]] = expected[t]
       THEN Store(takerKey[t], Null) /\ consumed' = Counted(consumed, expected[t])
       ELSE UNCHANGED <<slots, past, consumed>>
  /\ expected' = [expected EXCEPT ![t] = Null]
  /\ UNCHANGED <<takerKey, sets, dropped>>

ZNext ==
  \/ \E k \in Keys : (\E p \in Pointers : SetSlot(k, p)) \/ Clear(k)
  \/ \E t \in Takers : (\E k \in Keys : TakeLoad(t, k)) \/ TakeSwap(t)

ZSpec == ZInit /\ [][ZNext]_zvars
-----------------------------------------------------------------------------
\* Each variable has its type.
ZTypeOK ==
  /\ slots \in [Keys -> Pointers \cup {Null}]
  /\ past \in [Keys -> SUBSET (Pointers \cup {Null})]
  /\ expected \in [Takers -> Pointers \cup {Null}]
  /\ takerKey \in [Takers -> Keys]
  /\ {sets, consumed, dropped} \subseteq [Pointers -> Nat]

\* The keys under which pointer p can be found.
KeysOf(p) == {k \in Keys : slots[k] = p}

\* Each pointer that was set is consumed once, or overwritten or cleared, or still in
\* a slot: takers that compete, act on old values, or meet a pointer that has been
\* consumed and set again neither get it twice nor lose it (QueueSlot.hpp:28-46).
ConsumedOnce ==
  \A p \in Pointers :
    sets[p] = consumed[p] + dropped[p] + Cardinality(KeysOf(p))
=============================================================================
