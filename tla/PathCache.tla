------------------------------ MODULE PathCache ------------------------------
(***************************************************************************)
(* The ring of computed paths that a SequentialModel keeps                 *)
(* (include/redukti/rayoptics/seq/PathCache.h).                            *)
(*                                                                         *)
(* An entry pairs the arguments of SequentialModel::path with the path     *)
(* they produced.  Slots are filled in order until the ring is full; from  *)
(* then on a store overwrites the slot next_ points at.  What a path is    *)
(* made of does not matter here: Key is any set, and a value is anything.  *)
(*                                                                         *)
(* Slots are numbered from 1 and next_ from 0, as in the code's arithmetic *)
(* (slot next_ + 1 is the code's entries_[next_]).                         *)
(***************************************************************************)
EXTENDS Integers, Sequences

CONSTANTS Capacity      \* PathCache::CAPACITY, 16 in the code

ASSUME CapacityAssumption == Capacity \in Nat \ {0}

VARIABLES
    entries_,           \* the ring: a sequence of [key, segs]
    next_               \* slot to overwrite once the ring is full

cacheVars == <<entries_, next_>>

CacheInit ==
    /\ entries_ = << >>
    /\ next_ = 0

-----------------------------------------------------------------------------
(* find(): the slots whose key matches.  The linear scan returns the first *)
(* of them; Distinct below says there is never a second.                   *)

Slots(k) == {i \in DOMAIN entries_ : entries_[i].key = k}

Cached(k) == Slots(k) # {}

Slot(k) == CHOOSE i \in Slots(k) : \A j \in Slots(k) : i <= j

Find(k) == entries_[Slot(k)].segs

(* store(): grow until full, then overwrite the slot next_ and step it.    *)

Full == Len(entries_) >= Capacity

StoredSlot == IF Full THEN next_ + 1 ELSE Len(entries_) + 1

(* Mutants of store(): next_ steps before it is used; next_ never steps.   *)
StoreInto(slot, next, k, v) ==
    IF Full
      THEN /\ entries_' = [entries_ EXCEPT ![slot] = [key |-> k, segs |-> v]]
           /\ next_' = next
      ELSE /\ entries_' = Append(entries_, [key |-> k, segs |-> v])
           /\ next_' = next_

StorePreincremented(k, v) ==
    StoreInto(((next_ + 1) % Capacity) + 1, (next_ + 1) % Capacity, k, v)

StoreStuck(k, v) == StoreInto(next_ + 1, next_, k, v)

Store(k, v) ==
    IF Full
      THEN /\ entries_' = [entries_ EXCEPT ![next_ + 1] = [key |-> k, segs |-> v]]
           /\ next_' = (next_ + 1) % Capacity
      ELSE /\ entries_' = Append(entries_, [key |-> k, segs |-> v])
           /\ next_' = next_

(* Mutant of clear(): only the slot to overwrite goes back.                *)
ClearRewinding == next_' = 0 /\ UNCHANGED entries_

(* clear(): drop every entry and start filling from the first slot again.  *)

Clear ==
    /\ entries_' = << >>
    /\ next_' = 0

-----------------------------------------------------------------------------

RingTypeOK(K, V) ==
    /\ entries_ \in Seq([key : K, segs : V])
    /\ Len(entries_) <= Capacity
    /\ next_ \in 0 .. Capacity - 1

(* next_ leaves 0 only when the ring is full: while it still grows, the    *)
(* oldest entry is the first one.                                          *)
RingFillsFirst == ~Full => next_ = 0

(* No key occupies two slots, so the entry the scan meets first is the     *)
(* only one there is.                                                      *)
Distinct ==
    \A i, j \in DOMAIN entries_ : entries_[i].key = entries_[j].key => i = j
=============================================================================
