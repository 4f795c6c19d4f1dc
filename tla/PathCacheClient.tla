--------------------------- MODULE PathCacheClient ---------------------------
(***************************************************************************)
(* PathCache together with the callers that keep the references it hands   *)
(* out.  find() and store() return a reference into the ring which "stays  *)
(* valid until the owner calls clear(), or until enough distinct keys are  *)
(* requested to evict that entry" (PathCache.h).  held records, for every  *)
(* key, the reference a caller last took, the value it read there, and the *)
(* number of stores made since that entry was stored: after Capacity of    *)
(* them the entry may be gone and the promise is over.                     *)
(***************************************************************************)
EXTENDS PathCache

CONSTANTS
    Key,                \* the argument lists callers pass
    Value,              \* the paths that can be computed
    None                \* no reference is held for this key

VARIABLE held           \* held[k] : None or [slot, segs, age]

clientVars == <<entries_, next_, held>>

Reference == [slot : 1 .. Capacity, segs : Value, age : 0 .. Capacity - 1]

ClientInit ==
    /\ CacheInit
    /\ held = [k \in Key |-> None]

(* One more store was made: every reference is one step nearer eviction.   *)
Aged(h) ==
    IF h = None \/ h.age + 1 >= Capacity THEN None
    ELSE [slot |-> h.slot, segs |-> h.segs, age |-> h.age + 1]

(* The stores made since the entry in slot s was written: slots up to      *)
(* next_ were written in this round, the others in the one before.         *)
AgeOfSlot(s) ==
    IF ~Full THEN Len(entries_) - s
    ELSE IF s <= next_ THEN next_ - s
    ELSE next_ - s + Capacity

(* path() when find() succeeds: the caller gets the slot's address.        *)
Hit(k) ==
    /\ Cached(k)
    /\ held' = [held EXCEPT ![k] = [slot |-> Slot(k),
                                    segs |-> Find(k),
                                    age  |-> AgeOfSlot(Slot(k))]]
    /\ UNCHANGED cacheVars

(* path() when find() fails: the path is computed, stored, and the caller  *)
(* gets the address of the slot it was stored in.                          *)
Miss(k, v) ==
    /\ ~Cached(k)
    /\ Store(k, v)
    /\ held' = [j \in Key |-> IF j = k
                                THEN [slot |-> StoredSlot, segs |-> v, age |-> 0]
                                ELSE Aged(held[j])]

(* The caller's trace is over and its reference goes out of scope.         *)
Release(k) ==
    /\ held[k] # None
    /\ held' = [held EXCEPT ![k] = None]
    /\ UNCHANGED cacheVars

(* The owner rewrote the model: every reference it handed out is void.     *)
Invalidate ==
    /\ Clear
    /\ held' = [k \in Key |-> None]

ClientNext ==
    \/ \E k \in Key : Hit(k) \/ Release(k)
    \/ \E k \in Key, v \in Value : Miss(k, v)
    \/ Invalidate

ClientSpec == ClientInit /\ [][ClientNext]_clientVars

-----------------------------------------------------------------------------
ClientTypeOK ==
    /\ RingTypeOK(Key, Value)
    /\ held \in [Key -> Reference \cup {None}]

(* A reference that is still within its promised life reads the very path  *)
(* it was handed out for: no later store has moved or overwritten it.      *)
HeldReferencesValid ==
    \A k \in Key : held[k] # None =>
        /\ held[k].slot \in DOMAIN entries_
        /\ entries_[held[k].slot] = [key |-> k, segs |-> held[k].segs]

(* Where an entry of a given age lives: the relation between a reference's *)
(* slot, its age and next_ that makes HeldReferencesValid inductive.       *)
AgesAgree ==
    \A k \in Key : held[k] # None => held[k].age = AgeOfSlot(held[k].slot)

(* What the four facts together need: the ring fills from its first slot,   *)
(* no key sits in two slots, and ages locate the references.               *)
RingInv == RingFillsFirst /\ Distinct /\ AgesAgree

-----------------------------------------------------------------------------
(* The ring, read from the oldest entry to the newest, is a bounded queue. *)

OldestFirst ==
    SubSeq(entries_, next_ + 1, Len(entries_)) \o SubSeq(entries_, 1, next_)

Fifo == INSTANCE BoundedFifo WITH queue <- OldestFirst

(* The ring implements the bounded queue: what a miss evicts is always the *)
(* oldest path, also after the ring was cleared while next_ pointed inside.*)
ImplementsFifo == Fifo!Spec
=============================================================================
