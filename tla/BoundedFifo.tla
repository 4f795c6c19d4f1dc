----------------------------- MODULE BoundedFifo -----------------------------
(***************************************************************************)
(* What the path cache promises, without slots or indices: a queue of at   *)
(* most Capacity computed values, oldest first.  A request for a key that  *)
(* is queued leaves the queue alone; any other request appends a new value *)
(* and, when the queue is full, drops the oldest one -- "Once full, a miss *)
(* overwrites the oldest entry" (PathCache.h).                             *)
(***************************************************************************)
EXTENDS Integers, Sequences

CONSTANTS Key, Value, Capacity

VARIABLE queue          \* sequence of [key, segs], oldest first

Queued(k) == \E i \in DOMAIN queue : queue[i].key = k

Init == queue = << >>

Hit(k) == Queued(k) /\ UNCHANGED queue

Miss(k, v) ==
    /\ ~Queued(k)
    /\ queue' = Append(IF Len(queue) < Capacity THEN queue ELSE Tail(queue),
                       [key |-> k, segs |-> v])

Forget == queue' = << >>

Next ==
    \/ \E k \in Key : Hit(k)
    \/ \E k \in Key, v \in Value : Miss(k, v)
    \/ Forget

Spec == Init /\ [][Next]_queue
=============================================================================
