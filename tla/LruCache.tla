------------------------------ MODULE LruCache ------------------------------
(***************************************************************************)
(* The operations of lru_cache_t that the weight and compensation caches   *)
(* use (lru_cache.hpp), as functions from a cache to a cache.  Time stamps *)
(* only order the entries, so a cache is its mapping and the order of last *)
(* use.  capacity_ is a uint32_t and the eviction bound is computed in     *)
(* size_t, which wraps around.                                             *)
(***************************************************************************)
EXTENDS Integers, Sequences

CONSTANTS CacheKeys,   \* Key_matmul values
          Absent,      \* the value of a key without an entry
          Unlimited,   \* UINT32_MAX
          SizeSpan     \* 2^64, scaled down; larger than Unlimited

LruEmpty == [val |-> [k \in CacheKeys |-> Absent], order |-> <<>>]

LruHas(c, k) == c.val[k] # Absent

\* The order of last use of the entries other than k, which is among them.
LruOthers(order, k) ==
    [i \in 1..(Len(order) - 1) |->
        IF \E j \in 1..i : order[j] = k THEN order[i + 1] ELSE order[i]]

\* try_get on a hit, and get: the entry becomes the most recent one.
LruTouch(c, k) == [c EXCEPT !.order = Append(LruOthers(@, k), k)]

\* evict(n): the least recent entries go until capacity - n remain.
LruExcess(c, capacity, n) ==
    LET bound == (capacity - n) % SizeSpan
    IN IF capacity < Unlimited /\ Len(c.order) > bound
       THEN Len(c.order) - bound ELSE 0

LruVictims(c, capacity, n) == {c.order[i] : i \in 1..LruExcess(c, capacity, n)}

LruEvicted(c, capacity, n) ==
    [val |-> [k \in CacheKeys |->
                IF k \in LruVictims(c, capacity, n) THEN Absent ELSE c.val[k]],
     order |-> SubSeq(c.order, LruExcess(c, capacity, n) + 1, Len(c.order))]

\* add: room is made even when the key is there already; emplace then
\* leaves the entry as it is.
LruAdd(c, capacity, k, v) ==
    LET kept == LruEvicted(c, capacity, 1)
    IN IF LruHas(kept, k) THEN kept
       ELSE [val |-> [kept.val EXCEPT ![k] = v],
             order |-> Append(kept.order, k)]

\* What add hands to free().
LruFreedByAdd(c, capacity) ==
    {c.val[k] : k \in LruVictims(c, capacity, 1)}

\* What clear hands to free().
LruHeld(c) == {c.val[k] : k \in CacheKeys} \ {Absent}
=============================================================================
