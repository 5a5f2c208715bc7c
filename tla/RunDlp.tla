------------------------------- MODULE RunDlp -------------------------------
(***************************************************************************)
(* run_dlp (aocl_kernel.cpp) as concurrent callers see it: the zero-point  *)
(* compensation and its cache (lowoha_cache.hpp), then the blocked weight  *)
(* and its cache (reorderAndCacheWeights), then the GEMM that reads both,  *)
(* then the frees.  Who owns which heap buffer and what every buffer, the  *)
(* caller's weights included, holds is the state that matters.             *)
(*                                                                         *)
(* A lookup, a recheck and an insertion are critical sections of           *)
(* get_lowoha_mutex() or of the weight cache's mutex and are one step.     *)
(* The in-place reorder is two steps under the mutex, because the column   *)
(* sums of another caller read the same weights without it.                *)
(***************************************************************************)
EXTENDS Integers, Sequences, FiniteSets

CONSTANTS Threads,      \* callers
          Weights,      \* weight tensors; one cache key each
          Prepacked,    \* those passed with mem_format_b = 'r'
          Fits,         \* those whose blocked form is as large as the plain one
          Buffers,      \* heap blocks
          Settings,     \* configurations of the process, see below
          Capacity,     \* ZENDNNL_LRU_CACHE_CAPACITY
          Null, Absent, Unlimited, SizeSpan

\* Of a process: cacheType is ZENDNNL_MATMUL_WEIGHT_CACHE and zpCache is
\* ZENDNNL_ZP_COMP_CACHE; zps are the <<src_zp, wei_zp>> its layers pass,
\* const the weights passed with is_weights_const, and fail the
\* allocations that may fail: the buffer of the sums and, in the in-place
\* branch, the interim buffer and the fallback block.
ASSUME DlpAssumption ==
    /\ Prepacked \subseteq Weights
    /\ Fits \subseteq Weights
    /\ Null \notin Threads \cup Buffers \cup {Absent}
    /\ Absent \notin Buffers
    /\ Settings \subseteq
         [cacheType : 0..2, zpCache : BOOLEAN, zps : SUBSET (Nat \X Nat),
          const : SUBSET Weights, fail : SUBSET {"interim", "fallback", "sums"}]
    /\ Capacity \in Nat /\ Unlimited \in Nat /\ SizeSpan \in Nat
    /\ Capacity <= Unlimited /\ Unlimited < SizeSpan

INSTANCE LruCache WITH CacheKeys <- Weights

VARIABLES setting,  \* the configuration, fixed in a process
          user,     \* user[w]: what the caller's weight buffer holds
          heap,     \* heap[b]: what block b holds
          packs,    \* the AOCL weight cache
          comps,    \* the zero-point compensation cache
          holder,   \* who is inside the weight cache's mutex
          pc, call, \* where each caller is, and what it was asked
          operand,  \* reordered_mem, or Null when the GEMM reads the weights
          blocked,  \* mem_format_b = 'r' when the GEMM is called
          comp      \* zp_comp_acc

vars == <<setting, user, heap, packs, comps, holder, pc, call, operand,
          blocked, comp>>
shared == <<user, heap, packs, comps, holder>>

Pack(w, clean) == [is |-> "pack", w |-> w, zp |-> <<0, 0>>, clean |-> clean]
Comp(w, z, clean) == [is |-> "comp", w |-> w, zp |-> z, clean |-> clean]
Free == [is |-> "free"]
ZeroPoints == {<<0, 0>>} \cup UNION {s.zps : s \in Settings}
Contents ==
    {Free} \cup [is : {"pack", "comp"}, w : Weights, zp : ZeroPoints, clean : BOOLEAN]
Calls == [w : Weights, zp : ZeroPoints]
LruStates(values) == [val : [Weights -> values \cup {Absent}], order : Seq(Weights)]

TypeOK ==
    /\ setting \in Settings
    /\ user \in [Weights -> {"raw", "blocking", "blocked", "garbling", "garbled"}]
    /\ heap \in [Buffers -> Contents]
    /\ packs \in LruStates(Buffers \cup {Null})
    /\ comps \in LruStates(Buffers)
    /\ holder \in Threads \cup {Null}
    /\ pc \in [Threads -> {"out", "zp", "sum", "insert", "reorder", "inPlace", "gemm"}]
    /\ call \in [Threads -> Calls]
    /\ operand \in [Threads -> Buffers \cup {Null}]
    /\ blocked \in [Threads -> BOOLEAN]
    /\ comp \in [Threads -> Buffers \cup {Null}]

Original(w) == IF w \in Prepacked THEN "blocked" ELSE "raw"

Init ==
    /\ setting \in Settings
    /\ user = [w \in Weights |-> Original(w)]
    /\ heap = [b \in Buffers |-> Free]
    /\ packs = LruEmpty
    /\ comps = LruEmpty
    /\ holder = Null
    /\ pc = [t \in Threads |-> "out"]
    /\ call \in [Threads -> [w : Weights, zp : {<<0, 0>>}]]
    /\ operand = [t \in Threads |-> Null]
    /\ blocked = [t \in Threads |-> FALSE]
    /\ comp = [t \in Threads |-> Null]

W(t) == call[t].w
SrcZp(t) == call[t].zp[1]
WeiZp(t) == call[t].zp[2]
Goto(t, label) == pc' = [pc EXCEPT ![t] = label]
Unused == {b \in Buffers : heap[b] = Free}
Freed(bs) == [b \in Buffers |-> IF b \in bs THEN Free ELSE heap[b]]
----------------------------------------------------------------------------
\* A call arrives and reads its zero points.
Arrives(t, w, z) ==
    /\ pc[t] = "out"
    /\ z \in setting.zps
    /\ w \in Prepacked => z = <<0, 0>>
    /\ call' = [call EXCEPT ![t] = [w |-> w, zp |-> z]]
    /\ Goto(t, IF z = <<0, 0>> THEN "reorder" ELSE "zp")
    /\ UNCHANGED <<setting, shared, operand, blocked, comp>>

\* can_cache: only the compensation for a source zero point is kept.
CanCache(t) ==
    /\ SrcZp(t) # 0 /\ WeiZp(t) = 0
    /\ W(t) \in setting.const
    /\ setting.zpCache

ZpHits(t) ==
    /\ pc[t] = "zp" /\ CanCache(t) /\ LruHas(comps, W(t))
    /\ comp' = [comp EXCEPT ![t] = comps.val[W(t)]]
    /\ comps' = LruTouch(comps, W(t))
    /\ Goto(t, "reorder")
    /\ UNCHANGED <<setting, user, heap, packs, holder, call, operand, blocked>>

ZpMisses(t) ==
    /\ pc[t] = "zp" /\ ~(CanCache(t) /\ LruHas(comps, W(t)))
    /\ Goto(t, "sum")
    /\ UNCHANGED <<setting, shared, call, operand, blocked, comp>>

\* The sums read the weights, unless only they have a zero point.
ZpSums(t, b) ==
    /\ pc[t] = "sum"
    /\ b \in Unused
    /\ heap' = [heap EXCEPT ![b] =
                  Comp(W(t), call[t].zp, SrcZp(t) = 0 \/ user[W(t)] = "raw")]
    /\ comp' = [comp EXCEPT ![t] = b]
    /\ Goto(t, IF CanCache(t) THEN "insert" ELSE "reorder")
    /\ UNCHANGED <<setting, user, packs, comps, holder, call, operand, blocked>>

\* No buffer for the sums: null is returned before any lookup or insertion,
\* and run_dlp goes on to reorder and multiply without compensation.
ZpFails(t) ==
    /\ pc[t] = "sum" /\ "sums" \in setting.fail
    /\ Goto(t, "reorder")
    /\ UNCHANGED <<setting, shared, call, operand, blocked, comp>>

\* The recheck finds that a peer inserted meanwhile: its sums are used.
\* Mutations: the duplicate is not freed; the caller keeps its own.
ZpPeerWon_Leaks(t) ==
    /\ pc[t] = "insert" /\ LruHas(comps, W(t))
    /\ comp' = [comp EXCEPT ![t] = comps.val[W(t)]]
    /\ comps' = LruTouch(comps, W(t))
    /\ Goto(t, "reorder")
    /\ UNCHANGED <<setting, user, heap, packs, holder, call, operand, blocked>>
ZpPeerWon_KeepsOwn(t) ==
    /\ pc[t] = "insert" /\ LruHas(comps, W(t))
    /\ Goto(t, "reorder")
    /\ UNCHANGED <<setting, shared, call, operand, blocked, comp>>

ZpPeerWon(t) ==
    /\ pc[t] = "insert" /\ LruHas(comps, W(t))
    /\ heap' = Freed({comp[t]})
    /\ comp' = [comp EXCEPT ![t] = comps.val[W(t)]]
    /\ comps' = LruTouch(comps, W(t))
    /\ Goto(t, "reorder")
    /\ UNCHANGED <<setting, user, packs, holder, call, operand, blocked>>

ZpInserts(t) ==
    /\ pc[t] = "insert" /\ ~LruHas(comps, W(t))
    /\ heap' = Freed(LruFreedByAdd(comps, Capacity))
    /\ comps' = LruAdd(comps, Capacity, W(t), comp[t])
    /\ Goto(t, "reorder")
    /\ UNCHANGED <<setting, user, packs, holder, call, operand, blocked, comp>>
----------------------------------------------------------------------------
\* What the GEMM of t will read: b, or the caller's buffer when b is Null.
Takes(t, b, isBlocked) ==
    /\ operand' = [operand EXCEPT ![t] = b]
    /\ blocked' = [blocked EXCEPT ![t] = isBlocked]
    /\ Goto(t, "gemm")
    /\ UNCHANGED <<setting, call, comp>>

\* Weights that may change are used as they come.
WeightsAsGiven(t) ==
    /\ pc[t] = "reorder" /\ W(t) \notin setting.const
    /\ Takes(t, Null, W(t) \in Prepacked)
    /\ UNCHANGED shared

ToReorder(t) == pc[t] = "reorder" /\ W(t) \in setting.const \ Prepacked

\* mem_format_b = 'r': recorded without the weight cache's mutex.
AlreadyBlocked(t) ==
    /\ pc[t] = "reorder" /\ W(t) \in setting.const \cap Prepacked
    /\ packs' = LruAdd(packs, Capacity, W(t), Null)
    /\ heap' = Freed(LruFreedByAdd(packs, Capacity))
    /\ Takes(t, Null, TRUE)
    /\ UNCHANGED <<user, comps, holder>>

\* weight_cache_type 0: a private copy, made outside any lock.
ReorderUncached(t, b) ==
    /\ ToReorder(t) /\ setting.cacheType = 0
    /\ b \in Unused
    /\ heap' = [heap EXCEPT ![b] = Pack(W(t), user[W(t)] = "raw")]
    /\ Takes(t, b, TRUE)
    /\ UNCHANGED <<user, packs, comps, holder>>

\* weight_cache_type 1 and 2 look the weights up inside the mutex.
Enters(t) == ToReorder(t) /\ setting.cacheType # 0 /\ holder = Null

\* Mutation: the stored pointer is used without asking whether there is one.
CacheHits_Unchecked(t) ==
    /\ Enters(t)
    /\ packs' = LruTouch(packs, W(t))
    /\ Takes(t, packs.val[W(t)], TRUE)
    /\ UNCHANGED <<user, heap, comps, holder>>

CacheHits(t) ==
    /\ Enters(t) /\ LruHas(packs, W(t))
    /\ packs' = LruTouch(packs, W(t))
    /\ Takes(t, packs.val[W(t)], TRUE)
    /\ UNCHANGED <<user, heap, comps, holder>>

MayRunInPlace(t) == setting.cacheType = 2 /\ W(t) \in Fits

\* Type 1 on a miss; type 2 when the blocked form does not fit or no
\* interim buffer can be had.
CachePacks(t, b) ==
    /\ Enters(t) /\ ~LruHas(packs, W(t))
    /\ MayRunInPlace(t) => "interim" \in setting.fail
    /\ b \in Unused
    /\ packs' = LruAdd(packs, Capacity, W(t), b)
    /\ heap' = [Freed(LruFreedByAdd(packs, Capacity)) EXCEPT ![b] =
                  Pack(W(t), user[W(t)] = "raw")]
    /\ Takes(t, b, TRUE)
    /\ UNCHANGED <<user, comps, holder>>

\* Type 2 without a byte to spare: the GEMM falls back to plain weights.
NothingAllocated(t) ==
    /\ Enters(t) /\ ~LruHas(packs, W(t))
    /\ setting.cacheType = 2 /\ "fallback" \in setting.fail
    /\ MayRunInPlace(t) => "interim" \in setting.fail
    /\ Takes(t, Null, FALSE)
    /\ UNCHANGED shared

\* Type 2: reorder into the interim buffer, then copy it over the weights.
\* Mutation: the lookup is made before the mutex is taken.
InPlaceBegins_NoLookup(t) ==
    /\ Enters(t) /\ MayRunInPlace(t)
    /\ holder' = t
    /\ user' = [user EXCEPT ![W(t)] = IF @ = "raw" THEN "blocking" ELSE "garbling"]
    /\ Goto(t, "inPlace")
    /\ UNCHANGED <<setting, heap, packs, comps, call, operand, blocked, comp>>

InPlaceBegins(t) ==
    /\ Enters(t) /\ ~LruHas(packs, W(t)) /\ MayRunInPlace(t)
    /\ holder' = t
    /\ user' = [user EXCEPT ![W(t)] = IF @ = "raw" THEN "blocking" ELSE "garbling"]
    /\ Goto(t, "inPlace")
    /\ UNCHANGED <<setting, heap, packs, comps, call, operand, blocked, comp>>

\* The copy is complete; a null entry records it and the mutex is left.
\* Mutation: the record is forgotten.
InPlaceEnds_Forgets(t) ==
    /\ pc[t] = "inPlace"
    /\ holder' = Null
    /\ user' = [user EXCEPT ![W(t)] = IF @ = "blocking" THEN "blocked" ELSE "garbled"]
    /\ Takes(t, Null, TRUE)
    /\ UNCHANGED <<heap, packs, comps>>

InPlaceEnds(t) ==
    /\ pc[t] = "inPlace"
    /\ holder' = Null
    /\ user' = [user EXCEPT ![W(t)] = IF @ = "blocking" THEN "blocked" ELSE "garbled"]
    /\ packs' = LruAdd(packs, Capacity, W(t), Null)
    /\ heap' = Freed(LruFreedByAdd(packs, Capacity))
    /\ Takes(t, Null, TRUE)
    /\ UNCHANGED comps
----------------------------------------------------------------------------
\* The GEMM is over: what was not cached is freed, and the call returns.
GemmEnds(t) ==
    /\ pc[t] = "gemm"
    /\ LET pack == IF setting.cacheType = 0 THEN {operand[t]} ELSE {}
           sums == IF ~setting.zpCache \/ WeiZp(t) # 0 THEN {comp[t]} ELSE {}
       IN heap' = Freed(pack \cup sums)
    /\ operand' = [operand EXCEPT ![t] = Null]
    /\ blocked' = [blocked EXCEPT ![t] = FALSE]
    /\ comp' = [comp EXCEPT ![t] = Null]
    /\ Goto(t, "out")
    /\ UNCHANGED <<setting, user, packs, comps, holder, call>>

\* clear_aocl_matmul_weight_caches between two test cases; the next one
\* fills the weight buffers anew.
ClearCaches ==
    /\ \A t \in Threads : pc[t] = "out"
    /\ heap' = Freed(LruHeld(packs) \cup LruHeld(comps))
    /\ packs' = LruEmpty
    /\ comps' = LruEmpty
    /\ user' = [w \in Weights |-> Original(w)]
    /\ UNCHANGED <<setting, holder, pc, call, operand, blocked, comp>>

Next ==
    \/ \E t \in Threads :
          \/ \E w \in Weights, z \in ZeroPoints : Arrives(t, w, z)
          \/ ZpHits(t) \/ ZpMisses(t) \/ ZpFails(t) \/ ZpPeerWon(t) \/ ZpInserts(t)
          \/ WeightsAsGiven(t) \/ AlreadyBlocked(t)
          \/ CacheHits(t) \/ NothingAllocated(t)
          \/ InPlaceBegins(t) \/ InPlaceEnds(t)
          \/ \E b \in Buffers :
                ZpSums(t, b) \/ ReorderUncached(t, b) \/ CachePacks(t, b)
          \/ GemmEnds(t)
    \/ ClearCaches

Spec == Init /\ [][Next]_vars
----------------------------------------------------------------------------
\* What run_dlp's callers must keep to, and what a process must not run out
\* of, for the properties below; MCRunDlp violates the first, the third and
\* the fourth in turn.

\* ZENDNNL_LRU_CACHE_CAPACITY is left at its default.
NothingIsEvicted == Capacity = Unlimited

\* The interim and the fallback allocation never fail for the same weights.
OneInPlaceFailure ==
    \A s \in Settings :
        s.cacheType = 2 /\ Fits # {} => ~({"interim", "fallback"} \subseteq s.fail)

\* With the compensation cache on, a source zero point alone means constant
\* weights.
CacheableIsCached ==
    \A s \in Settings : \A z \in s.zps :
        s.zpCache /\ z[1] # 0 /\ z[2] = 0 => s.const = Weights

\* A source zero point that is cached without the zero point in the key is
\* the only one of its process.
OneSourceZp ==
    \A s \in Settings : \A y, z \in s.zps :
        s.zpCache /\ y[1] # 0 /\ z[1] # 0 /\ y[2] = 0 /\ z[2] = 0 => y = z

\* In-place caching goes with symmetric sources, or with symmetric weights
\* whose compensation every call sums or finds first (aocl_kernel.cpp:1041-1050);
\* a call that could not allocate its sums has done neither when it reorders.
CompBeforeInPlace ==
    \A s \in Settings : s.cacheType = 2 =>
        \/ \A z \in s.zps : z[1] = 0
        \/ /\ s.zpCache /\ "sums" \notin s.fail
           /\ \A z \in s.zps : z[1] # 0 /\ z[2] = 0

(* The blocked GEMM kernel never meets anything but the blocked form of its
   own weights: not a block that was evicted and freed under it, not plain
   or half-copied or twice reordered bytes (aocl_kernel.cpp:577-583, 1144-1150). *)
GemmReadsItsPack ==
    \A t \in Threads : pc[t] = "gemm" =>
        IF operand[t] # Null
        THEN heap[operand[t]] = Pack(W(t), TRUE)
        ELSE user[W(t)] = IF blocked[t] THEN "blocked" ELSE "raw"

(* Compensation is for the zero points of this very call and was summed over
   plain weights, whichever thread summed it, whatever in-place reorder went on
   meanwhile (aocl_kernel.cpp:1033-1040) and whichever calls could not allocate
   theirs.  It is missing where there is nothing to compensate, and otherwise
   only in a process in which its allocation may fail (lowoha_cache.hpp:113,
   156, 193; aocl_postop.cpp:955-966). *)
CompIsForThisCall ==
    \A t \in Threads : pc[t] = "gemm" =>
        /\ call[t].zp = <<0, 0>> => comp[t] = Null
        /\ comp[t] = Null => call[t].zp = <<0, 0>> \/ "sums" \in setting.fail
        /\ comp[t] # Null => heap[comp[t]] = Comp(W(t), call[t].zp, TRUE)

(* Every live block has one owner, a cache entry or one call in progress: what
   run_dlp does not cache it frees (aocl_kernel.cpp:1521-1534), once. *)
CacheEntriesOf(b) ==
    {w \in Weights : packs.val[w] = b} \cup {w \in Weights : comps.val[w] = b}
CallsWith(b) == {t \in Threads : b \in {operand[t], comp[t]}}
EveryBlockIsOwned ==
    \A b \in Buffers :
        /\ heap[b] # Free => CacheEntriesOf(b) # {} \/ CallsWith(b) # {}
        /\ CacheEntriesOf(b) = {} => Cardinality(CallsWith(b)) <= 1

(* The null entry and the state of the caller's buffer agree: it is there when
   the bytes are blocked, and only then, so a reorder never runs over its own
   result (aocl_kernel.cpp:578-583). *)
NullEntryMeansBlocked ==
    \A w \in Weights :
        (\A t \in Threads : ~(pc[t] = "inPlace" /\ W(t) = w)) =>
            (packs.val[w] = Null \/ w \in Prepacked <=> user[w] = "blocked")
=============================================================================
