------------------------- MODULE NativeWeightCache -------------------------
(***************************************************************************)
(* The five process-wide caches of prepacked weights of the native         *)
(* backend, and the matmul calls that read them.  A call takes a raw       *)
(* pointer out of a cache, drops the cache's mutex and multiplies: the     *)
(* caches therefore never evict and never replace, a full cache refuses    *)
(* the new pack, and only a clear in a quiescent process frees anything.   *)
(* The two GEMV paths also remember the last pointer per thread and trust  *)
(* it while a global generation counter has not moved.                     *)
(*                                                                         *)
(* A pack is abstracted to what tells a right answer from a wrong one: the *)
(* cache it was made for, the weight and the version of its bytes, the     *)
(* layout it was read with and the source quantisation folded into it.     *)
(***************************************************************************)
EXTENDS Naturals, FiniteSets

CONSTANTS
    Threads,        \* framework threads that call matmul
    Weights,        \* addresses of weight buffers
    Mutable,        \* the weights passed with is_weights_const = false
    Quants,         \* source scale and zero point of an INT8 call
    NoQuant,        \* of the calls that fold no quantisation into the pack
    Models,         \* the models the framework may have loaded: sets of calls
    Blocks,         \* heap blocks a cached pack can live in
    NoBlock, NoPack, NoRecord, NoCall,
    Capacity,       \* ZENDNNL_LRU_CACHE_CAPACITY
    QuantsOverlap,  \* may two INT8 GEMVs of one weight with different source
                    \* quantisation run at the same time?
    MemoryRunsOut,  \* may an allocation fail?
    MaxVersions,    \* bound: contents a weight buffer takes
    MaxGeneration   \* bound: no clear once the generation has reached it

Layouts == {"plain", "transposed"}

\* The paths a call can take through native_matmul; each reads one cache
\* but the column slices, which are packed per thread.
Routes == {"fp32", "bf16", "int8", "bf16_gemv", "int8_gemv", "bf16_slices"}
Caches == Routes \ {"bf16_slices"}
TlCaches == {"bf16_gemv", "int8_gemv"}

\* get_or_prepack packs under the mutex in these, outside of it in the rest.
HeldWhilePacking == {"fp32", "bf16"}

Calls == [route: Routes, w: Weights, lay: Layouts, q: Quants \cup {NoQuant}]

ASSUME ModelsAreCalls == Models \subseteq SUBSET Calls
ASSUME QuantOnlyForInt8Gemv ==
    \A model \in Models : \A u \in model : u.q # NoQuant <=> u.route = "int8_gemv"

Keys == Weights \X Layouts
Versions == 0 .. MaxVersions
Packs == [cache: Caches, w: Weights, ver: Versions, lay: Layouts, q: Quants \cup {NoQuant}]
TlRecords == [w: Weights, lay: Layouts, q: Quants \cup {NoQuant}, at: Blocks, gen: Nat]
Buffers == [w: Weights, ver: Versions, lay: Layouts, gen: Nat]

\* Where a GEMM finds B beside an entry's block: a pack made for this call,
\* the thread's kept columns, or the caller's own buffer.
Fresh == "fresh"
Kept == "kept"
Unpacked == "unpacked"

ASSUME NoneIsNone ==
    /\ Blocks \cap {NoBlock, Fresh, Kept, Unpacked} = {}
    /\ NoBlock \notin {Fresh, Kept, Unpacked}
    /\ NoPack \notin Packs
    /\ NoRecord \notin TlRecords \cup Buffers
    /\ NoCall \notin Calls
ASSUME MutableAreWeights == Mutable \subseteq Weights
ASSUME VersionsAreCounted == MaxVersions \in Nat

VARIABLES
    uses,   \* the calls of the model in use
    heap,   \* [Blocks -> the pack in the block, NoPack when it is free]
    cache,  \* [Caches -> [Keys -> the block of the entry, or NoBlock]]
    gen,    \* weight_cache_generation()
    ver,    \* [Weights -> version of the bytes now in the buffer]
    tl,     \* [Threads -> [TlCaches -> the thread's last entry]]
    buf,    \* [Threads -> the thread's own packed columns]
    pc,     \* [Threads -> PcStates]
    call,   \* [Threads -> the call being served]
    snap,   \* [Threads -> generation read before the cache was asked]
    mine,   \* [Threads -> block packed and not yet published]
    use     \* [Threads -> what the GEMM reads B from]

vars == <<uses, heap, cache, gen, ver, tl, buf, pc, call, snap, mine, use>>
local == <<call, snap, mine>>

PcStates == {"idle", "resolve", "pack", "publish", "local", "gemm"}

Key(c) == <<c.w, c.lay>>
Const(c) == c.w \notin Mutable

\* The pack a call wants: its weight's present bytes, read in its layout.
Wanted(c) ==
    [cache |-> c.route, w |-> c.w, ver |-> ver[c.w], lay |-> c.lay, q |-> c.q]

Free == {b \in Blocks : heap[b] = NoPack}
Entries(r) == {k \in Keys : cache[r][k] # NoBlock}
Full(r) == Cardinality(Entries(r)) >= Capacity
Present(c) == cache[c.route][Key(c)] # NoBlock
Entry(c) == cache[c.route][Key(c)]

Init ==
    /\ uses \in Models
    /\ heap = [b \in Blocks |-> NoPack]
    /\ cache = [r \in Caches |-> [k \in Keys |-> NoBlock]]
    /\ gen = 0
    /\ ver = [w \in Weights |-> 0]
    /\ tl = [t \in Threads |-> [r \in TlCaches |-> NoRecord]]
    /\ buf = [t \in Threads |-> NoRecord]
    /\ pc = [t \in Threads |-> "idle"]
    /\ call = [t \in Threads |-> NoCall]
    /\ snap = [t \in Threads |-> 0]
    /\ mine = [t \in Threads |-> NoBlock]
    /\ use = [t \in Threads |-> NoBlock]

-----------------------------------------------------------------------------
(* How a resolution ends *)

Go(t, state) == pc' = [pc EXCEPT ![t] = state]

Returns(t) ==
    /\ Go(t, "idle")
    /\ call' = [call EXCEPT ![t] = NoCall]
    /\ snap' = [snap EXCEPT ![t] = 0]

Multiply(t, source) ==
    /\ Go(t, "gemm")
    /\ use' = [use EXCEPT ![t] = source]

\* The GEMV paths keep the pointer they were given.
Remember(t, b) ==
    LET c == call[t] IN
    tl' = IF c.route \in TlCaches
          THEN [tl EXCEPT ![t][c.route] =
                   [w |-> c.w, lay |-> c.lay, q |-> c.q, at |-> b, gen |-> snap[t]]]
          ELSE tl

TakeEntry(t, b) ==
    /\ Multiply(t, b)
    /\ Remember(t, b)

\* Mutation: the thread-local record is written before the null check.
CacheGaveNull_Remembers(t) ==
    /\ Go(t, "local")
    /\ Remember(t, NoBlock)
    /\ UNCHANGED <<call, use>>

\* The cache gave nullptr.  FP32 multiplies with the caller's buffer as it
\* is, the BF16 GEMV returns false and native_matmul goes on to BRGEMM, and
\* the others pack for this call alone.
CacheGaveNull(t) ==
    LET c == call[t] IN
    /\ tl' = tl
    /\ CASE c.route = "fp32" -> Multiply(t, Unpacked) /\ UNCHANGED call
         [] c.route = "bf16_gemv" ->
              /\ Go(t, "resolve")
              /\ call' = [call EXCEPT ![t].route = "bf16"]
              /\ UNCHANGED use
         [] OTHER -> Go(t, "local") /\ UNCHANGED <<call, use>>

-----------------------------------------------------------------------------
(* A call *)

\* Two INT8 GEMVs of one weight whose source quantisation differs.
Clashes(u, c) == u.route = "int8_gemv" /\ c.route = "int8_gemv" /\ u.w = c.w /\ u.q # c.q

Begin(t) ==
    /\ pc[t] = "idle"
    /\ \E u \in uses :
         /\ QuantsOverlap \/ \A o \in Threads :
                pc[o] # "idle" => ~Clashes(u, call[o])
         /\ call' = [call EXCEPT ![t] = u]
    /\ snap' = [snap EXCEPT ![t] = gen]
    /\ Go(t, "resolve")
    /\ UNCHANGED <<uses, heap, cache, gen, ver, tl, buf, mine, use>>

\* What the thread-local fast path compares: the address, the shape and,
\* for INT8, the source quantisation, but neither ldb nor transB.
TlMatches(t) ==
    LET c == call[t] r == tl[t][c.route] IN
    /\ c.route \in TlCaches
    /\ r # NoRecord
    /\ r.w = c.w /\ r.q = c.q /\ r.gen = snap[t]

TlHit(t) ==
    /\ pc[t] = "resolve" /\ call[t].route \in TlCaches /\ Const(call[t])
    /\ TlMatches(t)
    /\ Multiply(t, tl[t][call[t].route].at)
    /\ UNCHANGED <<uses, heap, cache, gen, ver, tl, buf, call, snap, mine>>

\* A call that asks the cache: weights are const and no fast path applies.
Asks(t) ==
    /\ pc[t] = "resolve"
    /\ call[t].route \in Caches /\ Const(call[t])
    /\ call[t].route \in TlCaches => ~TlMatches(t)

\* Mutation: the entry's source quantisation is not looked at.
SameQuant_Unchecked(c) == TRUE

\* An INT8 GEMV entry is dequantised for one source quantisation.
SameQuant(c) == heap[Entry(c)].q = c.q

LookupHit(t) ==
    LET c == call[t] IN
    /\ Asks(t) /\ Present(c)
    /\ IF SameQuant(c)
       THEN TakeEntry(t, Entry(c)) /\ UNCHANGED call
       ELSE CacheGaveNull(t)
    /\ UNCHANGED <<uses, heap, cache, gen, ver, buf, snap, mine>>

\* Mutation: a full cache evicts an entry for the new one.
Insert_Evicts(t, b) ==
    LET c == call[t]
        old == {k \in Entries(c.route) : Full(c.route)} IN
    /\ heap' = [x \in Blocks |->
                  IF x = b THEN Wanted(c)
                  ELSE IF \E k \in old : cache[c.route][k] = x THEN NoPack
                  ELSE heap[x]]
    /\ cache' = [cache EXCEPT ![c.route] =
                   [k \in Keys |-> IF k = Key(c) THEN b
                                   ELSE IF k \in old THEN NoBlock ELSE @[k]]]
    /\ TakeEntry(t, b)
    /\ UNCHANGED call

\* LRUWeightMap::insert of a key that is absent: refused when full, and the
\* refused pack is freed.
Insert(t, b) ==
    LET c == call[t] IN
    IF Full(c.route)
    THEN /\ heap' = [heap EXCEPT ![b] = NoPack]
         /\ CacheGaveNull(t)
         /\ UNCHANGED cache
    ELSE /\ heap' = [heap EXCEPT ![b] = Wanted(c)]
         /\ cache' = [cache EXCEPT ![c.route][Key(c)] = b]
         /\ TakeEntry(t, b)
         /\ UNCHANGED call

\* A miss in a cache that packs under its mutex: one critical section.
PackUnderLock(t) ==
    LET c == call[t] IN
    /\ Asks(t) /\ c.route \in HeldWhilePacking /\ ~Present(c)
    /\ \E b \in Free : Insert(t, b)
    /\ UNCHANGED <<uses, gen, ver, buf, snap, mine>>

\* aligned_alloc fails before anything is packed.
AllocationFails(t) ==
    /\ MemoryRunsOut
    /\ Asks(t) /\ ~Present(call[t])
    /\ CacheGaveNull(t)
    /\ UNCHANGED <<uses, heap, cache, gen, ver, buf, snap, mine>>

\* A miss in the others: the mutex is dropped and the pack made without it.
PackUnlocked(t) ==
    LET c == call[t] IN
    /\ Asks(t) /\ c.route \notin HeldWhilePacking /\ ~Present(c)
    /\ \E b \in Free :
         /\ heap' = [heap EXCEPT ![b] = Wanted(c)]
         /\ mine' = [mine EXCEPT ![t] = b]
    /\ Go(t, "publish")
    /\ UNCHANGED <<uses, cache, gen, ver, tl, buf, call, snap, use>>

\* Mutation: the race loser returns the winner's entry and forgets its own.
Publish_Leaks(t) ==
    LET c == call[t] IN
    /\ pc[t] = "publish"
    /\ mine' = [mine EXCEPT ![t] = NoBlock]
    /\ IF Present(c)
       THEN TakeEntry(t, Entry(c)) /\ UNCHANGED <<heap, cache, call>>
       ELSE Insert(t, mine[t])
    /\ UNCHANGED <<uses, gen, ver, buf, snap>>

\* The mutex is taken again.  If a peer was faster its entry is returned,
\* with no second look at the quantisation; else the pack is inserted.
Publish(t) ==
    LET c == call[t] IN
    /\ pc[t] = "publish"
    /\ mine' = [mine EXCEPT ![t] = NoBlock]
    /\ IF Present(c)
       THEN /\ heap' = [heap EXCEPT ![mine[t]] = NoPack]
            /\ TakeEntry(t, Entry(c))
            /\ UNCHANGED <<cache, call>>
       ELSE Insert(t, mine[t])
    /\ UNCHANGED <<uses, gen, ver, buf, snap>>

-----------------------------------------------------------------------------
(* Calls that do not end in a cache *)

\* Mutable weights: FP32 packs a transposed B and streams a plain one, the
\* GEMV and BRGEMM paths pack for this call alone.
SkipsCaches(t) ==
    LET c == call[t] IN
    /\ pc[t] = "resolve" /\ c.route \in Caches \ {"bf16_gemv"} /\ ~Const(c)
    /\ IF c.route = "fp32" /\ c.lay = "plain"
       THEN Multiply(t, Unpacked)
       ELSE Go(t, "local") /\ UNCHANGED use
    /\ UNCHANGED <<uses, heap, cache, gen, ver, tl, buf, local>>

PackForThisCall(t) ==
    /\ pc[t] = "local"
    /\ Multiply(t, Fresh)
    /\ UNCHANGED <<uses, heap, cache, gen, ver, tl, buf, local>>

\* No memory for that either.  BF16 packs strip by strip inside the loop,
\* FP32 takes the caller's buffer, the INT8 GEMV returns false and the INT8
\* BRGEMM returns with nothing written, which native_matmul reports as done.
NoMemoryForThisCall(t) ==
    LET c == call[t] IN
    /\ MemoryRunsOut
    /\ pc[t] = "local"
    /\ CASE c.route = "bf16" -> Multiply(t, Fresh) /\ UNCHANGED <<call, snap>>
         [] c.route = "fp32" -> Multiply(t, Unpacked) /\ UNCHANGED <<call, snap>>
         [] c.route = "int8_gemv" ->
              /\ Go(t, "resolve")
              /\ call' = [call EXCEPT ![t].route = "int8", ![t].q = NoQuant]
              /\ UNCHANGED <<use, snap>>
         [] OTHER -> Returns(t) /\ UNCHANGED use
    /\ UNCHANGED <<uses, heap, cache, gen, ver, tl, buf, mine>>

\* The BF16 columns a thread packs for itself: the slices of the threaded
\* GEMV, and the whole matrix when the weights are not to be cached.
KeepsColumns(t) ==
    /\ pc[t] = "resolve"
    /\ \/ call[t].route = "bf16_slices"
       \/ call[t].route = "bf16_gemv" /\ ~Const(call[t])

ColumnsMatch(t) ==
    LET c == call[t] r == buf[t] IN
    /\ Const(c) /\ r # NoRecord
    /\ r.w = c.w /\ r.lay = c.lay /\ r.gen = snap[t]

ReuseColumns(t) ==
    /\ KeepsColumns(t) /\ ColumnsMatch(t)
    /\ Multiply(t, Kept)
    /\ UNCHANGED <<uses, heap, cache, gen, ver, tl, buf, local>>

PackColumns(t) ==
    LET c == call[t] IN
    /\ KeepsColumns(t) /\ ~ColumnsMatch(t)
    /\ buf' = [buf EXCEPT ![t] =
                  [w |-> c.w, ver |-> ver[c.w], lay |-> c.lay, gen |-> snap[t]]]
    /\ Multiply(t, Kept)
    /\ UNCHANGED <<uses, heap, cache, gen, ver, tl, local>>

\* The larger buffer cannot be had and the smaller one is already freed:
\* the GEMV returns false and native_matmul goes on to BRGEMM.
NoMemoryForColumns(t) ==
    /\ MemoryRunsOut
    /\ KeepsColumns(t) /\ ~ColumnsMatch(t)
    /\ buf' = [buf EXCEPT ![t] = NoRecord]
    /\ call' = [call EXCEPT ![t].route = "bf16"]
    /\ UNCHANGED <<uses, heap, cache, gen, ver, tl, pc, snap, mine, use>>

GemmEnds(t) ==
    /\ pc[t] = "gemm"
    /\ Returns(t)
    /\ use' = [use EXCEPT ![t] = NoBlock]
    /\ UNCHANGED <<uses, heap, cache, gen, ver, tl, buf, mine>>

-----------------------------------------------------------------------------
(* The framework's side *)

NonEmpty == {r \in Caches : Entries(r) # {}}

\* Mutation: the generation stays.
ClearAll_KeepsGeneration ==
    /\ \A t \in Threads : pc[t] = "idle"
    /\ NonEmpty # {}
    /\ heap' = [b \in Blocks |-> NoPack]
    /\ cache' = [r \in Caches |-> [k \in Keys |-> NoBlock]]
    /\ UNCHANGED <<uses, gen, ver, tl, buf, pc, call, snap, mine, use>>

\* clear_all_weight_caches between two models, when no call is running:
\* buffers of the old model may come back with other bytes.  Every cache
\* that held something bumps the generation, and the function once more.
ClearAll ==
    /\ \A t \in Threads : pc[t] = "idle"
    /\ gen < MaxGeneration
    /\ heap' = [b \in Blocks |-> NoPack]
    /\ cache' = [r \in Caches |-> [k \in Keys |-> NoBlock]]
    /\ gen' = gen + Cardinality(NonEmpty) + 1
    /\ \E reused \in SUBSET ({u.w : u \in uses} \ Mutable) :
         /\ \A w \in reused : ver[w] < MaxVersions
         /\ ver' = [w \in Weights |-> IF w \in reused THEN ver[w] + 1 ELSE ver[w]]
    /\ UNCHANGED <<uses, tl, buf, pc, call, snap, mine, use>>

\* A mutable buffer is written between two calls that read it.
WriteWeight(w) ==
    /\ w \in Mutable /\ ver[w] < MaxVersions
    /\ \A t \in Threads : pc[t] # "idle" => call[t].w # w
    /\ ver' = [ver EXCEPT ![w] = @ + 1]
    /\ UNCHANGED <<uses, heap, cache, gen, tl, buf, pc, call, snap, mine, use>>

Next ==
    \/ \E t \in Threads :
         \/ Begin(t) \/ TlHit(t) \/ LookupHit(t)
         \/ PackUnderLock(t) \/ PackUnlocked(t) \/ AllocationFails(t) \/ Publish(t)
         \/ SkipsCaches(t) \/ PackForThisCall(t) \/ NoMemoryForThisCall(t)
         \/ ReuseColumns(t) \/ PackColumns(t) \/ NoMemoryForColumns(t)
         \/ GemmEnds(t)
    \/ ClearAll
    \/ \E w \in Mutable : WriteWeight(w)

Spec == Init /\ [][Next]_vars
-----------------------------------------------------------------------------
(* Properties *)

\* Every table and every thread's locals have their types.
TypeOK ==
    /\ uses \in Models
    /\ heap \in [Blocks -> Packs \cup {NoPack}]
    /\ cache \in [Caches -> [Keys -> Blocks \cup {NoBlock}]]
    /\ gen \in Nat
    /\ ver \in [Weights -> Versions]
    /\ tl \in [Threads -> [TlCaches -> TlRecords \cup {NoRecord}]]
    /\ buf \in [Threads -> Buffers \cup {NoRecord}]
    /\ pc \in [Threads -> PcStates]
    /\ call \in [Threads -> Calls \cup {NoCall}]
    /\ snap \in [Threads -> Nat]
    /\ mine \in [Threads -> Blocks \cup {NoBlock}]
    /\ use \in [Threads -> Blocks \cup {NoBlock, Fresh, Kept, Unpacked}]

\* What reading the right pack rests on beside the code: a GEMV's weights
\* have one layout per address, FP32 weights come untransposed, and two INT8
\* GEMVs of one weight with different source quantisation do not overlap.
ModelsAreSound ==
    /\ ~QuantsOverlap
    /\ \A model \in Models : \A u, v \in model :
          u.route \in TlCaches /\ v.route = u.route /\ v.w = u.w => v.lay = u.lay
    /\ \A model \in Models : \A u \in model : u.route = "fp32" => u.lay = "plain"

\* A GEMM multiplies with its own weight: the block it was given still
\* holds a pack of this weight's present bytes, read in this call's layout
\* and dequantised for this call's source; kept columns are those of this
\* call; an unpacked buffer is read only where it needs no transposition.
\* This is what the caches, the thread-local pointers, the generation and
\* the refusal to evict are all for, and kernel_cache.hpp says it holds
\* when a full cache refuses a pack.
ReadsOwnWeight ==
    \A t \in Threads : pc[t] = "gemm" =>
        LET c == call[t] IN
        CASE use[t] \in Blocks -> heap[use[t]] = Wanted(c)
          [] use[t] = Kept -> /\ buf[t].w = c.w /\ buf[t].lay = c.lay
                              /\ buf[t].ver = ver[c.w]
          [] use[t] = Unpacked -> c.lay = "plain"
          [] OTHER -> TRUE

\* Nothing leaks and nothing is freed twice: an allocated block is held by
\* exactly one holder, an entry of a cache or a thread yet to publish it,
\* and no holder has a free block.  The race loser and the refused pack
\* give theirs back.
Holders(b) ==
    {e \in Caches \X Keys : cache[e[1]][e[2]] = b} \cup {t \in Threads : mine[t] = b}

EveryBlockHasOneHolder ==
    \A b \in Blocks :
        Cardinality(Holders(b)) = IF heap[b] = NoPack THEN 0 ELSE 1

\* The thread-local fast path skips the mutex on the strength of the
\* generation alone: a record of the present generation points at an
\* entry that is still cached and still packs the present bytes.
TlRecordsAreCurrent ==
    \A t \in Threads : \A r \in TlCaches :
        (tl[t][r] # NoRecord /\ tl[t][r].gen = gen) =>
            /\ cache[r][<<tl[t][r].w, tl[t][r].lay>>] = tl[t][r].at
            /\ heap[tl[t][r].at] =
                 [cache |-> r, w |-> tl[t][r].w, ver |-> ver[tl[t][r].w],
                  lay |-> tl[t][r].lay, q |-> tl[t][r].q]

\* What the in-flight GEMMs and the fast paths rely on: an entry, once
\* published, keeps its block and the block its pack until a clear moves
\* the generation.
EntriesAreStable ==
    [][\A r \in Caches : \A k \in Keys :
          (cache[r][k] # NoBlock /\ gen' = gen) =>
              /\ cache'[r][k] = cache[r][k]
              /\ heap'[cache[r][k]] = heap[cache[r][k]]]_vars

=============================================================================
