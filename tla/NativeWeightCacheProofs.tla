----------------------- MODULE NativeWeightCacheProofs -----------------------
(***************************************************************************)
(* Proofs about NativeWeightCache, for any threads, weights, models,       *)
(* blocks and capacity: nothing leaks and nothing is freed twice, a        *)
(* published entry stays, and, for models with one layout per address,     *)
(* the thread-local records are current and every GEMM reads the pack of   *)
(* its own weight.                                                         *)
(***************************************************************************)
EXTENDS NativeWeightCache, FiniteSetTheorems, TLAPS

(* A thread that is not idle serves a call; one that is yet to publish has a
   block, and asked one of the caches that pack outside of their mutex. *)
CallInv ==
    \A t \in Threads :
        /\ pc[t] # "idle" =>
              /\ call[t] \in Calls
              /\ call[t].q # NoQuant <=> call[t].route = "int8_gemv"
        /\ mine[t] # NoBlock <=> pc[t] = "publish"
        /\ pc[t] = "publish" =>
              call[t].route \in Caches \ HeldWhilePacking /\ Const(call[t])

TypeInv == TypeOK /\ CallInv

(* A block is in one entry, or with one thread yet to publish it, or free. *)
EntriesApart ==
    \A r, s \in Caches : \A j, k \in Keys :
        cache[r][j] # NoBlock /\ cache[r][j] = cache[s][k] => r = s /\ j = k
MinesApart ==
    \A t, u \in Threads : mine[t] # NoBlock /\ mine[t] = mine[u] => t = u
MineUnpublished ==
    \A t \in Threads : \A r \in Caches : \A k \in Keys :
        mine[t] # NoBlock => cache[r][k] # mine[t]
HeldIsAllocated ==
    /\ \A r \in Caches : \A k \in Keys :
          cache[r][k] # NoBlock => heap[cache[r][k]] # NoPack
    /\ \A t \in Threads : mine[t] # NoBlock => heap[mine[t]] # NoPack
AllocatedIsHeld ==
    \A b \in Blocks : heap[b] # NoPack =>
        \/ \E r \in Caches : \E k \in Keys : cache[r][k] = b
        \/ \E t \in Threads : mine[t] = b

BlockInv ==
    /\ EntriesApart /\ MinesApart /\ MineUnpublished
    /\ HeldIsAllocated /\ AllocatedIsHeld
----------------------------------------------------------------------------
(* The five caches are finitely many, which the generation's arithmetic needs. *)
LEMMA CachesFinite == IsFiniteSet(Caches)
<1>1. Caches = {"fp32"} \cup {"bf16"} \cup {"int8"} \cup {"bf16_gemv"} \cup {"int8_gemv"}
  BY DEF Caches, Routes
<1>2. \A x : IsFiniteSet({x})
  BY FS_Singleton
<1> QED
  BY <1>1, <1>2, FS_Union

LEMMA NonEmptyCounted == Cardinality(NonEmpty) \in Nat
<1>1. NonEmpty \in SUBSET Caches
  BY DEF NonEmpty
<1> QED
  BY <1>1, CachesFinite, FS_Subset, FS_CardinalityType

(* Initially no thread serves a call and nothing is allocated. *)
LEMMA TypeInit == Init => TypeInv
<1> SUFFICES ASSUME Init PROVE TypeInv
  OBVIOUS
<1>1. TypeOK
  BY VersionsAreCounted DEF Init, TypeOK, Versions, PcStates
<1>2. CallInv
  BY DEF Init, CallInv
<1> QED
  BY <1>1, <1>2 DEF TypeInv

(* What Begin gives a thread. *)
LEMMA UsesAreCalls ==
  ASSUME TypeOK, NEW u \in uses
  PROVE  u \in Calls /\ (u.q # NoQuant <=> u.route = "int8_gemv")
  BY ModelsAreCalls, QuantOnlyForInt8Gemv DEF TypeOK

(* The pack a thread with a cached route wants is one. *)
LEMMA WantedIsPack ==
  ASSUME TypeOK, NEW c \in Calls, c.route \in Caches
  PROVE  Wanted(c) \in Packs /\ Key(c) \in Keys
  BY DEF TypeOK, Wanted, Packs, Calls, Key, Keys

(* What the helpers of a resolution do, written out.  A call whose route
   changes keeps its weight and its layout. *)
LEMMA RouteChanges ==
  ASSUME TypeOK, NEW t \in Threads, call[t] \in Calls, NEW r \in Routes,
         call' = [call EXCEPT ![t].route = r]
  PROVE  /\ call' \in [Threads -> Calls \cup {NoCall}]
         /\ call'[t] \in Calls
         /\ call'[t].route = r
         /\ call'[t].w = call[t].w /\ call'[t].lay = call[t].lay
         /\ call'[t].q = call[t].q
         /\ \A u \in Threads \ {t} : call'[u] = call[u]
  BY DEF TypeOK, Calls

LEMMA NullLeads ==
  ASSUME NEW t \in Threads, CacheGaveNull(t)
  PROVE  /\ tl' = tl
         /\ \/ /\ call[t].route = "fp32"
               /\ pc' = [pc EXCEPT ![t] = "gemm"]
               /\ use' = [use EXCEPT ![t] = Unpacked]
               /\ call' = call
            \/ /\ call[t].route = "bf16_gemv"
               /\ pc' = [pc EXCEPT ![t] = "resolve"]
               /\ call' = [call EXCEPT ![t].route = "bf16"]
               /\ use' = use
            \/ /\ call[t].route \notin {"fp32", "bf16_gemv"}
               /\ pc' = [pc EXCEPT ![t] = "local"]
               /\ call' = call /\ use' = use
  BY DEF CacheGaveNull, Go, Multiply

LEMMA TakingKeepsTypes ==
  ASSUME TypeOK, NEW t \in Threads, call[t] \in Calls, NEW b \in Blocks,
         TakeEntry(t, b)
  PROVE  /\ pc' = [pc EXCEPT ![t] = "gemm"]
         /\ use' = [use EXCEPT ![t] = b]
         /\ tl' \in [Threads -> [TlCaches -> TlRecords \cup {NoRecord}]]
<1>1. [w |-> call[t].w, lay |-> call[t].lay, q |-> call[t].q, at |-> b,
       gen |-> snap[t]] \in TlRecords
  BY DEF TypeOK, Calls, TlRecords
<1> QED
  BY <1>1 DEF TypeOK, TakeEntry, Remember, Multiply, Go

(* What the types need of a resolution's end: t is at a GEMM, at a local pack
   or back at the start, and nobody else has moved. *)
Resolved(t) ==
    /\ pc' \in [Threads -> PcStates]
    /\ pc'[t] \notin {"idle", "publish"}
    /\ \A u \in Threads \ {t} : pc'[u] = pc[u] /\ call'[u] = call[u]
    /\ call' \in [Threads -> Calls \cup {NoCall}]
    /\ call'[t] \in Calls
    /\ call'[t].q # NoQuant <=> call'[t].route = "int8_gemv"
    /\ use' \in [Threads -> Blocks \cup {NoBlock, Fresh, Kept, Unpacked}]
    /\ tl' \in [Threads -> [TlCaches -> TlRecords \cup {NoRecord}]]

(* A null is a resolution's end, whatever route it sends the call. *)
LEMMA NullResolves ==
  ASSUME TypeInv, NEW t \in Threads, pc[t] # "idle", CacheGaveNull(t)
  PROVE  Resolved(t)
<1>0. /\ call[t] \in Calls /\ (call[t].q # NoQuant <=> call[t].route = "int8_gemv")
      /\ TypeOK
  BY DEF TypeInv, CallInv
<1>1. CASE /\ call[t].route = "bf16_gemv"
           /\ pc' = [pc EXCEPT ![t] = "resolve"]
           /\ call' = [call EXCEPT ![t].route = "bf16"]
           /\ use' = use /\ tl' = tl
  <2>1. "bf16" \in Routes
    BY DEF Routes
  <2>2. /\ call' \in [Threads -> Calls \cup {NoCall}]
        /\ call'[t] \in Calls /\ call'[t].route = "bf16" /\ call'[t].q = call[t].q
        /\ \A u \in Threads \ {t} : call'[u] = call[u]
    BY <1>0, <1>1, <2>1, RouteChanges
  <2> QED
    BY <1>0, <1>1, <2>2 DEF TypeOK, PcStates, Resolved
<1>2. CASE /\ pc' \in {[pc EXCEPT ![t] = "gemm"], [pc EXCEPT ![t] = "local"]}
           /\ use' \in {[use EXCEPT ![t] = Unpacked], use}
           /\ call' = call /\ tl' = tl
  BY <1>0, <1>2 DEF TypeOK, PcStates, Resolved
<1> QED
  BY <1>1, <1>2, NullLeads

LEMMA TakingResolves ==
  ASSUME TypeInv, NEW t \in Threads, pc[t] # "idle", NEW b \in Blocks,
         TakeEntry(t, b), UNCHANGED call
  PROVE  Resolved(t)
<1>1. TypeOK /\ call[t] \in Calls /\ (call[t].q # NoQuant <=> call[t].route = "int8_gemv")
  BY DEF TypeInv, CallInv
<1>2. /\ pc' = [pc EXCEPT ![t] = "gemm"]
      /\ use' = [use EXCEPT ![t] = b]
      /\ tl' \in [Threads -> [TlCaches -> TlRecords \cup {NoRecord}]]
  BY <1>1, TakingKeepsTypes
<1> QED
  BY <1>1, <1>2 DEF TypeOK, PcStates, Resolved

LEMMA InsertResolves ==
  ASSUME TypeInv, NEW t \in Threads, pc[t] # "idle", call[t].route \in Caches,
         NEW b \in Blocks, Insert(t, b)
  PROVE  /\ Resolved(t)
         /\ heap' \in [Blocks -> Packs \cup {NoPack}]
         /\ cache' \in [Caches -> [Keys -> Blocks \cup {NoBlock}]]
<1>0. TypeOK /\ call[t] \in Calls
  BY DEF TypeInv, CallInv
<1>1. Wanted(call[t]) \in Packs /\ Key(call[t]) \in Keys
  BY <1>0, WantedIsPack
<1>2. CASE Full(call[t].route)
  <2>1. CacheGaveNull(t) /\ UNCHANGED cache /\ heap' = [heap EXCEPT ![b] = NoPack]
    BY <1>2 DEF Insert
  <2> QED
    BY <1>0, <2>1, NullResolves DEF TypeOK
<1>3. CASE ~Full(call[t].route)
  <2>1. /\ heap' = [heap EXCEPT ![b] = Wanted(call[t])]
        /\ cache' = [cache EXCEPT ![call[t].route][Key(call[t])] = b]
        /\ TakeEntry(t, b) /\ UNCHANGED call
    BY <1>3 DEF Insert
  <2> QED
    BY <1>0, <1>1, <2>1, TakingResolves DEF TypeOK
<1> QED
  BY <1>2, <1>3

(* A resolution's end keeps everything's type if the rest does. *)
LEMMA ResolvedKeeps ==
  ASSUME TypeInv, NEW t \in Threads, Resolved(t),
         heap' \in [Blocks -> Packs \cup {NoPack}],
         cache' \in [Caches -> [Keys -> Blocks \cup {NoBlock}]],
         mine' \in {mine, [mine EXCEPT ![t] = NoBlock]}, mine'[t] = NoBlock,
         UNCHANGED <<uses, gen, ver, buf, snap>>
  PROVE  TypeInv'
<1>1. TypeOK'
  BY DEF TypeInv, TypeOK, Resolved
<1>2. CallInv'
  BY DEF TypeInv, TypeOK, CallInv, Resolved, Const
<1> QED
  BY <1>1, <1>2 DEF TypeInv

(* Every step keeps the types: one step per action. *)
LEMMA TypeStep == TypeInv /\ [Next]_vars => TypeInv'
<1> SUFFICES ASSUME TypeInv, [Next]_vars PROVE TypeInv'
  OBVIOUS
<1> USE DEF PcStates, Const
<1>0. TypeOK /\ CallInv
  BY DEF TypeInv
<1>1. ASSUME NEW t \in Threads, Begin(t)
      PROVE TypeInv'
  <2>1. PICK u \in uses : call' = [call EXCEPT ![t] = u]
    BY <1>1 DEF Begin
  <2>2. u \in Calls /\ (u.q # NoQuant <=> u.route = "int8_gemv")
    BY <1>0, UsesAreCalls
  <2> QED
    BY <1>0, <1>1, <2>1, <2>2 DEF Begin, Go, TypeInv, TypeOK, CallInv
<1>2. ASSUME NEW t \in Threads, TlHit(t)
      PROVE TypeInv'
  <2>1. tl[t][call[t].route].at \in Blocks
    BY <1>0, <1>2 DEF TlHit, TlMatches, TypeOK, TlRecords
  <2> QED
    BY <1>0, <1>2, <2>1 DEF TlHit, Multiply, Go, TypeInv, TypeOK, CallInv
<1>3. ASSUME NEW t \in Threads, LookupHit(t)
      PROVE TypeInv'
  <2>0. call[t] \in Calls /\ call[t].route \in Caches /\ pc[t] = "resolve" /\ mine[t] = NoBlock
    BY <1>0, <1>3 DEF LookupHit, Asks, CallInv
  <2>1. Entry(call[t]) \in Blocks
    BY <1>0, <1>3, <2>0, WantedIsPack DEF LookupHit, Present, Entry, TypeOK
  <2>2. Resolved(t)
    BY <1>3, <2>0, <2>1, TakingResolves, NullResolves DEF LookupHit
  <2> QED
    BY <1>0, <1>3, <2>0, <2>2, ResolvedKeeps DEF LookupHit, TypeOK
<1>4. ASSUME NEW t \in Threads, PackUnderLock(t)
      PROVE TypeInv'
  <2>0. call[t].route \in Caches /\ pc[t] = "resolve" /\ mine[t] = NoBlock
    BY <1>0, <1>4 DEF PackUnderLock, Asks, CallInv
  <2>1. PICK b \in Blocks : Insert(t, b)
    BY <1>4 DEF PackUnderLock, Free
  <2>2. /\ Resolved(t)
        /\ heap' \in [Blocks -> Packs \cup {NoPack}]
        /\ cache' \in [Caches -> [Keys -> Blocks \cup {NoBlock}]]
    BY <2>0, <2>1, InsertResolves
  <2> QED
    BY <1>4, <2>0, <2>2, ResolvedKeeps DEF PackUnderLock
<1>5. ASSUME NEW t \in Threads, PackUnlocked(t)
      PROVE TypeInv'
  <2>0. /\ call[t] \in Calls /\ call[t].route \in Caches \ HeldWhilePacking
        /\ Const(call[t])
    BY <1>0, <1>5 DEF PackUnlocked, Asks, CallInv
  <2>1. Wanted(call[t]) \in Packs
    BY <1>0, <2>0, WantedIsPack
  <2>2. PICK b \in Blocks : /\ heap' = [heap EXCEPT ![b] = Wanted(call[t])]
                            /\ mine' = [mine EXCEPT ![t] = b]
    BY <1>5 DEF PackUnlocked, Free
  <2>3. /\ b # NoBlock /\ pc' = [pc EXCEPT ![t] = "publish"]
        /\ UNCHANGED <<uses, cache, gen, ver, tl, buf, call, snap, use>>
    BY <1>5, NoneIsNone DEF PackUnlocked, Go
  <2>4. TypeOK'
    BY <1>0, <2>1, <2>2, <2>3 DEF TypeOK
  <2>5. /\ pc'[t] = "publish" /\ mine'[t] = b
        /\ \A u \in Threads \ {t} : pc'[u] = pc[u] /\ mine'[u] = mine[u]
    BY <1>0, <2>2, <2>3 DEF TypeOK
  <2>6. CallInv'
    BY <1>0, <1>5, <2>0, <2>3, <2>5 DEF CallInv, PackUnlocked, Asks
  <2> QED
    BY <2>4, <2>6 DEF TypeInv
<1>6. ASSUME NEW t \in Threads, AllocationFails(t)
      PROVE TypeInv'
  <2>0. pc[t] = "resolve" /\ mine[t] = NoBlock
    BY <1>0, <1>6 DEF AllocationFails, Asks, CallInv
  <2>1. Resolved(t)
    BY <1>6, <2>0, NullResolves DEF AllocationFails
  <2> QED
    BY <1>0, <1>6, <2>0, <2>1, ResolvedKeeps DEF AllocationFails, TypeOK
<1>7. ASSUME NEW t \in Threads, Publish(t)
      PROVE TypeInv'
  <2>0. /\ call[t] \in Calls /\ call[t].route \in Caches /\ pc[t] = "publish"
        /\ mine[t] \in Blocks
    BY <1>0, <1>7 DEF Publish, CallInv, TypeOK
  <2>1. CASE Present(call[t])
    <3>1. Entry(call[t]) \in Blocks
      BY <1>0, <2>0, <2>1, WantedIsPack DEF Present, Entry, TypeOK
    <3>2. Resolved(t)
      BY <1>7, <2>0, <2>1, <3>1, TakingResolves DEF Publish
    <3> QED
      BY <1>0, <1>7, <2>0, <2>1, <3>2, ResolvedKeeps DEF Publish, TypeOK
  <2>2. CASE ~Present(call[t])
    <3>1. Insert(t, mine[t])
      BY <1>7, <2>2 DEF Publish
    <3>2. /\ Resolved(t)
          /\ heap' \in [Blocks -> Packs \cup {NoPack}]
          /\ cache' \in [Caches -> [Keys -> Blocks \cup {NoBlock}]]
      BY <2>0, <3>1, InsertResolves
    <3> QED
      BY <1>0, <1>7, <2>0, <3>2, ResolvedKeeps DEF Publish, TypeOK
  <2> QED
    BY <2>1, <2>2
<1>8. ASSUME NEW t \in Threads, SkipsCaches(t)
      PROVE TypeInv'
  BY <1>0, <1>8 DEF SkipsCaches, local, Multiply, Go, TypeInv, TypeOK, CallInv
<1>9. ASSUME NEW t \in Threads, PackForThisCall(t)
      PROVE TypeInv'
  BY <1>0, <1>9 DEF PackForThisCall, local, Multiply, Go, TypeInv, TypeOK, CallInv
<1>10. ASSUME NEW t \in Threads, NoMemoryForThisCall(t)
      PROVE TypeInv'
  <2>0. pc[t] = "local" /\ call[t] \in Calls /\ mine[t] = NoBlock
    BY <1>0, <1>10 DEF NoMemoryForThisCall, CallInv
  <2>1. CASE call[t].route \in {"bf16", "fp32"}
    BY <1>0, <1>10, <2>0, <2>1
       DEF NoMemoryForThisCall, Multiply, Go, TypeInv, TypeOK, CallInv
  <2>2. CASE call[t].route = "int8_gemv"
    <3>1. call' = [call EXCEPT ![t] = [call[t] EXCEPT !.route = "int8", !.q = NoQuant]]
      BY <1>10, <2>2 DEF NoMemoryForThisCall
    <3>2. [call[t] EXCEPT !.route = "int8", !.q = NoQuant] \in Calls
      BY <2>0 DEF Calls, Routes
    <3>3. pc' = [pc EXCEPT ![t] = "resolve"] /\ UNCHANGED <<use, snap>>
      BY <1>10, <2>2 DEF NoMemoryForThisCall, Go
    <3>4. TypeOK'
      BY <1>0, <1>10, <3>1, <3>2, <3>3 DEF NoMemoryForThisCall, TypeOK
    <3>5. call'[t].q = NoQuant /\ call'[t].route = "int8"
      BY <1>0, <2>0, <3>1 DEF TypeOK, Calls
    <3>6. CallInv'
      BY <1>0, <1>10, <2>0, <3>1, <3>2, <3>3, <3>5
         DEF NoMemoryForThisCall, TypeOK, CallInv
    <3> QED
      BY <3>4, <3>6 DEF TypeInv
  <2>3. CASE call[t].route \notin {"bf16", "fp32", "int8_gemv"}
    <3>1. /\ pc' = [pc EXCEPT ![t] = "idle"]
          /\ call' = [call EXCEPT ![t] = NoCall]
          /\ snap' = [snap EXCEPT ![t] = 0]
          /\ UNCHANGED <<use, uses, heap, cache, gen, ver, tl, buf, mine>>
      BY <1>10, <2>3 DEF NoMemoryForThisCall, Returns, Go
    <3> QED
      BY <1>0, <2>0, <3>1 DEF TypeInv, TypeOK, CallInv
  <2> QED
    BY <2>1, <2>2, <2>3
<1>11. ASSUME NEW t \in Threads, ReuseColumns(t)
      PROVE TypeInv'
  BY <1>0, <1>11 DEF ReuseColumns, KeepsColumns, local, Multiply, Go, TypeInv, TypeOK, CallInv
<1>12. ASSUME NEW t \in Threads, PackColumns(t)
      PROVE TypeInv'
  <2>1. [w |-> call[t].w, ver |-> ver[call[t].w], lay |-> call[t].lay, gen |-> snap[t]]
           \in Buffers
    BY <1>0, <1>12 DEF PackColumns, KeepsColumns, TypeOK, CallInv, Buffers, Calls
  <2> QED
    BY <1>0, <1>12, <2>1
       DEF PackColumns, KeepsColumns, local, Multiply, Go, TypeInv, TypeOK, CallInv
<1>13. ASSUME NEW t \in Threads, NoMemoryForColumns(t)
      PROVE TypeInv'
  <2>0. /\ pc[t] = "resolve" /\ call[t] \in Calls /\ mine[t] = NoBlock
        /\ call[t].q = NoQuant
    BY <1>0, <1>13 DEF NoMemoryForColumns, KeepsColumns, CallInv
  <2>1. "bf16" \in Routes
    BY DEF Routes
  <2>2. /\ call' \in [Threads -> Calls \cup {NoCall}]
        /\ call'[t] \in Calls /\ call'[t].route = "bf16" /\ call'[t].q = call[t].q
        /\ \A u \in Threads \ {t} : call'[u] = call[u]
    BY <1>0, <1>13, <2>0, <2>1, RouteChanges DEF NoMemoryForColumns
  <2>3. TypeOK'
    BY <1>0, <1>13, <2>2 DEF NoMemoryForColumns, TypeOK
  <2>4. CallInv'
    BY <1>0, <1>13, <2>0, <2>2 DEF NoMemoryForColumns, TypeOK, CallInv
  <2> QED
    BY <2>3, <2>4 DEF TypeInv
<1>14. ASSUME NEW t \in Threads, GemmEnds(t)
      PROVE TypeInv'
  BY <1>0, <1>14 DEF GemmEnds, Returns, Go, TypeInv, TypeOK, CallInv
<1>15. CASE ClearAll
  <2>1. gen' \in Nat
    BY <1>0, <1>15, NonEmptyCounted DEF ClearAll, TypeOK
  <2>2. ver' \in [Weights -> Versions]
    BY <1>0, <1>15, VersionsAreCounted DEF ClearAll, TypeOK, Versions
  <2> QED
    BY <1>0, <1>15, <2>1, <2>2 DEF ClearAll, TypeInv, TypeOK, CallInv
<1>16. ASSUME NEW w \in Mutable, WriteWeight(w)
      PROVE TypeInv'
  <2>1. ver' \in [Weights -> Versions]
    BY <1>0, <1>16, VersionsAreCounted, MutableAreWeights DEF WriteWeight, TypeOK, Versions
  <2> QED
    BY <1>0, <1>16, <2>1 DEF WriteWeight, TypeInv, TypeOK, CallInv
<1>17. CASE UNCHANGED vars
  BY <1>0, <1>17 DEF vars, TypeInv, TypeOK, CallInv
<1> QED
  BY <1>1, <1>2, <1>3, <1>4, <1>5, <1>6, <1>7, <1>8, <1>9, <1>10, <1>11, <1>12,
     <1>13, <1>14, <1>15, <1>16, <1>17 DEF Next

(* Types are kept by any threads, weights and blocks, and in any model. *)
THEOREM TypeCorrect == Spec => []TypeOK
<1>1. TypeInv => TypeOK
  BY DEF TypeInv
<1> QED
  BY <1>1, TypeInit, TypeStep, PTL DEF Spec
----------------------------------------------------------------------------
(* What a step does to the blocks.  A thread takes a free one for a pack of
   its own, puts a free one or its own into an entry that was empty, or gives
   its own back. *)
TakesBlock(t, b) ==
    /\ heap[b] = NoPack /\ mine[t] = NoBlock
    /\ ~Present(call[t])
    /\ heap' = [heap EXCEPT ![b] = Wanted(call[t])]
    /\ mine' = [mine EXCEPT ![t] = b]
    /\ cache' = cache

InsertsBlock(t, b) ==
    /\ (heap[b] = NoPack /\ mine[t] = NoBlock) \/ mine[t] = b
    /\ ~Present(call[t])
    /\ heap' = [heap EXCEPT ![b] = Wanted(call[t])]
    /\ cache' = [cache EXCEPT ![call[t].route][Key(call[t])] = b]
    /\ mine' = [mine EXCEPT ![t] = NoBlock]

FreesBlock(t, b) ==
    /\ mine[t] = b
    /\ heap' = [heap EXCEPT ![b] = NoPack]
    /\ mine' = [mine EXCEPT ![t] = NoBlock]
    /\ cache' = cache

\* A call that may fill a cache.
Fills(t) ==
    /\ pc[t] # "idle"
    /\ call[t] \in Calls /\ call[t].route \in Caches /\ Const(call[t])
    /\ call[t].q # NoQuant <=> call[t].route = "int8_gemv"

\* What every step but a clear leaves alone.
Quiet ==
    /\ gen' = gen /\ uses' = uses
    /\ \A w \in Weights \ Mutable : ver'[w] = ver[w]
    /\ \A t \in Threads : pc'[t] = "publish" => call'[t] = call[t]

(* A step leaves the blocks alone, or moves one, or is a clear. *)
LEMMA BlocksMove ==
  ASSUME TypeInv, [Next]_vars
  PROVE  \/ Quiet /\ UNCHANGED <<heap, cache, mine>>
         \/ /\ Quiet
            /\ ver' = ver
            /\ \E t \in Threads : \E b \in Blocks :
                  Fills(t) /\ (TakesBlock(t, b) \/ InsertsBlock(t, b) \/ FreesBlock(t, b))
         \/ ClearAll
<1> DEFINE Left == UNCHANGED <<heap, cache, mine>>
           Moved == \E t \in Threads : \E b \in Blocks :
                       Fills(t) /\ (TakesBlock(t, b) \/ InsertsBlock(t, b) \/ FreesBlock(t, b))
<1>0. TypeOK /\ CallInv
  BY DEF TypeInv
<1>1. ASSUME NEW t \in Threads, Begin(t)
      PROVE Quiet /\ Left
  BY <1>0, <1>1 DEF Begin, Go, Quiet, TypeOK, CallInv
<1>2. ASSUME NEW t \in Threads, TlHit(t)
      PROVE Quiet /\ Left
  BY <1>0, <1>2 DEF TlHit, Multiply, Go, Quiet, TypeOK, CallInv
<1>3. ASSUME NEW t \in Threads, LookupHit(t)
      PROVE Quiet /\ Left
  <2>1. pc[t] # "idle" /\ Resolved(t)
    <3>0. call[t] \in Calls /\ call[t].route \in Caches /\ pc[t] # "idle"
      BY <1>0, <1>3 DEF LookupHit, Asks, CallInv
    <3>1. Entry(call[t]) \in Blocks
      BY <1>0, <1>3, <3>0, WantedIsPack DEF LookupHit, Present, Entry, TypeOK
    <3> QED
      BY <1>3, <3>0, <3>1, TakingResolves, NullResolves DEF LookupHit
  <2> QED
    BY <1>3, <2>1 DEF LookupHit, Resolved, Quiet
<1>4. ASSUME NEW t \in Threads, PackUnderLock(t)
      PROVE Quiet /\ ver' = ver /\ (Left \/ Moved)
  <2>0. /\ call[t].route \in Caches /\ pc[t] # "idle" /\ mine[t] = NoBlock
        /\ ~Present(call[t]) /\ Fills(t) /\ mine' = mine
        /\ UNCHANGED <<uses, gen, ver>>
    BY <1>0, <1>4 DEF PackUnderLock, Asks, CallInv, Fills
  <2>1. PICK b \in Blocks : heap[b] = NoPack /\ Insert(t, b)
    BY <1>4 DEF PackUnderLock, Free
  <2>2. Resolved(t)
    BY <2>0, <2>1, InsertResolves
  <2>3. Quiet
    BY <2>0, <2>2 DEF Resolved, Quiet
  <2>4. CASE Full(call[t].route)
    <3>1. heap' = [heap EXCEPT ![b] = NoPack] /\ cache' = cache
      BY <2>1, <2>4 DEF Insert
    <3>2. heap' = heap
      BY <1>0, <2>1, <3>1 DEF TypeOK
    <3> QED
      BY <2>0, <2>3, <3>1, <3>2
  <2>5. CASE ~Full(call[t].route)
    <3>1. mine' = [mine EXCEPT ![t] = NoBlock]
      BY <1>0, <2>0 DEF TypeOK
    <3>2. InsertsBlock(t, b)
      BY <2>0, <2>1, <2>5, <3>1 DEF Insert, InsertsBlock
    <3> QED
      BY <2>0, <2>3, <3>2
  <2> QED
    BY <2>4, <2>5
<1>5. ASSUME NEW t \in Threads, PackUnlocked(t)
      PROVE Quiet /\ ver' = ver /\ Moved
  <2>1. /\ Fills(t) /\ mine[t] = NoBlock /\ UNCHANGED <<uses, gen, ver, call, cache>>
        /\ pc[t] = "resolve"
    BY <1>0, <1>5 DEF PackUnlocked, Asks, CallInv, Fills
  <2>2. \E b \in Blocks : TakesBlock(t, b)
    BY <1>5, <2>1 DEF PackUnlocked, Free, TakesBlock
  <2> QED
    BY <2>1, <2>2 DEF Quiet
<1>6. ASSUME NEW t \in Threads, AllocationFails(t)
      PROVE Quiet /\ Left
  <2>1. pc[t] # "idle" /\ CacheGaveNull(t)
    BY <1>6 DEF AllocationFails, Asks
  <2> QED
    BY <1>6, <2>1, NullResolves DEF AllocationFails, Resolved, Quiet
<1>7. ASSUME NEW t \in Threads, Publish(t)
      PROVE Quiet /\ ver' = ver /\ Moved
  <2>0. /\ call[t] \in Calls /\ call[t].route \in Caches /\ pc[t] = "publish"
        /\ mine[t] \in Blocks /\ Fills(t)
        /\ mine' = [mine EXCEPT ![t] = NoBlock] /\ UNCHANGED <<uses, gen, ver>>
    BY <1>0, <1>7 DEF Publish, CallInv, TypeOK, Fills
  <2>1. CASE Present(call[t])
    <3>1. Entry(call[t]) \in Blocks
      BY <1>0, <2>0, <2>1, WantedIsPack DEF Present, Entry, TypeOK
    <3>2. Resolved(t)
      BY <1>7, <2>0, <2>1, <3>1, TakingResolves DEF Publish
    <3>3. FreesBlock(t, mine[t])
      BY <1>7, <2>0, <2>1 DEF Publish, FreesBlock
    <3> QED
      BY <2>0, <3>2, <3>3 DEF Quiet, Resolved
  <2>2. CASE ~Present(call[t])
    <3>1. Insert(t, mine[t])
      BY <1>7, <2>2 DEF Publish
    <3>2. Resolved(t)
      BY <2>0, <3>1, InsertResolves
    <3>3. FreesBlock(t, mine[t]) \/ InsertsBlock(t, mine[t])
      BY <2>0, <2>2, <3>1 DEF Insert, FreesBlock, InsertsBlock
    <3> QED
      BY <2>0, <3>2, <3>3 DEF Quiet, Resolved
  <2> QED
    BY <2>1, <2>2
<1>8. ASSUME NEW t \in Threads, SkipsCaches(t)
      PROVE Quiet /\ Left
  BY <1>8 DEF SkipsCaches, local, Quiet
<1>9. ASSUME NEW t \in Threads, PackForThisCall(t)
      PROVE Quiet /\ Left
  BY <1>9 DEF PackForThisCall, local, Quiet
<1>10. ASSUME NEW t \in Threads, NoMemoryForThisCall(t)
      PROVE Quiet /\ Left
  <2>1. /\ \A u \in Threads \ {t} : call'[u] = call[u]
        /\ pc'[t] # "publish"
    BY <1>0, <1>10 DEF NoMemoryForThisCall, Returns, Multiply, Go, TypeOK, CallInv
  <2> QED
    BY <1>10, <2>1 DEF NoMemoryForThisCall, Quiet
<1>11. ASSUME NEW t \in Threads, ReuseColumns(t)
      PROVE Quiet /\ Left
  BY <1>11 DEF ReuseColumns, local, Quiet
<1>12. ASSUME NEW t \in Threads, PackColumns(t)
      PROVE Quiet /\ Left
  BY <1>12 DEF PackColumns, local, Quiet
<1>13. ASSUME NEW t \in Threads, NoMemoryForColumns(t)
      PROVE Quiet /\ Left
  <2>1. pc'[t] # "publish" /\ \A u \in Threads \ {t} : call'[u] = call[u]
    BY <1>0, <1>13 DEF NoMemoryForColumns, KeepsColumns, TypeOK
  <2> QED
    BY <1>13, <2>1 DEF NoMemoryForColumns, Quiet
<1>14. ASSUME NEW t \in Threads, GemmEnds(t)
      PROVE Quiet /\ Left
  <2>1. pc'[t] # "publish" /\ \A u \in Threads \ {t} : call'[u] = call[u]
    BY <1>0, <1>14 DEF GemmEnds, Returns, Go, TypeOK
  <2> QED
    BY <1>14, <2>1 DEF GemmEnds, Quiet
<1>15. ASSUME NEW w \in Mutable, WriteWeight(w)
      PROVE Quiet /\ Left
  BY <1>0, <1>15, MutableAreWeights DEF WriteWeight, Quiet, TypeOK
<1>16. CASE UNCHANGED vars
  BY <1>16 DEF vars, Quiet
<1>17. \/ \E t \in Threads :
             \/ Begin(t) \/ TlHit(t) \/ LookupHit(t) \/ AllocationFails(t)
             \/ SkipsCaches(t) \/ PackForThisCall(t) \/ NoMemoryForThisCall(t)
             \/ ReuseColumns(t) \/ PackColumns(t) \/ NoMemoryForColumns(t)
             \/ GemmEnds(t)
       \/ \E t \in Threads : PackUnderLock(t) \/ PackUnlocked(t) \/ Publish(t)
       \/ \E w \in Mutable : WriteWeight(w)
       \/ UNCHANGED vars
       \/ ClearAll
  BY DEF Next
<1>18. ASSUME NEW t \in Threads,
              \/ Begin(t) \/ TlHit(t) \/ LookupHit(t) \/ AllocationFails(t)
              \/ SkipsCaches(t) \/ PackForThisCall(t) \/ NoMemoryForThisCall(t)
              \/ ReuseColumns(t) \/ PackColumns(t) \/ NoMemoryForColumns(t)
              \/ GemmEnds(t)
       PROVE Quiet /\ Left
  BY <1>18, <1>1, <1>2, <1>3, <1>6, <1>8, <1>9, <1>10, <1>11, <1>12, <1>13, <1>14
<1>19. ASSUME NEW t \in Threads, PackUnderLock(t) \/ PackUnlocked(t) \/ Publish(t)
       PROVE Quiet /\ ver' = ver /\ (Left \/ Moved)
  BY <1>19, <1>4, <1>5, <1>7
<1> QED
  BY <1>15, <1>16, <1>17, <1>18, <1>19
----------------------------------------------------------------------------
(* The blocks keep one holder each: one case per way of moving one. *)
LEMMA BlockInit == Init => BlockInv
<1> SUFFICES ASSUME Init PROVE BlockInv
  OBVIOUS
<1> QED
  BY DEF Init, BlockInv, EntriesApart, MinesApart, MineUnpublished,
         HeldIsAllocated, AllocatedIsHeld

LEMMA BlockStep == TypeInv /\ BlockInv /\ [Next]_vars => BlockInv'
<1> SUFFICES ASSUME TypeInv, BlockInv, [Next]_vars PROVE BlockInv'
  OBVIOUS
<1> USE DEF BlockInv, EntriesApart, MinesApart, MineUnpublished,
            HeldIsAllocated, AllocatedIsHeld
<1>0. /\ TypeOK
      /\ \A t \in Threads : pc[t] = "idle" => mine[t] = NoBlock
      /\ \A b \in Blocks : b # NoBlock
  BY NoneIsNone DEF TypeInv, CallInv
<1>1. CASE UNCHANGED <<heap, cache, mine>>
  BY <1>1
<1>2. ASSUME NEW t \in Threads, NEW b \in Blocks, Fills(t),
             TakesBlock(t, b) \/ InsertsBlock(t, b) \/ FreesBlock(t, b)
      PROVE BlockInv'
  <2>0. /\ Wanted(call[t]) # NoPack
        /\ call[t].route \in Caches /\ Key(call[t]) \in Keys
    BY <1>0, <1>2, WantedIsPack, NoneIsNone DEF Fills
  <2>1. CASE TakesBlock(t, b)
    <3>1. \A r \in Caches : \A k \in Keys : cache[r][k] # b
      BY <1>0, <2>1 DEF TakesBlock
    <3>2. \A u \in Threads : mine[u] # b
      BY <1>0, <2>1 DEF TakesBlock
    <3> QED
      BY <1>0, <2>0, <2>1, <3>1, <3>2 DEF TakesBlock, TypeOK
  <2>2. CASE InsertsBlock(t, b)
    <3> DEFINE r0 == call[t].route
               k0 == Key(call[t])
    <3> HIDE DEF r0, k0
    <3>1. /\ r0 \in Caches /\ k0 \in Keys /\ cache[r0][k0] = NoBlock
          /\ heap' = [heap EXCEPT ![b] = Wanted(call[t])]
          /\ cache' = [cache EXCEPT ![r0][k0] = b]
          /\ mine' = [mine EXCEPT ![t] = NoBlock]
      BY <2>0, <2>2 DEF InsertsBlock, Present, r0, k0
    <3>2. \A r \in Caches : \A k \in Keys : cache[r][k] # b
      BY <1>0, <2>2 DEF InsertsBlock
    <3>3. \A u \in Threads \ {t} : mine[u] # b
      BY <1>0, <2>2 DEF InsertsBlock
    <3>4. mine[t] \in {NoBlock, b}
      BY <2>2 DEF InsertsBlock
    <3>5. /\ \A r \in Caches : \A k \in Keys :
                cache'[r][k] = IF r = r0 /\ k = k0 THEN b ELSE cache[r][k]
          /\ \A u \in Threads : mine'[u] = IF u = t THEN NoBlock ELSE mine[u]
          /\ \A x \in Blocks : heap'[x] = IF x = b THEN Wanted(call[t]) ELSE heap[x]
      BY <1>0, <3>1 DEF TypeOK
    <3>6. /\ \A r \in Caches : \A k \in Keys : cache[r][k] \in Blocks \cup {NoBlock}
          /\ \A u \in Threads : mine[u] \in Blocks \cup {NoBlock}
      BY <1>0 DEF TypeOK
    <3>7. EntriesApart' /\ MinesApart' /\ MineUnpublished'
      BY <1>0, <3>1, <3>2, <3>3, <3>5
    <3>8. HeldIsAllocated'
      BY <1>0, <2>0, <3>2, <3>3, <3>5, <3>6
    <3>9. AllocatedIsHeld'
      BY <1>0, <3>1, <3>4, <3>5, <3>6
    <3> QED
      BY <3>7, <3>8, <3>9
  <2>3. CASE FreesBlock(t, b)
    BY <1>0, <2>3 DEF FreesBlock, TypeOK
  <2> QED
    BY <1>2, <2>1, <2>2, <2>3
<1>3. CASE ClearAll
  BY <1>0, <1>3 DEF ClearAll
<1> QED
  BY <1>1, <1>2, <1>3, BlocksMove

LEMMA BlocksHold == Spec => [](TypeInv /\ BlockInv)
  BY TypeInit, TypeStep, BlockInit, BlockStep, PTL DEF Spec

(* Nothing leaks and nothing is freed twice: whoever races, is refused or
   clears, an allocated block is in one entry or with one thread that is to
   publish it, and a free one is with nobody. *)
THEOREM OneHolder == Spec => []EveryBlockHasOneHolder
<1>1. TypeInv /\ BlockInv => EveryBlockHasOneHolder
  <2> SUFFICES ASSUME TypeInv, BlockInv, NEW b \in Blocks
               PROVE  Cardinality(Holders(b)) = IF heap[b] = NoPack THEN 0 ELSE 1
    BY DEF EveryBlockHasOneHolder
  <2> USE DEF BlockInv
  <2>0. b # NoBlock
    BY NoneIsNone
  <2>1. CASE heap[b] = NoPack
    <3>1. Holders(b) = {}
      BY <2>0, <2>1 DEF Holders, HeldIsAllocated
    <3> QED
      BY <2>1, <3>1, FS_EmptySet
  <2>2. CASE heap[b] # NoPack
    <3>1. \E h : Holders(b) = {h}
      <4>1. CASE \E t \in Threads : mine[t] = b
        <5>1. PICK t \in Threads : mine[t] = b
          BY <4>1
        <5>2. Holders(b) = {t}
          BY <2>0, <5>1 DEF Holders, MinesApart, MineUnpublished
        <5> QED
          BY <5>2
      <4>2. CASE ~\E t \in Threads : mine[t] = b
        <5>1. PICK r \in Caches, k \in Keys : cache[r][k] = b
          BY <2>2, <4>2 DEF AllocatedIsHeld
        <5>2. \A e \in Caches \X Keys : cache[e[1]][e[2]] = b <=> e = <<r, k>>
          BY <2>0, <5>1 DEF EntriesApart
        <5>3. Holders(b) = {<<r, k>>}
          BY <4>2, <5>1, <5>2 DEF Holders
        <5> QED
          BY <5>3
      <4> QED
        BY <4>1, <4>2
    <3> QED
      BY <2>2, <3>1, FS_Singleton
  <2> QED
    BY <2>1, <2>2
<1> QED
  BY <1>1, BlocksHold, PTL

(* A step that leaves the generation leaves an entry and its pack. *)
LEMMA EntryStays ==
  ASSUME TypeInv, BlockInv, [Next]_vars, NEW r \in Caches, NEW k \in Keys,
         cache[r][k] # NoBlock, gen' = gen
  PROVE  /\ cache'[r][k] = cache[r][k]
         /\ heap'[cache[r][k]] = heap[cache[r][k]]
<1>0. /\ TypeOK /\ heap[cache[r][k]] # NoPack /\ cache[r][k] \in Blocks
      /\ \A t \in Threads : mine[t] # cache[r][k]
  BY DEF TypeInv, TypeOK, BlockInv, HeldIsAllocated, MineUnpublished
<1>1. CASE UNCHANGED <<heap, cache, mine>>
  BY <1>1
<1>2. ASSUME NEW t \in Threads, NEW b \in Blocks, Fills(t),
             TakesBlock(t, b) \/ InsertsBlock(t, b) \/ FreesBlock(t, b)
      PROVE  /\ cache'[r][k] = cache[r][k]
             /\ heap'[cache[r][k]] = heap[cache[r][k]]
  <2>1. CASE TakesBlock(t, b)
    BY <1>0, <2>1 DEF TakesBlock, TypeOK
  <2>2. CASE InsertsBlock(t, b)
    <3>1. heap'[cache[r][k]] = heap[cache[r][k]]
      BY <1>0, <2>2 DEF InsertsBlock, TypeOK
    <3>2. r # call[t].route \/ k # Key(call[t])
      BY <2>2 DEF InsertsBlock, Present
    <3> QED
      BY <1>0, <2>2, <3>1, <3>2 DEF InsertsBlock, TypeOK
  <2>3. CASE FreesBlock(t, b)
    BY <1>0, <2>3 DEF FreesBlock, TypeOK
  <2> QED
    BY <1>2, <2>1, <2>2, <2>3
<1>3. ~ClearAll
  BY <1>0, NonEmptyCounted DEF ClearAll, TypeOK
<1> QED
  BY <1>1, <1>2, <1>3, BlocksMove

(* A published entry keeps its block and the block its pack until a clear,
   and a clear moves the generation: the pointers that calls follow without
   the mutex stay good. *)
THEOREM EntriesStay == Spec => EntriesAreStable
<1> DEFINE Stable ==
        \A r \in Caches : \A k \in Keys :
            (cache[r][k] # NoBlock /\ gen' = gen) =>
                /\ cache'[r][k] = cache[r][k]
                /\ heap'[cache[r][k]] = heap[cache[r][k]]
<1>1. TypeInv /\ BlockInv /\ [Next]_vars => Stable
  BY EntryStays
<1>2. Spec => [][Stable]_vars
  BY <1>1, BlocksHold, PTL DEF Spec
<1> QED
  BY <1>2, PTL DEF EntriesAreStable
----------------------------------------------------------------------------
(* The invariant behind the pointers, for ModelsAreSound.
   An entry packs its key's weight as it is now, which cannot change before
   the next clear; so does a pack that is yet to be published. *)
EntriesCurrent ==
    \A r \in Caches : \A k \in Keys : cache[r][k] # NoBlock =>
        LET p == heap[cache[r][k]] IN
        /\ k[1] \notin Mutable
        /\ p.cache = r /\ p.w = k[1] /\ p.lay = k[2] /\ p.ver = ver[k[1]]
        /\ p.q # NoQuant <=> r = "int8_gemv"
MineCurrent ==
    \A t \in Threads : pc[t] = "publish" => heap[mine[t]] = Wanted(call[t])

(* No clear passes a call by, and a call is one of the model's until it falls
   back to a route without a thread-local record. *)
CallersInStep ==
    \A t \in Threads : pc[t] # "idle" =>
        /\ snap[t] = gen
        /\ call[t].route \in TlCaches => call[t] \in uses
        /\ call[t].route = "fp32" => call[t].lay = "plain"

(* Overlapping INT8 GEMVs of a weight agree, hence so do a pack and the entry
   a faster peer has published. *)
NoneClash ==
    \A t, u \in Threads :
        pc[t] # "idle" /\ pc[u] # "idle" => ~Clashes(call[t], call[u])
PeersAgree ==
    \A t \in Threads : pc[t] = "publish" /\ Present(call[t]) => SameQuant(call[t])

(* A thread's record is of a call of the model; its columns, too, are those
   of the buffer unless a clear has passed or the buffer may change. *)
RecordsOfUses ==
    \A t \in Threads : \A r \in TlCaches : tl[t][r] # NoRecord =>
        /\ tl[t][r].gen <= gen
        /\ [route |-> r, w |-> tl[t][r].w, lay |-> tl[t][r].lay, q |-> tl[t][r].q] \in uses
ColumnsCurrent ==
    \A t \in Threads : buf[t] # NoRecord =>
        /\ buf[t].gen <= gen
        /\ buf[t].gen = gen /\ buf[t].w \notin Mutable => buf[t].ver = ver[buf[t].w]

(* What a GEMM reads: an entry of its cache, which nobody frees, the thread's
   own columns, the plain buffer, or a pack of its own. *)
GemmReads(t) ==
    \/ /\ use[t] \in Blocks
       /\ call[t].route \in Caches /\ Present(call[t])
       /\ use[t] = Entry(call[t]) /\ SameQuant(call[t])
    \/ /\ use[t] = Kept /\ buf[t] # NoRecord
       /\ buf[t].w = call[t].w /\ buf[t].lay = call[t].lay
       /\ buf[t].ver = ver[call[t].w]
    \/ use[t] = Unpacked /\ call[t].lay = "plain"
    \/ use[t] = Fresh

GemmsRead == \A t \in Threads : pc[t] = "gemm" => GemmReads(t)

CacheInv == EntriesCurrent /\ MineCurrent
CallerInv == CallersInStep /\ NoneClash /\ PeersAgree
RecordInv == RecordsOfUses /\ TlRecordsAreCurrent /\ ColumnsCurrent

IInv == TypeInv /\ BlockInv /\ CacheInv /\ CallerInv /\ RecordInv /\ GemmsRead

LEMMA IInvInit == Init => IInv
<1> SUFFICES ASSUME Init PROVE IInv
  OBVIOUS
<1>1. CacheInv /\ CallerInv /\ RecordInv /\ GemmsRead
  BY DEF Init, CacheInv, EntriesCurrent, MineCurrent, CallerInv, CallersInStep,
         NoneClash, PeersAgree, RecordInv, RecordsOfUses, TlRecordsAreCurrent,
         ColumnsCurrent, GemmsRead
<1> QED
  BY <1>1, TypeInit, BlockInit DEF IInv

(* Entries and unpublished packs stay current. *)
LEMMA CacheStep == TypeInv /\ BlockInv /\ CacheInv /\ [Next]_vars => CacheInv'
<1> SUFFICES ASSUME TypeInv, BlockInv, CacheInv, [Next]_vars PROVE CacheInv'
  OBVIOUS
<1>0. TypeOK /\ CallInv /\ TypeOK' /\ CallInv'
  BY TypeStep DEF TypeInv
<1>1. /\ \A r \in Caches : \A k \in Keys : cache[r][k] # NoBlock =>
            cache[r][k] \in Blocks /\ heap[cache[r][k]] # NoPack
      /\ \A t \in Threads : mine[t] # NoBlock =>
            mine[t] \in Blocks /\ heap[mine[t]] # NoPack
      /\ \A t \in Threads : \A r \in Caches : \A k \in Keys :
            mine[t] # NoBlock => cache[r][k] # mine[t]
      /\ \A t, u \in Threads : mine[t] # NoBlock /\ mine[t] = mine[u] => t = u
      /\ \A k \in Keys : k[1] \in Weights
  BY <1>0 DEF TypeOK, BlockInv, HeldIsAllocated, MineUnpublished, MinesApart, Keys
<1>2. CASE Quiet /\ UNCHANGED <<heap, cache, mine>>
  <2>1. EntriesCurrent'
    BY <1>1, <1>2 DEF CacheInv, EntriesCurrent, Quiet
  <2>2. ASSUME NEW t \in Threads, pc'[t] = "publish" PROVE heap'[mine'[t]] = Wanted(call[t])'
    <3>1. pc[t] = "publish" /\ call'[t] = call[t] /\ call[t] \in Calls /\ Const(call[t])
      BY <1>0, <1>2, <2>2 DEF CallInv, Quiet
    <3>2. ver'[call[t].w] = ver[call[t].w]
      BY <1>2, <3>1 DEF Quiet, Const, Calls
    <3> QED
      BY <1>2, <3>1, <3>2 DEF CacheInv, MineCurrent, Wanted
  <2> QED
    BY <2>1, <2>2 DEF CacheInv, MineCurrent
<1>3. ASSUME Quiet, ver' = ver, NEW t \in Threads, NEW b \in Blocks, Fills(t),
             TakesBlock(t, b) \/ InsertsBlock(t, b) \/ FreesBlock(t, b)
      PROVE CacheInv'
  <2>0. /\ \A x \in Blocks : x # b => heap'[x] = heap[x]
        /\ TakesBlock(t, b) \/ InsertsBlock(t, b) => heap'[b] = Wanted(call[t])
        /\ \A r \in Caches : \A k \in Keys : cache[r][k] # b
        /\ \A u \in Threads \ {t} : mine[u] # b /\ mine'[u] = mine[u]
    BY <1>0, <1>1, <1>3, NoneIsNone DEF TakesBlock, InsertsBlock, FreesBlock, TypeOK
  <2>1. EntriesCurrent'
    <3>1. ASSUME NEW r \in Caches, NEW k \in Keys, cache'[r][k] # NoBlock,
                 cache'[r][k] = cache[r][k]
          PROVE  heap'[cache'[r][k]] = heap[cache[r][k]]
      BY <1>1, <2>0, <3>1
    <3>2. ASSUME NEW r \in Caches, NEW k \in Keys, cache'[r][k] # cache[r][k]
          PROVE  /\ r = call[t].route /\ k = Key(call[t])
                 /\ heap'[cache'[r][k]] = Wanted(call[t])
      BY <1>0, <1>3, <2>0, <3>2 DEF TakesBlock, InsertsBlock, FreesBlock, TypeOK
    <3>3. /\ Key(call[t])[1] = call[t].w /\ Key(call[t])[2] = call[t].lay
          /\ call[t].w \notin Mutable
          /\ call[t].q # NoQuant <=> call[t].route = "int8_gemv"
          /\ Wanted(call[t]).cache = call[t].route /\ Wanted(call[t]).w = call[t].w
          /\ Wanted(call[t]).lay = call[t].lay /\ Wanted(call[t]).ver = ver[call[t].w]
          /\ Wanted(call[t]).q = call[t].q
      BY <1>3 DEF Fills, Const, Key, Wanted
    <3> SUFFICES ASSUME NEW r \in Caches, NEW k \in Keys, cache'[r][k] # NoBlock
                 PROVE  LET p == heap'[cache'[r][k]] IN
                        /\ k[1] \notin Mutable
                        /\ p.cache = r /\ p.w = k[1] /\ p.lay = k[2] /\ p.ver = ver[k[1]]
                        /\ p.q # NoQuant <=> r = "int8_gemv"
      BY <1>3 DEF EntriesCurrent
    <3>4. CASE cache'[r][k] = cache[r][k]
      BY <3>1, <3>4 DEF CacheInv, EntriesCurrent
    <3>5. CASE cache'[r][k] # cache[r][k]
      BY <3>2, <3>3, <3>5
    <3> QED
      BY <3>4, <3>5
  <2>2. ASSUME NEW u \in Threads, pc'[u] = "publish" PROVE heap'[mine'[u]] = Wanted(call[u])'
    <3>1. mine'[u] # NoBlock /\ call'[u] = call[u]
      BY <1>0, <1>3, <2>2 DEF CallInv, Quiet
    <3>2. CASE u = t
      <4>1. mine'[u] = b /\ heap'[b] = Wanted(call[t])
        BY <1>0, <1>3, <2>0, <3>1, <3>2
           DEF TakesBlock, InsertsBlock, FreesBlock, TypeOK
      <4> QED
        BY <1>3, <3>1, <3>2, <4>1 DEF Wanted
    <3>3. CASE u # t
      <4>1. pc[u] = "publish" /\ mine'[u] = mine[u] /\ heap'[mine[u]] = heap[mine[u]]
        BY <1>0, <1>1, <2>0, <3>1, <3>3 DEF CallInv
      <4> QED
        BY <1>3, <3>1, <4>1 DEF CacheInv, MineCurrent, Wanted
    <3> QED
      BY <3>2, <3>3
  <2> QED
    BY <2>1, <2>2 DEF CacheInv, MineCurrent
<1>4. CASE ClearAll
  <2>1. EntriesCurrent'
    BY <1>4 DEF ClearAll, EntriesCurrent
  <2>2. MineCurrent'
    BY <1>4 DEF ClearAll, MineCurrent
  <2> QED
    BY <2>1, <2>2 DEF CacheInv
<1> QED
  BY <1>2, <1>3, <1>4, BlocksMove
----------------------------------------------------------------------------
(* A call begins, goes on as it is, or goes on at a BRGEMM route. *)
CallGoesOn(t) ==
    /\ pc[t] # "idle" /\ snap'[t] = snap[t]
    /\ \/ call'[t] = call[t]
       \/ call'[t].route \in {"bf16", "int8"}

LEMMA CallsMove ==
  ASSUME TypeInv, [Next]_vars, ~ClearAll, NEW t \in Threads, pc'[t] # "idle"
  PROVE  CallGoesOn(t) \/ Begin(t)
<1>0. TypeOK /\ CallInv
  BY DEF TypeInv
<1> DEFINE Same == pc[t] # "idle" /\ call'[t] = call[t] /\ snap'[t] = snap[t]
<1>1. Same => CallGoesOn(t)
  BY DEF CallGoesOn
<1>2. ASSUME NEW u \in Threads, u # t,
             /\ pc'[t] = pc[t] /\ call'[t] = call[t] /\ snap'[t] = snap[t]
      PROVE Same
  BY <1>2
<1>3. ASSUME NEW u \in Threads, Begin(u) PROVE Begin(t) \/ Same
  BY <1>0, <1>3 DEF Begin, Go, TypeOK
<1>4. ASSUME NEW u \in Threads, pc[u] # "idle", CacheGaveNull(u), UNCHANGED snap
      PROVE CallGoesOn(t)
  <2>1. call[u] \in Calls /\ "bf16" \in Routes
    BY <1>0, <1>4 DEF CallInv, Routes
  <2>2. \/ call' = call
        \/ /\ call' = [call EXCEPT ![u].route = "bf16"]
           /\ pc' = [pc EXCEPT ![u] = "resolve"]
    BY <1>4, NullLeads
  <2>3. \A x \in Threads \ {u} : pc'[x] = pc[x]
    BY <1>4, NullResolves DEF Resolved
  <2>4. CASE call' = call
    BY <1>4, <2>3, <2>4 DEF CallGoesOn
  <2>5. CASE call' = [call EXCEPT ![u].route = "bf16"]
    <3>1. call'[u].route = "bf16" /\ \A x \in Threads \ {u} : call'[x] = call[x]
      BY <1>0, <2>1, <2>5, RouteChanges
    <3> QED
      BY <1>4, <2>3, <3>1 DEF CallGoesOn
  <2> QED
    BY <2>2, <2>4, <2>5
<1>5. ASSUME NEW u \in Threads, pc[u] # "idle", NEW b \in Blocks, TakeEntry(u, b),
             UNCHANGED <<call, snap>>
      PROVE Same
  BY <1>0, <1>5 DEF TakeEntry, Multiply, Go, TypeOK
<1>6. ASSUME NEW u \in Threads, TlHit(u) PROVE Same
  BY <1>0, <1>6 DEF TlHit, Multiply, Go, TypeOK
<1>7. ASSUME NEW u \in Threads, LookupHit(u) PROVE CallGoesOn(t)
  <2>0. /\ call[u] \in Calls /\ call[u].route \in Caches /\ pc[u] # "idle"
        /\ UNCHANGED snap
    BY <1>0, <1>7 DEF LookupHit, Asks, CallInv
  <2>1. Entry(call[u]) \in Blocks
    BY <1>0, <1>7, <2>0, WantedIsPack DEF LookupHit, Present, Entry, TypeOK
  <2> QED
    BY <1>1, <1>4, <1>5, <1>7, <2>0, <2>1 DEF LookupHit
<1>8. ASSUME NEW u \in Threads, pc[u] # "idle", NEW b \in Blocks, Insert(u, b), UNCHANGED snap
      PROVE CallGoesOn(t)
  BY <1>1, <1>4, <1>5, <1>8 DEF Insert
<1>9. ASSUME NEW u \in Threads, PackUnderLock(u) PROVE CallGoesOn(t)
  <2>1. PICK b \in Blocks : Insert(u, b)
    BY <1>9 DEF PackUnderLock, Free
  <2> QED
    BY <1>8, <1>9, <2>1 DEF PackUnderLock, Asks
<1>10. ASSUME NEW u \in Threads, PackUnlocked(u) PROVE Same
  BY <1>0, <1>10 DEF PackUnlocked, Asks, Go, TypeOK
<1>11. ASSUME NEW u \in Threads, AllocationFails(u) PROVE CallGoesOn(t)
  BY <1>4, <1>11 DEF AllocationFails, Asks
<1>12. ASSUME NEW u \in Threads, Publish(u) PROVE CallGoesOn(t)
  <2>0. /\ call[u] \in Calls /\ call[u].route \in Caches /\ pc[u] # "idle"
        /\ mine[u] \in Blocks /\ UNCHANGED snap
    BY <1>0, <1>12 DEF Publish, CallInv, TypeOK
  <2>1. Present(call[u]) => Entry(call[u]) \in Blocks
    BY <1>0, <2>0, WantedIsPack DEF Present, Entry, TypeOK
  <2> QED
    BY <1>1, <1>5, <1>8, <1>12, <2>0, <2>1 DEF Publish
<1>13. ASSUME NEW u \in Threads, SkipsCaches(u) \/ PackForThisCall(u)
       PROVE Same
  BY <1>0, <1>13 DEF SkipsCaches, PackForThisCall, local, Multiply, Go, TypeOK
<1>14. ASSUME NEW u \in Threads, NoMemoryForThisCall(u) PROVE CallGoesOn(t)
  <2>0. pc[u] = "local" /\ call[u] \in Calls
    BY <1>0, <1>14 DEF NoMemoryForThisCall, CallInv
  <2>1. CASE call[u].route \in {"bf16", "fp32"}
    BY <1>0, <1>1, <1>14, <2>0, <2>1 DEF NoMemoryForThisCall, Multiply, Go, TypeOK
  <2>2. CASE call[u].route = "int8_gemv"
    <3>1. /\ call' = [call EXCEPT ![u] = [call[u] EXCEPT !.route = "int8", !.q = NoQuant]]
          /\ UNCHANGED snap /\ pc' = [pc EXCEPT ![u] = "resolve"]
      BY <1>14, <2>2 DEF NoMemoryForThisCall, Go
    <3>2. call'[u].route = "int8" /\ \A x \in Threads \ {u} : call'[x] = call[x]
      BY <1>0, <2>0, <3>1 DEF TypeOK, Calls
    <3> QED
      BY <1>0, <2>0, <3>1, <3>2 DEF CallGoesOn, TypeOK
  <2>3. CASE call[u].route \notin {"bf16", "fp32", "int8_gemv"}
    BY <1>0, <1>1, <1>14, <2>3 DEF NoMemoryForThisCall, Returns, Go, TypeOK
  <2> QED
    BY <2>1, <2>2, <2>3
<1>15. ASSUME NEW u \in Threads, ReuseColumns(u) \/ PackColumns(u)
       PROVE Same
  BY <1>0, <1>15 DEF ReuseColumns, PackColumns, KeepsColumns, local, Multiply, Go, TypeOK
<1>16. ASSUME NEW u \in Threads, NoMemoryForColumns(u) PROVE CallGoesOn(t)
  <2>0. call[u] \in Calls /\ "bf16" \in Routes
    BY <1>0, <1>16 DEF NoMemoryForColumns, KeepsColumns, CallInv, Routes
  <2>1. call'[u].route = "bf16" /\ \A x \in Threads \ {u} : call'[x] = call[x]
    BY <1>0, <1>16, <2>0, RouteChanges DEF NoMemoryForColumns
  <2> QED
    BY <1>16, <2>1 DEF NoMemoryForColumns, CallGoesOn
<1>17. ASSUME NEW u \in Threads, GemmEnds(u) PROVE Same
  BY <1>0, <1>17 DEF GemmEnds, Returns, Go, TypeOK
<1>18. ASSUME NEW w \in Mutable, WriteWeight(w) PROVE Same
  BY <1>18 DEF WriteWeight
<1>19. CASE UNCHANGED vars
  BY <1>1, <1>19 DEF vars
<1>20. \/ \E u \in Threads :
             \/ LookupHit(u) \/ PackUnderLock(u) \/ AllocationFails(u) \/ Publish(u)
             \/ NoMemoryForThisCall(u) \/ NoMemoryForColumns(u)
       \/ \E u \in Threads :
             \/ TlHit(u) \/ PackUnlocked(u) \/ SkipsCaches(u) \/ PackForThisCall(u)
             \/ ReuseColumns(u) \/ PackColumns(u) \/ GemmEnds(u)
       \/ \E u \in Threads : Begin(u)
       \/ \E w \in Mutable : WriteWeight(w)
       \/ UNCHANGED vars
  BY DEF Next
<1>21. ASSUME NEW u \in Threads,
              \/ LookupHit(u) \/ PackUnderLock(u) \/ AllocationFails(u) \/ Publish(u)
              \/ NoMemoryForThisCall(u) \/ NoMemoryForColumns(u)
       PROVE CallGoesOn(t)
  BY <1>21, <1>7, <1>9, <1>11, <1>12, <1>14, <1>16
<1>22. ASSUME NEW u \in Threads,
              \/ TlHit(u) \/ PackUnlocked(u) \/ SkipsCaches(u) \/ PackForThisCall(u)
              \/ ReuseColumns(u) \/ PackColumns(u) \/ GemmEnds(u)
       PROVE Same
  BY <1>22, <1>6, <1>10, <1>13, <1>15, <1>17
<1> QED
  BY <1>1, <1>3, <1>18, <1>19, <1>20, <1>21, <1>22

(* The callers' invariant: none clash, none is passed by a clear. *)
LEMMA CallerStep ==
  ASSUME ModelsAreSound
  PROVE  TypeInv /\ BlockInv /\ CallerInv /\ [Next]_vars => CallerInv'
<1> SUFFICES ASSUME TypeInv, BlockInv, CallerInv, [Next]_vars PROVE CallerInv'
  OBVIOUS
<1>0. TypeOK /\ CallInv /\ TypeOK' /\ CallInv' /\ gen' \in Nat
  BY TypeStep DEF TypeInv, TypeOK
<1>1. CASE ClearAll
  BY <1>1 DEF ClearAll, CallerInv, CallersInStep, NoneClash, PeersAgree
<1>2. CASE ~ClearAll
  <2>0. Quiet
    BY <1>2, BlocksMove
  <2>1. \A t \in Threads : pc'[t] # "idle" => CallGoesOn(t) \/ Begin(t)
    BY <1>2, CallsMove
  <2>2. ASSUME NEW t \in Threads, Begin(t)
        PROVE  /\ call'[t] \in uses /\ snap'[t] = gen /\ pc'[t] = "resolve"
               /\ \A u \in Threads \ {t} : call'[u] = call[u] /\ pc'[u] = pc[u]
               /\ \A u \in Threads \ {t} : pc'[u] # "idle" => ~Clashes(call'[t], call[u])
    <3>1. PICK c \in uses : /\ \A o \in Threads : pc[o] # "idle" => ~Clashes(c, call[o])
                           /\ call' = [call EXCEPT ![t] = c]
      BY <2>2 DEF Begin, ModelsAreSound
    <3>2. /\ snap' = [snap EXCEPT ![t] = gen] /\ pc' = [pc EXCEPT ![t] = "resolve"]
      BY <2>2 DEF Begin, Go
    <3> QED
      BY <1>0, <3>1, <3>2 DEF TypeOK
  <2>3. CallersInStep'
    <3> SUFFICES ASSUME NEW t \in Threads, pc'[t] # "idle"
                 PROVE  /\ snap'[t] = gen'
                        /\ call'[t].route \in TlCaches => call'[t] \in uses'
                        /\ call'[t].route = "fp32" => call'[t].lay = "plain"
      BY DEF CallersInStep
    <3>1. CASE CallGoesOn(t)
      BY <2>0, <3>1 DEF CallGoesOn, Quiet, CallerInv, CallersInStep, TlCaches
    <3>2. CASE Begin(t)
      BY <1>0, <2>0, <2>2, <3>2 DEF Quiet, ModelsAreSound, TypeOK
    <3> QED
      BY <2>1, <3>1, <3>2
  <2>4. NoneClash'
    <3> SUFFICES ASSUME NEW t \in Threads, NEW u \in Threads,
                        pc'[t] # "idle", pc'[u] # "idle", Clashes(call'[t], call'[u])
                 PROVE  FALSE
      BY DEF NoneClash, Clashes
    <3>1. CASE Begin(t) /\ u # t
      BY <2>2, <3>1
    <3>2. CASE Begin(u) /\ u # t
      BY <2>2, <3>2 DEF Clashes
    <3>3. CASE u = t
      BY <3>3 DEF Clashes
    <3>4. CASE CallGoesOn(t) /\ CallGoesOn(u)
      BY <3>4 DEF CallGoesOn, Clashes, CallerInv, NoneClash
    <3> QED
      BY <2>1, <3>1, <3>2, <3>3, <3>4
  <2>5. PeersAgree'
    <3> SUFFICES ASSUME NEW u \in Threads, pc'[u] = "publish", Present(call[u])'
                 PROVE  SameQuant(call[u])'
      BY DEF PeersAgree
    <3> DEFINE r0 == call[u].route
               k0 == Key(call[u])
    <3>1. /\ call'[u] = call[u] /\ mine'[u] # NoBlock
          /\ call[u].route \in Caches
          /\ call[u] \in Calls
          /\ call[u].q # NoQuant <=> call[u].route = "int8_gemv"
      BY <1>0, <2>0 DEF Quiet, CallInv
    <3>2. Key(call[u]) \in Keys
      BY <1>0, <3>1, WantedIsPack
    <3>3. /\ cache'[r0][k0] # NoBlock
          /\ SameQuant(call[u])' <=> heap'[cache'[r0][k0]].q = call[u].q
      BY <3>1 DEF Present, SameQuant, Entry, Key
    <3>4. ASSUME pc[u] = "publish", cache[r0][k0] # NoBlock
          PROVE  heap[cache[r0][k0]].q = call[u].q
      BY <3>4 DEF CallerInv, PeersAgree, Present, SameQuant, Entry
    <3>5. CASE UNCHANGED <<heap, cache, mine>>
      BY <1>0, <3>1, <3>3, <3>4, <3>5 DEF CallInv
    <3>6. ASSUME NEW t \in Threads, NEW b \in Blocks, Fills(t),
                 TakesBlock(t, b) \/ InsertsBlock(t, b) \/ FreesBlock(t, b)
          PROVE  SameQuant(call[u])'
      <4>1. u # t /\ mine[u] = mine'[u]
        <5>1. TakesBlock(t, b) => u # t
          BY <3>3 DEF TakesBlock, Present
        <5>2. InsertsBlock(t, b) \/ FreesBlock(t, b) => mine'[t] = NoBlock
          BY <1>0 DEF InsertsBlock, FreesBlock, TypeOK
        <5>3. \A x \in Threads \ {t} : mine'[x] = mine[x]
          BY <1>0, <3>6 DEF TakesBlock, InsertsBlock, FreesBlock, TypeOK
        <5> QED
          BY <3>1, <3>6, <5>1, <5>2, <5>3
      <4>2. pc[u] = "publish"
        BY <1>0, <3>1, <4>1 DEF CallInv
      <4>3. CASE cache'[r0][k0] = cache[r0][k0]
        <5>1. heap'[cache[r0][k0]] = heap[cache[r0][k0]]
          BY <1>0, <3>1, <3>2, <3>3, <3>6, <4>3
             DEF TakesBlock, InsertsBlock, FreesBlock, TypeOK, BlockInv,
                 HeldIsAllocated, MineUnpublished
        <5> QED
          BY <3>3, <3>4, <4>2, <4>3, <5>1
      <4>4. CASE cache'[r0][k0] # cache[r0][k0]
        <5>1. /\ r0 = call[t].route /\ k0 = Key(call[t])
              /\ heap'[cache'[r0][k0]].q = call[t].q
          <6>1. InsertsBlock(t, b)
            BY <3>6, <4>4 DEF TakesBlock, FreesBlock
          <6>2. /\ cache' = [cache EXCEPT ![call[t].route][Key(call[t])] = b]
                /\ heap' = [heap EXCEPT ![b] = Wanted(call[t])]
            BY <6>1 DEF InsertsBlock
          <6>3. r0 = call[t].route /\ k0 = Key(call[t]) /\ cache'[r0][k0] = b
            BY <1>0, <3>1, <3>2, <4>4, <6>2 DEF TypeOK
          <6>4. heap'[b] = Wanted(call[t])
            BY <1>0, <6>2 DEF TypeOK
          <6> QED
            BY <6>3, <6>4 DEF Wanted
        <5>2. call[t].q = call[u].q
          <6>1. /\ ~Clashes(call[t], call[u]) /\ call[t].w = call[u].w
                /\ call[t].q # NoQuant <=> call[t].route = "int8_gemv"
            BY <3>6, <4>2, <5>1 DEF CallerInv, NoneClash, Fills, Key
          <6> QED
            BY <3>1, <5>1, <6>1 DEF Clashes
        <5> QED
          BY <3>3, <5>1, <5>2
      <4> QED
        BY <4>3, <4>4
    <3> QED
      BY <1>2, <3>5, <3>6, BlocksMove
  <2> QED
    BY <2>3, <2>4, <2>5 DEF CallerInv
<1> QED
  BY <1>1, <1>2
----------------------------------------------------------------------------
(* Whom a lookup, a pack or a publication gives an entry gives it the one of
   the call's key, dequantised for the call's source; or there is none. *)
LEMMA EntryTaken ==
  ASSUME TypeInv, BlockInv, CallerInv, NEW t \in Threads,
         LookupHit(t) \/ PackUnderLock(t) \/ Publish(t)
  PROVE  /\ Fills(t) /\ UNCHANGED <<uses, gen, ver, buf, snap>>
         /\ \/ CacheGaveNull(t)
            \/ \E b \in Blocks :
                  /\ TakeEntry(t, b) /\ call' = call
                  /\ cache'[call[t].route][Key(call[t])] = b
                  /\ heap'[b].q = call[t].q
<1>0. /\ TypeOK /\ Fills(t) /\ UNCHANGED <<uses, gen, ver, buf, snap>>
      /\ call[t].route \in Caches /\ call[t] \in Calls
  BY DEF TypeInv, CallInv, Fills, LookupHit, PackUnderLock, Publish, Asks
<1>1. Key(call[t]) \in Keys
  BY <1>0, WantedIsPack
<1>2. ASSUME NEW b \in Blocks, Insert(t, b), ~CacheGaveNull(t)
      PROVE  /\ TakeEntry(t, b) /\ call' = call
             /\ cache'[call[t].route][Key(call[t])] = b
             /\ heap'[b].q = call[t].q
  <2>1. /\ TakeEntry(t, b) /\ call' = call
        /\ cache' = [cache EXCEPT ![call[t].route][Key(call[t])] = b]
        /\ heap' = [heap EXCEPT ![b] = Wanted(call[t])]
    BY <1>2 DEF Insert
  <2> QED
    BY <1>0, <1>1, <2>1 DEF TypeOK, Wanted
<1>3. CASE LookupHit(t) /\ ~CacheGaveNull(t)
  <2>1. /\ Present(call[t]) /\ SameQuant(call[t]) /\ TakeEntry(t, Entry(call[t]))
        /\ UNCHANGED <<heap, cache, call>>
    BY <1>3 DEF LookupHit
  <2>2. Entry(call[t]) \in Blocks
    BY <1>0, <1>1, <2>1 DEF Present, Entry, TypeOK
  <2> QED
    BY <1>0, <2>1, <2>2 DEF SameQuant, Entry
<1>4. CASE PackUnderLock(t) /\ ~CacheGaveNull(t)
  <2>1. PICK b \in Blocks : Insert(t, b)
    BY <1>4 DEF PackUnderLock, Free
  <2> QED
    BY <1>0, <1>2, <1>4, <2>1
<1>5. CASE Publish(t) /\ ~CacheGaveNull(t)
  <2>0. pc[t] = "publish" /\ mine[t] \in Blocks /\ mine[t] # NoBlock
    BY <1>5 DEF TypeInv, TypeOK, CallInv, Publish
  <2>1. CASE Present(call[t])
    <3>1. /\ TakeEntry(t, Entry(call[t])) /\ UNCHANGED <<cache, call>>
          /\ heap' = [heap EXCEPT ![mine[t]] = NoPack]
      BY <1>5, <2>1 DEF Publish
    <3>2. Entry(call[t]) \in Blocks /\ Entry(call[t]) # mine[t]
      BY <1>0, <1>1, <2>0, <2>1 DEF Present, Entry, TypeOK, BlockInv, MineUnpublished
    <3>3. heap[Entry(call[t])].q = call[t].q
      BY <2>0, <2>1 DEF CallerInv, PeersAgree, SameQuant
    <3>4. heap'[Entry(call[t])] = heap[Entry(call[t])]
      BY <1>0, <3>1, <3>2 DEF TypeOK
    <3>5. cache'[call[t].route][Key(call[t])] = Entry(call[t])
      BY <3>1 DEF Entry
    <3> QED
      BY <1>0, <3>1, <3>2, <3>3, <3>4, <3>5
  <2>2. CASE ~Present(call[t])
    <3>1. Insert(t, mine[t])
      BY <1>5, <2>2 DEF Publish
    <3> QED
      BY <1>0, <1>2, <1>5, <2>0, <3>1
  <2> QED
    BY <2>1, <2>2
<1> QED
  BY <1>0, <1>3, <1>4, <1>5

(* The records change only by what a resolution took out of a cache, the
   columns only by a fresh pack or by being given up. *)
RecordsEntry(t) ==
    /\ Fills(t) /\ call[t].route \in TlCaches
    /\ UNCHANGED <<uses, gen, ver, buf>>
    /\ \E b \in Blocks :
          /\ tl' = [tl EXCEPT ![t][call[t].route] =
                       [w |-> call[t].w, lay |-> call[t].lay, q |-> call[t].q,
                        at |-> b, gen |-> snap[t]]]
          /\ cache'[call[t].route][Key(call[t])] = b
          /\ heap'[b].q = call[t].q
KeepsPack(t) ==
    /\ pc[t] # "idle" /\ UNCHANGED <<uses, gen, ver, tl>>
    /\ buf' = [buf EXCEPT ![t] =
                 [w |-> call[t].w, ver |-> ver[call[t].w], lay |-> call[t].lay,
                  gen |-> snap[t]]]

LEMMA RecordsMove ==
  ASSUME TypeInv, BlockInv, CallerInv, [Next]_vars
  PROVE  \/ UNCHANGED <<tl, buf>>
         \/ \E t \in Threads : RecordsEntry(t) \/ KeepsPack(t)
         \/ \E t \in Threads : tl' = tl /\ buf' = [buf EXCEPT ![t] = NoRecord]
<1>1. ASSUME NEW t \in Threads, LookupHit(t) \/ PackUnderLock(t) \/ Publish(t)
      PROVE  UNCHANGED <<tl, buf>> \/ RecordsEntry(t)
  <2>1. CASE CacheGaveNull(t)
    BY <1>1, <2>1, EntryTaken, NullLeads
  <2>2. ASSUME NEW b \in Blocks, TakeEntry(t, b),
               cache'[call[t].route][Key(call[t])] = b, heap'[b].q = call[t].q
        PROVE  UNCHANGED <<tl, buf>> \/ RecordsEntry(t)
    BY <1>1, <2>2, EntryTaken DEF TakeEntry, Remember, RecordsEntry
  <2> QED
    BY <1>1, <2>1, <2>2, EntryTaken
<1>2. ASSUME NEW t \in Threads, PackColumns(t)
      PROVE  KeepsPack(t)
  BY <1>2 DEF PackColumns, KeepsColumns, KeepsPack
<1>3. ASSUME NEW t \in Threads, NoMemoryForColumns(t)
      PROVE  tl' = tl /\ buf' = [buf EXCEPT ![t] = NoRecord]
  BY <1>3 DEF NoMemoryForColumns
<1>4. ASSUME NEW t \in Threads,
             \/ Begin(t) \/ TlHit(t) \/ PackUnlocked(t) \/ AllocationFails(t)
             \/ SkipsCaches(t) \/ PackForThisCall(t) \/ NoMemoryForThisCall(t)
             \/ ReuseColumns(t) \/ GemmEnds(t)
      PROVE  UNCHANGED <<tl, buf>>
  <2>1. AllocationFails(t) => UNCHANGED <<tl, buf>>
    BY DEF AllocationFails, CacheGaveNull
  <2>2. Begin(t) \/ TlHit(t) \/ PackUnlocked(t) => UNCHANGED <<tl, buf>>
    BY DEF Begin, TlHit, PackUnlocked
  <2>3. SkipsCaches(t) \/ PackForThisCall(t) \/ NoMemoryForThisCall(t)
           => UNCHANGED <<tl, buf>>
    BY DEF SkipsCaches, PackForThisCall, NoMemoryForThisCall
  <2>4. ReuseColumns(t) \/ GemmEnds(t) => UNCHANGED <<tl, buf>>
    BY DEF ReuseColumns, GemmEnds
  <2> QED
    BY <1>4, <2>1, <2>2, <2>3, <2>4
<1>5. ClearAll \/ (\E w \in Mutable : WriteWeight(w)) \/ UNCHANGED vars
         => UNCHANGED <<tl, buf>>
  BY DEF ClearAll, WriteWeight, vars
<1> QED
  BY <1>1, <1>2, <1>3, <1>4, <1>5 DEF Next

(* A clear raises the generation above every record's; any other step keeps
   what a record or kept columns of the present generation stand for. *)
LEMMA ClearsMoveOn ==
  ASSUME TypeInv, ClearAll
  PROVE  /\ gen' \in Nat /\ gen < gen'
         /\ UNCHANGED <<uses, tl, buf, pc, call, snap, mine, use>>
  BY NonEmptyCounted DEF ClearAll, TypeInv, TypeOK

LEMMA RecordStep ==
  TypeInv /\ BlockInv /\ CacheInv /\ CallerInv /\ RecordInv /\ [Next]_vars => RecordInv'
<1> SUFFICES ASSUME TypeInv, BlockInv, CacheInv, CallerInv, RecordInv, [Next]_vars
             PROVE  RecordInv'
  OBVIOUS
<1>0. /\ TypeOK /\ TypeOK' /\ CacheInv' /\ BlockInv' /\ gen \in Nat
      /\ \A b \in Blocks : b # NoBlock
  BY TypeStep, BlockStep, CacheStep, NoneIsNone DEF TypeInv, TypeOK
<1>1. CASE ClearAll
  <2>1. gen' \in Nat /\ gen < gen' /\ UNCHANGED <<uses, tl, buf>>
    BY <1>1, ClearsMoveOn
  <2>2. \A t \in Threads : \A r \in TlCaches :
           tl[t][r] # NoRecord => tl[t][r].gen \in Nat
    BY <1>0 DEF TypeOK, TlRecords
  <2>3. \A t \in Threads : buf[t] # NoRecord => buf[t].gen \in Nat
    BY <1>0 DEF TypeOK, Buffers
  <2>4. RecordsOfUses'
    <3> SUFFICES ASSUME NEW t \in Threads, NEW r \in TlCaches, tl[t][r] # NoRecord
                 PROVE  /\ tl[t][r].gen <= gen'
                        /\ [route |-> r, w |-> tl[t][r].w, lay |-> tl[t][r].lay,
                            q |-> tl[t][r].q] \in uses
      BY <2>1 DEF RecordsOfUses
    <3>1. /\ tl[t][r].gen <= gen /\ tl[t][r].gen \in Nat
          /\ [route |-> r, w |-> tl[t][r].w, lay |-> tl[t][r].lay,
              q |-> tl[t][r].q] \in uses
      BY <2>2 DEF RecordInv, RecordsOfUses
    <3> QED
      BY <1>0, <2>1, <3>1
  <2>5. TlRecordsAreCurrent'
    <3>1. ASSUME NEW t \in Threads, NEW r \in TlCaches, tl[t][r] # NoRecord
          PROVE  tl[t][r].gen # gen'
      <4>1. tl[t][r].gen <= gen /\ tl[t][r].gen \in Nat
        BY <2>2, <3>1 DEF RecordInv, RecordsOfUses
      <4> QED
        BY <1>0, <2>1, <4>1
    <3> QED
      BY <2>1, <3>1 DEF TlRecordsAreCurrent
  <2>6. ColumnsCurrent'
    BY <1>0, <2>1, <2>3 DEF RecordInv, ColumnsCurrent
  <2> QED
    BY <2>4, <2>5, <2>6 DEF RecordInv
<1>2. CASE ~ClearAll
  <2>0. gen' = gen /\ uses' = uses /\ \A w \in Weights \ Mutable : ver'[w] = ver[w]
    BY <1>2, BlocksMove DEF Quiet
  <2>1. ASSUME NEW t \in Threads, NEW r \in TlCaches, tl'[t][r] # NoRecord
        PROVE  \/ tl'[t][r] = tl[t][r]
               \/ /\ RecordsEntry(t) /\ r = call[t].route
                  /\ \E b \in Blocks :
                       /\ tl'[t][r] = [w |-> call[t].w, lay |-> call[t].lay,
                                       q |-> call[t].q, at |-> b, gen |-> gen]
                       /\ cache'[call[t].route][Key(call[t])] = b
                       /\ heap'[b].q = call[t].q
    <3>1. ASSUME NEW u \in Threads, RecordsEntry(u), tl'[t][r] # tl[t][r]
          PROVE  /\ u = t /\ r = call[t].route
                 /\ \E b \in Blocks :
                       /\ tl'[t][r] = [w |-> call[t].w, lay |-> call[t].lay,
                                       q |-> call[t].q, at |-> b, gen |-> gen]
                       /\ cache'[call[t].route][Key(call[t])] = b
                       /\ heap'[b].q = call[t].q
      <4>1. PICK b \in Blocks :
               /\ tl' = [tl EXCEPT ![u][call[u].route] =
                           [w |-> call[u].w, lay |-> call[u].lay, q |-> call[u].q,
                            at |-> b, gen |-> snap[u]]]
               /\ cache'[call[u].route][Key(call[u])] = b
               /\ heap'[b].q = call[u].q
        BY <3>1 DEF RecordsEntry
      <4>2. u = t /\ r = call[t].route
        BY <1>0, <3>1, <4>1 DEF TypeOK
      <4>3. snap[t] = gen
        BY <3>1, <4>2 DEF RecordsEntry, Fills, CallerInv, CallersInStep
      <4>4. tl'[t][r] = [w |-> call[t].w, lay |-> call[t].lay, q |-> call[t].q,
                         at |-> b, gen |-> gen]
        BY <1>0, <4>1, <4>2, <4>3 DEF TypeOK
      <4> QED
        BY <4>1, <4>2, <4>4
    <3> QED
      BY <3>1, RecordsMove DEF KeepsPack
  <2>2. ASSUME NEW t \in Threads, NEW r \in TlCaches, tl'[t][r] # NoRecord
        PROVE  /\ tl'[t][r].gen <= gen'
               /\ [route |-> r, w |-> tl'[t][r].w, lay |-> tl'[t][r].lay,
                   q |-> tl'[t][r].q] \in uses'
    <3>1. CASE tl'[t][r] = tl[t][r]
      BY <2>0, <2>2, <3>1 DEF RecordInv, RecordsOfUses
    <3>2. CASE tl'[t][r] # tl[t][r]
      <4>1. /\ call[t] \in Calls /\ call[t] \in uses /\ r = call[t].route
        BY <2>1, <2>2, <3>2 DEF RecordsEntry, Fills, CallerInv, CallersInStep
      <4>2. call[t] = [route |-> call[t].route, w |-> call[t].w,
                       lay |-> call[t].lay, q |-> call[t].q]
        BY <4>1 DEF Calls
      <4>3. PICK b \in Blocks :
               tl'[t][r] = [w |-> call[t].w, lay |-> call[t].lay, q |-> call[t].q,
                            at |-> b, gen |-> gen]
        BY <2>1, <2>2, <3>2
      <4>4. [route |-> r, w |-> tl'[t][r].w, lay |-> tl'[t][r].lay, q |-> tl'[t][r].q]
               = call[t]
        BY <4>1, <4>2, <4>3
      <4> QED
        BY <1>0, <2>0, <4>1, <4>3, <4>4
    <3> QED
      BY <3>1, <3>2
  <2>3. ASSUME NEW t \in Threads, NEW r \in TlCaches, tl'[t][r] # NoRecord,
               tl'[t][r].gen = gen'
        PROVE  /\ cache'[r][<<tl'[t][r].w, tl'[t][r].lay>>] = tl'[t][r].at
               /\ heap'[tl'[t][r].at] =
                    [cache |-> r, w |-> tl'[t][r].w, ver |-> ver'[tl'[t][r].w],
                     lay |-> tl'[t][r].lay, q |-> tl'[t][r].q]
    <3>0. r \in Caches
      BY DEF TlCaches, Caches, Routes
    <3>1. CASE tl'[t][r] = tl[t][r]
      <4> DEFINE k == <<tl[t][r].w, tl[t][r].lay>>
      <4>1. tl[t][r] \in TlRecords
        BY <1>0, <2>3, <3>1 DEF TypeOK
      <4>2. /\ tl[t][r].w \in Weights /\ k \in Keys /\ tl[t][r].at # NoBlock
        BY <1>0, <4>1 DEF TlRecords, Keys
      <4>3. /\ cache[r][k] = tl[t][r].at
            /\ heap[tl[t][r].at] =
                 [cache |-> r, w |-> tl[t][r].w, ver |-> ver[tl[t][r].w],
                  lay |-> tl[t][r].lay, q |-> tl[t][r].q]
        BY <2>0, <2>3, <3>1 DEF RecordInv, TlRecordsAreCurrent
      <4>4. cache'[r][k] = tl[t][r].at /\ heap'[tl[t][r].at] = heap[tl[t][r].at]
        BY <2>0, <3>0, <4>2, <4>3, EntryStays
      <4>5. tl[t][r].w \notin Mutable
        BY <3>0, <4>2, <4>3 DEF CacheInv, EntriesCurrent
      <4> QED
        BY <2>0, <3>1, <4>2, <4>3, <4>4, <4>5
    <3>2. CASE tl'[t][r] # tl[t][r]
      <4>1. PICK b \in Blocks :
               /\ tl'[t][r] = [w |-> call[t].w, lay |-> call[t].lay,
                               q |-> call[t].q, at |-> b, gen |-> gen]
               /\ cache'[call[t].route][Key(call[t])] = b
               /\ heap'[b].q = call[t].q
        BY <2>1, <2>3, <3>2
      <4>2. r = call[t].route /\ Key(call[t]) \in Keys
        BY <1>0, <2>1, <2>3, <3>2, WantedIsPack DEF RecordsEntry, Fills
      <4>3. /\ heap'[b] \in Packs /\ heap'[b].cache = r /\ heap'[b].w = call[t].w
            /\ heap'[b].lay = call[t].lay /\ heap'[b].ver = ver'[call[t].w]
        BY <1>0, <3>0, <4>1, <4>2
           DEF CacheInv, EntriesCurrent, BlockInv, HeldIsAllocated, TypeOK, Key
      <4>4. heap'[b] = [cache |-> r, w |-> call[t].w, ver |-> ver'[call[t].w],
                        lay |-> call[t].lay, q |-> call[t].q]
        BY <4>1, <4>3 DEF Packs
      <4> QED
        BY <4>1, <4>2, <4>4 DEF Key
    <3> QED
      BY <3>1, <3>2
  <2>4. ASSUME NEW t \in Threads, buf'[t] # NoRecord
        PROVE  /\ buf'[t].gen <= gen'
               /\ buf'[t].gen = gen' /\ buf'[t].w \notin Mutable =>
                    buf'[t].ver = ver'[buf'[t].w]
    <3>1. CASE buf'[t] = buf[t]
      <4>1. buf[t].w \in Weights
        BY <1>0, <2>4, <3>1 DEF TypeOK, Buffers
      <4> QED
        BY <2>0, <2>4, <3>1, <4>1 DEF RecordInv, ColumnsCurrent
    <3>2. CASE buf'[t] # buf[t]
      <4>1. \E u \in Threads : KeepsPack(u) \/ buf' = [buf EXCEPT ![u] = NoRecord]
        BY <3>2, RecordsMove DEF RecordsEntry
      <4>2. KeepsPack(t)
        BY <1>0, <2>4, <3>2, <4>1 DEF KeepsPack, TypeOK
      <4>3. /\ buf'[t] = [w |-> call[t].w, ver |-> ver[call[t].w], lay |-> call[t].lay,
                          gen |-> snap[t]]
            /\ ver' = ver /\ snap[t] = gen
        BY <1>0, <4>2 DEF KeepsPack, TypeOK, CallerInv, CallersInStep
      <4> QED
        BY <1>0, <2>0, <4>3
    <3> QED
      BY <3>1, <3>2
  <2> QED
    BY <2>2, <2>3, <2>4 DEF RecordInv, RecordsOfUses, TlRecordsAreCurrent, ColumnsCurrent
<1> QED
  BY <1>1, <1>2
----------------------------------------------------------------------------
(* A thread's step changes nobody else's call, nor what the others read. *)
Elsewhere(t) ==
    /\ ver' = ver
    /\ \A u \in Threads \ {t} :
          pc'[u] = pc[u] /\ call'[u] = call[u] /\ use'[u] = use[u] /\ buf'[u] = buf[u]

LEMMA NullReads ==
  ASSUME TypeInv, CallerInv, NEW t \in Threads, pc[t] # "idle", CacheGaveNull(t),
         UNCHANGED <<ver, buf>>
  PROVE  Elsewhere(t) /\ (pc'[t] = "gemm" => GemmReads(t)')
<1>1. /\ pc' \in [Threads -> PcStates] /\ TypeOK /\ pc \in [Threads -> PcStates]
      /\ \A u \in Threads \ {t} : pc'[u] = pc[u] /\ call'[u] = call[u]
  BY NullResolves DEF Resolved, TypeInv, TypeOK
<1>2. \/ /\ call[t].route = "fp32" /\ pc' = [pc EXCEPT ![t] = "gemm"]
         /\ use' = [use EXCEPT ![t] = Unpacked] /\ call' = call
      \/ pc'[t] # "gemm" /\ use' = use
  BY <1>1, NullLeads
<1>3. Elsewhere(t)
  BY <1>1, <1>2 DEF Elsewhere, TypeOK
<1>4. ASSUME pc'[t] = "gemm" PROVE GemmReads(t)'
  <2>1. call[t].lay = "plain" /\ call'[t] = call[t] /\ use'[t] = Unpacked
    BY <1>1, <1>2, <1>4 DEF CallerInv, CallersInStep, TypeOK
  <2> QED
    BY <2>1 DEF GemmReads
<1> QED
  BY <1>3, <1>4

(* The weights of a GEMV have one layout, so the record that matches a call by
   address points at the entry of the call's own layout. *)
LEMMA HitReads ==
  ASSUME ModelsAreSound, TypeInv, CallerInv, RecordInv, NEW t \in Threads, TlHit(t)
  PROVE  Elsewhere(t) /\ GemmReads(t)'
<1> DEFINE c == call[t]
           r == call[t].route
           e == tl[t][call[t].route]
<1>1. /\ TypeOK /\ c \in Calls /\ c \in uses /\ r \in TlCaches /\ r \in Caches
      /\ snap[t] = gen
  BY DEF TypeInv, CallInv, TlHit, CallerInv, CallersInStep, TlCaches, Caches, Routes
<1>2. /\ e # NoRecord /\ e.w = c.w /\ e.q = c.q /\ e.gen = gen
  BY <1>1 DEF TlHit, TlMatches
<1>3. e \in TlRecords
  BY <1>1, <1>2 DEF TypeOK
<1>4. e.lay = c.lay
  <2>1. [route |-> r, w |-> e.w, lay |-> e.lay, q |-> e.q] \in uses
    BY <1>1, <1>2 DEF RecordInv, RecordsOfUses
  <2>2. \A u, v \in uses :
           u.route \in TlCaches /\ v.route = u.route /\ v.w = u.w => v.lay = u.lay
    BY <1>1 DEF ModelsAreSound, TypeOK
  <2> QED
    BY <1>1, <1>2, <2>1, <2>2
<1>5. /\ cache[r][Key(c)] = e.at /\ heap[e.at].q = c.q /\ e.at \in Blocks
  <2>1. /\ cache[r][<<e.w, e.lay>>] = e.at
        /\ heap[e.at] = [cache |-> r, w |-> e.w, ver |-> ver[e.w],
                         lay |-> e.lay, q |-> e.q]
    BY <1>1, <1>2 DEF RecordInv, TlRecordsAreCurrent
  <2> QED
    BY <1>2, <1>3, <1>4, <2>1 DEF Key, TlRecords
<1>6. /\ pc' = [pc EXCEPT ![t] = "gemm"] /\ use' = [use EXCEPT ![t] = e.at]
      /\ UNCHANGED <<call, cache, heap, ver, buf>>
  BY DEF TlHit, Multiply, Go
<1>7. use'[t] = e.at
  BY <1>1, <1>6 DEF TypeOK
<1>8. GemmReads(t)'
  BY <1>1, <1>5, <1>6, <1>7, NoneIsNone DEF GemmReads, Present, Entry, SameQuant
<1> QED
  BY <1>1, <1>6, <1>8 DEF Elsewhere, TypeOK

(* So does a call that takes its entry, or finds none. *)
LEMMA EntryReads ==
  ASSUME TypeInv, BlockInv, CallerInv, NEW t \in Threads,
         LookupHit(t) \/ PackUnderLock(t) \/ Publish(t)
  PROVE  Elsewhere(t) /\ (pc'[t] = "gemm" => GemmReads(t)')
<1>1. /\ TypeOK /\ Fills(t) /\ UNCHANGED <<ver, buf>>
  BY EntryTaken DEF TypeInv
<1>2. CASE CacheGaveNull(t)
  BY <1>1, <1>2, NullReads DEF Fills
<1>3. ASSUME NEW b \in Blocks, TakeEntry(t, b), call' = call,
             cache'[call[t].route][Key(call[t])] = b, heap'[b].q = call[t].q
      PROVE  Elsewhere(t) /\ GemmReads(t)'
  <2>1. pc' = [pc EXCEPT ![t] = "gemm"] /\ use' = [use EXCEPT ![t] = b]
    BY <1>3 DEF TakeEntry, Multiply, Go
  <2>2. use'[t] = b
    BY <1>1, <2>1 DEF TypeOK
  <2>3. GemmReads(t)'
    BY <1>1, <1>3, <2>2, NoneIsNone DEF GemmReads, Present, Entry, SameQuant, Fills
  <2> QED
    BY <1>1, <1>3, <2>1, <2>3 DEF Elsewhere, TypeOK
<1> QED
  BY <1>2, <1>3, EntryTaken

(* And a call that packs for itself, keeps its columns or reads the buffer. *)
LEMMA OwnReads ==
  ASSUME TypeInv, CallerInv, RecordInv, NEW t \in Threads,
         \/ SkipsCaches(t) \/ PackForThisCall(t) \/ NoMemoryForThisCall(t)
         \/ ReuseColumns(t) \/ PackColumns(t) \/ NoMemoryForColumns(t)
  PROVE  Elsewhere(t) /\ (pc'[t] = "gemm" => GemmReads(t)')
<1>0. /\ TypeOK /\ call[t] \in Calls
      /\ snap[t] = gen /\ (call[t].route = "fp32" => call[t].lay = "plain")
  BY DEF TypeInv, CallInv, CallerInv, CallersInStep, SkipsCaches, PackForThisCall,
         NoMemoryForThisCall, ReuseColumns, PackColumns, NoMemoryForColumns, KeepsColumns
<1>1. ASSUME pc' = [pc EXCEPT ![t] = "gemm"], UNCHANGED <<call, ver, buf>>,
             \/ use' = [use EXCEPT ![t] = Fresh]
             \/ use' = [use EXCEPT ![t] = Unpacked] /\ call[t].lay = "plain"
      PROVE  Elsewhere(t) /\ GemmReads(t)'
  BY <1>0, <1>1 DEF Elsewhere, GemmReads, TypeOK
<1>2. CASE SkipsCaches(t)
  <2>1. UNCHANGED <<call, ver, buf>>
    BY <1>2 DEF SkipsCaches, local
  <2>2. \/ /\ pc' = [pc EXCEPT ![t] = "gemm"] /\ use' = [use EXCEPT ![t] = Unpacked]
           /\ call[t].lay = "plain"
        \/ pc' = [pc EXCEPT ![t] = "local"] /\ use' = use
    BY <1>2 DEF SkipsCaches, Multiply, Go
  <2> QED
    BY <1>0, <1>1, <2>1, <2>2 DEF Elsewhere, TypeOK
<1>3. CASE PackForThisCall(t)
  BY <1>1, <1>3 DEF PackForThisCall, Multiply, Go, local
<1>4. CASE NoMemoryForThisCall(t)
  <2>1. UNCHANGED <<ver, buf>>
    BY <1>4 DEF NoMemoryForThisCall
  <2>2. CASE call[t].route \in {"bf16", "fp32"}
    <3>1. /\ pc' = [pc EXCEPT ![t] = "gemm"] /\ UNCHANGED call
          /\ \/ use' = [use EXCEPT ![t] = Fresh]
             \/ use' = [use EXCEPT ![t] = Unpacked] /\ call[t].route = "fp32"
      BY <1>4, <2>2 DEF NoMemoryForThisCall, Multiply, Go
    <3> QED
      BY <1>0, <1>1, <2>1, <3>1
  <2>3. CASE call[t].route \notin {"bf16", "fp32"}
    <3>1. /\ pc' \in {[pc EXCEPT ![t] = "resolve"], [pc EXCEPT ![t] = "idle"]}
          /\ use' = use
          /\ \A u \in Threads \ {t} : call'[u] = call[u]
      BY <1>0, <1>4, <2>3 DEF NoMemoryForThisCall, Returns, Go, TypeOK
    <3> QED
      BY <1>0, <2>1, <3>1 DEF Elsewhere, TypeOK
  <2> QED
    BY <2>2, <2>3
<1>5. CASE ReuseColumns(t)
  <2>1. /\ pc' = [pc EXCEPT ![t] = "gemm"] /\ use' = [use EXCEPT ![t] = Kept]
        /\ UNCHANGED <<call, ver, buf>>
    BY <1>5 DEF ReuseColumns, Multiply, Go, local
  <2>2. /\ buf[t] # NoRecord /\ buf[t].w = call[t].w /\ buf[t].lay = call[t].lay
        /\ buf[t].ver = ver[call[t].w]
    BY <1>0, <1>5
       DEF ReuseColumns, ColumnsMatch, RecordInv, ColumnsCurrent, Const
  <2> QED
    BY <1>0, <2>1, <2>2 DEF Elsewhere, GemmReads, TypeOK
<1>6. CASE PackColumns(t)
  <2>1. /\ pc' = [pc EXCEPT ![t] = "gemm"] /\ use' = [use EXCEPT ![t] = Kept]
        /\ UNCHANGED <<call, ver>>
        /\ buf' = [buf EXCEPT ![t] = [w |-> call[t].w, ver |-> ver[call[t].w],
                                      lay |-> call[t].lay, gen |-> snap[t]]]
    BY <1>6 DEF PackColumns, Multiply, Go, local
  <2>2. [w |-> call[t].w, ver |-> ver[call[t].w], lay |-> call[t].lay,
         gen |-> snap[t]] \in Buffers
    BY <1>0 DEF TypeOK, Calls, Buffers
  <2>3. /\ buf'[t] # NoRecord /\ buf'[t].w = call[t].w /\ buf'[t].lay = call[t].lay
        /\ buf'[t].ver = ver[call[t].w] /\ use'[t] = Kept
    BY <1>0, <2>1, <2>2, NoneIsNone DEF TypeOK
  <2> QED
    BY <1>0, <2>1, <2>3 DEF Elsewhere, GemmReads, TypeOK
<1>7. CASE NoMemoryForColumns(t)
  <2>1. /\ pc[t] = "resolve" /\ UNCHANGED <<pc, use, ver>>
        /\ buf' = [buf EXCEPT ![t] = NoRecord]
        /\ \A u \in Threads \ {t} : call'[u] = call[u]
    BY <1>0, <1>7 DEF NoMemoryForColumns, KeepsColumns, TypeOK
  <2> QED
    BY <1>0, <2>1 DEF Elsewhere, TypeOK
<1> QED
  BY <1>2, <1>3, <1>4, <1>5, <1>6, <1>7

(* The other ways a step treats those that multiply: it leaves them alone, it
   ends one, or it writes a weight that none of them reads. *)
LEMMA GemmStep ==
  ASSUME ModelsAreSound
  PROVE  IInv /\ [Next]_vars => GemmsRead'
<1> SUFFICES ASSUME IInv, [Next]_vars, NEW u \in Threads, pc'[u] = "gemm"
             PROVE  GemmReads(u)'
  BY DEF GemmsRead
<1>0. /\ TypeInv /\ BlockInv /\ CallerInv /\ RecordInv /\ TypeOK
      /\ \A w \in Weights : ver[w] \in Versions
  BY DEF IInv, TypeInv, TypeOK
<1>1. ASSUME pc[u] = "gemm", call'[u] = call[u], use'[u] = use[u], buf'[u] = buf[u],
             ver'[call[u].w] = ver[call[u].w], gen' = gen
      PROVE  GemmReads(u)'
  <2>0. GemmReads(u) /\ call[u] \in Calls
    BY <1>0, <1>1 DEF IInv, GemmsRead, TypeInv, CallInv
  <2>1. CASE /\ use[u] \in Blocks
             /\ call[u].route \in Caches /\ Present(call[u])
             /\ use[u] = Entry(call[u]) /\ SameQuant(call[u])
    <3> DEFINE r == call[u].route
               k == Key(call[u])
    <3>1. k \in Keys /\ cache[r][k] # NoBlock
      BY <1>0, <2>0, <2>1, WantedIsPack DEF Present
    <3>2. /\ cache'[r][k] = cache[r][k]
          /\ heap'[cache[r][k]] = heap[cache[r][k]]
      BY <1>0, <1>1, <2>1, <3>1, EntryStays
    <3> QED
      BY <1>1, <2>1, <3>1, <3>2 DEF GemmReads, Present, Entry, SameQuant, Key
  <2>2. CASE \/ /\ use[u] = Kept /\ buf[u] # NoRecord
                /\ buf[u].w = call[u].w /\ buf[u].lay = call[u].lay
                /\ buf[u].ver = ver[call[u].w]
             \/ use[u] = Unpacked /\ call[u].lay = "plain"
             \/ use[u] = Fresh
    BY <1>1, <2>2 DEF GemmReads
  <2> QED
    BY <2>0, <2>1, <2>2 DEF GemmReads
<1>2. ASSUME NEW t \in Threads, Elsewhere(t), gen' = gen,
             pc'[t] = "gemm" => GemmReads(t)'
      PROVE  GemmReads(u)'
  BY <1>1, <1>2 DEF Elsewhere
<1>3. ASSUME NEW t \in Threads,
             LookupHit(t) \/ PackUnderLock(t) \/ Publish(t)
      PROVE  GemmReads(u)'
  BY <1>0, <1>2, <1>3, EntryReads, EntryTaken
<1>4. ASSUME NEW t \in Threads,
             \/ SkipsCaches(t) \/ PackForThisCall(t) \/ NoMemoryForThisCall(t)
             \/ ReuseColumns(t) \/ PackColumns(t) \/ NoMemoryForColumns(t)
      PROVE  GemmReads(u)'
  <2>1. gen' = gen
    BY <1>4 DEF SkipsCaches, PackForThisCall, NoMemoryForThisCall,
                ReuseColumns, PackColumns, NoMemoryForColumns
  <2> QED
    BY <1>0, <1>2, <1>4, <2>1, OwnReads
<1>5. ASSUME NEW t \in Threads, TlHit(t) PROVE GemmReads(u)'
  BY <1>0, <1>2, <1>5, HitReads DEF TlHit
<1>6. ASSUME NEW t \in Threads, AllocationFails(t) PROVE GemmReads(u)'
  BY <1>0, <1>2, <1>6, NullReads DEF AllocationFails, Asks
<1>7. ASSUME NEW t \in Threads, Begin(t) PROVE GemmReads(u)'
  <2>1. Elsewhere(t) /\ pc'[t] = "resolve" /\ gen' = gen
    BY <1>0, <1>7 DEF Begin, Go, Elsewhere, TypeOK
  <2> QED
    BY <1>2, <2>1
<1>8. ASSUME NEW t \in Threads, PackUnlocked(t) PROVE GemmReads(u)'
  <2>1. Elsewhere(t) /\ pc'[t] = "publish" /\ gen' = gen
    BY <1>0, <1>8 DEF PackUnlocked, Go, Elsewhere, TypeOK
  <2> QED
    BY <1>2, <2>1
<1>9. ASSUME NEW t \in Threads, GemmEnds(t) PROVE GemmReads(u)'
  <2>1. Elsewhere(t) /\ pc'[t] = "idle" /\ gen' = gen
    BY <1>0, <1>9 DEF GemmEnds, Returns, Go, Elsewhere, TypeOK
  <2> QED
    BY <1>2, <2>1
<1>10. ~ClearAll
  BY <1>0 DEF ClearAll
<1>11. ASSUME NEW w \in Mutable, WriteWeight(w) PROVE GemmReads(u)'
  <2>1. UNCHANGED <<pc, call, use, buf, gen>> /\ call[u].w # w
    BY <1>11 DEF WriteWeight
  <2>2. ver'[call[u].w] = ver[call[u].w]
    BY <1>0, <1>11, <2>1 DEF WriteWeight, TypeOK
  <2> QED
    BY <1>1, <2>1, <2>2
<1>12. CASE UNCHANGED vars
  BY <1>1, <1>12 DEF vars
<1>13. \/ \E t \in Threads : LookupHit(t) \/ PackUnderLock(t) \/ Publish(t)
       \/ \E t \in Threads :
             \/ SkipsCaches(t) \/ PackForThisCall(t) \/ NoMemoryForThisCall(t)
             \/ ReuseColumns(t) \/ PackColumns(t) \/ NoMemoryForColumns(t)
       \/ \E t \in Threads : TlHit(t)
       \/ \E t \in Threads : AllocationFails(t)
       \/ \E t \in Threads : Begin(t)
       \/ \E t \in Threads : PackUnlocked(t)
       \/ \E t \in Threads : GemmEnds(t)
       \/ \E w \in Mutable : WriteWeight(w)
       \/ UNCHANGED vars
  BY <1>10 DEF Next
<1> QED
  BY <1>3, <1>4, <1>5, <1>6, <1>7, <1>8, <1>9, <1>11, <1>12, <1>13

(* The strengthened invariant, for models that use the caches as the
   hypothesis says. *)
LEMMA IInvHolds == ASSUME ModelsAreSound PROVE Spec => []IInv
<1>1. IInv /\ [Next]_vars => IInv'
  BY TypeStep, BlockStep, CacheStep, CallerStep, RecordStep, GemmStep DEF IInv
<1> QED
  BY <1>1, IInvInit, PTL DEF Spec

(* A thread-local record of the present generation points at a cached entry
   that packs the weight's present bytes: the fast paths may skip the mutex. *)
THEOREM RecordsStayCurrent ==
  ASSUME ModelsAreSound PROVE Spec => []TlRecordsAreCurrent
<1>1. IInv => TlRecordsAreCurrent
  BY DEF IInv, RecordInv
<1> QED
  BY <1>1, IInvHolds, PTL

(* Every GEMM multiplies with the pack of its own weight, in its own layout
   and for its own source quantisation, whatever is cached, refused, raced
   for, cleared or out of memory beside it. *)
THEOREM GemmsReadOwn ==
  ASSUME ModelsAreSound PROVE Spec => []ReadsOwnWeight
<1>1. IInv => ReadsOwnWeight
  <2> SUFFICES ASSUME IInv, NEW t \in Threads, pc[t] = "gemm"
               PROVE  LET c == call[t] IN
                      CASE use[t] \in Blocks -> heap[use[t]] = Wanted(c)
                        [] use[t] = Kept -> /\ buf[t].w = c.w /\ buf[t].lay = c.lay
                                            /\ buf[t].ver = ver[c.w]
                        [] use[t] = Unpacked -> c.lay = "plain"
                        [] OTHER -> TRUE
    BY DEF ReadsOwnWeight
  <2>1. GemmReads(t) /\ TypeOK /\ call[t] \in Calls
    BY DEF IInv, GemmsRead, TypeInv, CallInv
  <2>2. ASSUME use[t] \in Blocks PROVE heap[use[t]] = Wanted(call[t])
    <3>1. /\ call[t].route \in Caches /\ Present(call[t])
          /\ use[t] = Entry(call[t]) /\ SameQuant(call[t])
      BY <2>1, <2>2, NoneIsNone DEF GemmReads
    <3>2. Key(call[t]) \in Keys
      BY <2>1, <3>1, WantedIsPack
    <3>3. /\ heap[use[t]] \in Packs
          /\ heap[use[t]].cache = call[t].route /\ heap[use[t]].w = call[t].w
          /\ heap[use[t]].lay = call[t].lay /\ heap[use[t]].ver = ver[call[t].w]
          /\ heap[use[t]].q = call[t].q
      BY <2>1, <2>2, <3>1, <3>2
         DEF IInv, CacheInv, EntriesCurrent, BlockInv, HeldIsAllocated, TypeOK,
             Present, Entry, SameQuant, Key
    <3> QED
      BY <3>3 DEF Packs, Wanted
  <2>3. ASSUME use[t] = Kept
        PROVE  buf[t].w = call[t].w /\ buf[t].lay = call[t].lay /\ buf[t].ver = ver[call[t].w]
    BY <2>1, <2>3, NoneIsNone DEF GemmReads, Kept, Unpacked, Fresh
  <2>4. ASSUME use[t] = Unpacked PROVE call[t].lay = "plain"
    BY <2>1, <2>4, NoneIsNone DEF GemmReads, Kept, Unpacked, Fresh
  <2> QED
    BY <2>2, <2>3, <2>4, NoneIsNone DEF Kept, Unpacked
<1> QED
  BY <1>1, IInvHolds, PTL
=============================================================================
