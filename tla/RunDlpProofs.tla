---------------------------- MODULE RunDlpProofs ----------------------------
(***************************************************************************)
(* Proofs about RunDlp: what the caches and the heap blocks of run_dlp     *)
(* hold, for any number of callers, weights and blocks.  What the code     *)
(* asks of its configuration is a hypothesis of the theorems that need it. *)
(***************************************************************************)
EXTENDS RunDlp, SequenceTheorems, FiniteSetTheorems, TLAPS

----------------------------------------------------------------------------
(* The cache operations.  Without a bound nothing is evicted, so an
   insertion only adds an entry and a hit changes the order alone. *)

\* A hit keeps the type of a cache and every value in it.
LEMMA TouchKeeps ==
    ASSUME NEW V, NEW c \in LruStates(V), NEW k \in Weights
    PROVE  /\ LruTouch(c, k) \in LruStates(V)
           /\ LruTouch(c, k).val = c.val
<1> DEFINE s == c.order
           n == Len(s) - 1
           o == LruOthers(s, k)
<1>1. /\ c = [val |-> c.val, order |-> c.order]
      /\ c.val \in [Weights -> V \cup {Absent}] /\ s \in Seq(Weights)
  BY DEF LruStates
<1>2. Len(s) \in Nat /\ \A i \in 1..Len(s) : s[i] \in Weights
  BY <1>1, ElementOfSeq, LenProperties
<1>3. o \in Seq(Weights)
  <2>1. CASE n \in Nat
    <3>1. o \in [1..n -> Weights]
      BY <1>2 DEF LruOthers
    <3> HIDE DEF o, n
    <3> QED BY <2>1, <3>1, SeqDef
  <2>2. CASE n \notin Nat
    <3>1. 1..n = 1..0
      BY <1>2, <2>2
    <3>2. o \in [1..0 -> Weights]
      BY <1>2, <3>1 DEF LruOthers
    <3> HIDE DEF o
    <3> QED BY <3>2, SeqDef
  <2> QED BY <2>1, <2>2
<1>4. Append(o, k) \in Seq(Weights)
  BY <1>3
<1>5. LruTouch(c, k) = [val |-> c.val, order |-> Append(o, k)]
  <2> HIDE DEF o
  <2>1. \A v, q, r : [[val |-> v, order |-> q] EXCEPT !.order = r] = [val |-> v, order |-> r]
    OBVIOUS
  <2>2. LruTouch(c, k) = [c EXCEPT !.order = Append(o, k)]
    BY DEF LruTouch, o
  <2> QED BY <1>1, <2>1, <2>2
<1> QED BY <1>1, <1>4, <1>5 DEF LruStates

\* Evicting leaves a cache of the same type.
LEMMA EvictedTypes ==
    ASSUME NEW V, NEW c \in LruStates(V)
    PROVE  LruEvicted(c, Capacity, 1) \in LruStates(V)
<1> DEFINE s == c.order
           n == LruExcess(c, Capacity, 1)
<1>1. c.val \in [Weights -> V \cup {Absent}] /\ s \in Seq(Weights)
  BY DEF LruStates
<1>2. Len(s) \in Nat /\ \A i \in 1..Len(s) : s[i] \in Weights
  BY <1>1, ElementOfSeq, LenProperties
<1>3. n \in Nat
  <2> DEFINE bound == (Capacity - 1) % SizeSpan
  <2>1. bound \in Int
    BY DlpAssumption DEF DlpAssumption
  <2> HIDE DEF bound
  <2>2. n = IF Capacity < Unlimited /\ Len(s) > bound THEN Len(s) - bound ELSE 0
    BY DEF LruExcess, bound
  <2> HIDE DEF n
  <2>3. CASE Capacity < Unlimited /\ Len(s) > bound
    BY <1>2, <2>1, <2>2, <2>3
  <2> QED BY <2>2, <2>3
<1> HIDE DEF n
<1>4. SubSeq(s, n + 1, Len(s)) \in Seq(Weights)
  <2>1. n + 1 \in Int /\ Len(s) \in Int /\ \A i \in (n + 1)..Len(s) : s[i] \in Weights
    BY <1>2, <1>3
  <2> QED BY <2>1, SubSeqProperties
<1> DEFINE left == [k \in Weights |->
                        IF k \in LruVictims(c, Capacity, 1) THEN Absent ELSE c.val[k]]
           order == SubSeq(s, n + 1, Len(s))
<1>5. LruEvicted(c, Capacity, 1) = [val |-> left, order |-> order]
  BY DEF LruEvicted, n
<1>6. left \in [Weights -> V \cup {Absent}]
  BY <1>1
<1> HIDE DEF left, order
<1>7. order \in Seq(Weights)
  BY <1>4 DEF order
<1> QED BY <1>5, <1>6, <1>7 DEF LruStates

\* So does an insertion.
LEMMA AddTypes ==
    ASSUME NEW V, NEW c \in LruStates(V), NEW k \in Weights, NEW v \in V
    PROVE  LruAdd(c, Capacity, k, v) \in LruStates(V)
<1> DEFINE kept == LruEvicted(c, Capacity, 1)
<1>1. kept \in LruStates(V)
  BY EvictedTypes
<1> HIDE DEF kept
<1>2. kept.val \in [Weights -> V \cup {Absent}] /\ kept.order \in Seq(Weights)
  BY <1>1 DEF LruStates
<1>3. Append(kept.order, k) \in Seq(Weights)
  BY <1>2
<1>4. [kept.val EXCEPT ![k] = v] \in [Weights -> V \cup {Absent}]
  BY <1>2
<1>5. LruAdd(c, Capacity, k, v) =
        IF LruHas(kept, k) THEN kept
        ELSE [val |-> [kept.val EXCEPT ![k] = v], order |-> Append(kept.order, k)]
  BY DEF LruAdd, kept
<1> QED BY <1>1, <1>3, <1>4, <1>5 DEF LruStates

\* An unbounded cache frees nothing on insertion and keeps what it has.
LEMMA AddKeeps ==
    ASSUME NothingIsEvicted, NEW V, NEW c \in LruStates(V), NEW k \in Weights, NEW v
    PROVE  /\ LruFreedByAdd(c, Capacity) = {}
           /\ LruAdd(c, Capacity, k, v).val =
                IF c.val[k] # Absent THEN c.val ELSE [c.val EXCEPT ![k] = v]
<1> DEFINE kept == LruEvicted(c, Capacity, 1)
<1>1. c.val \in [Weights -> V \cup {Absent}]
  BY DEF LruStates
<1>2. LruExcess(c, Capacity, 1) = 0
  BY DlpAssumption DEF LruExcess, NothingIsEvicted, DlpAssumption
<1>3. LruVictims(c, Capacity, 1) = {}
  BY <1>2 DEF LruVictims
<1>4. kept.val = [j \in Weights |-> c.val[j]]
  BY <1>3 DEF LruEvicted
<1>5. kept.val = c.val
  BY <1>1, <1>4
<1> HIDE DEF kept
<1>6. LruAdd(c, Capacity, k, v) =
        IF LruHas(kept, k) THEN kept
        ELSE [val |-> [kept.val EXCEPT ![k] = v], order |-> Append(kept.order, k)]
  BY DEF LruAdd, kept
<1>7. LruAdd(c, Capacity, k, v).val =
        IF c.val[k] # Absent THEN c.val ELSE [c.val EXCEPT ![k] = v]
  BY <1>5, <1>6 DEF LruHas
<1> QED BY <1>3, <1>7 DEF LruFreedByAdd
----------------------------------------------------------------------------
(* Types.  A caller that is about to insert has its sums in hand. *)

SumsInHand == \A t \in Threads : pc[t] = "insert" => comp[t] \in Buffers

TypeInv == TypeOK /\ SumsInHand

\* A zero-point pair is a pair of numbers.
LEMMA ZeroPointsArePairs ==
    /\ <<0, 0>> \in ZeroPoints
    /\ \A s \in Settings : s.zps \subseteq ZeroPoints
    /\ ZeroPoints \subseteq Nat \X Nat
<1>1. \A s \in Settings : s.zps \subseteq Nat \X Nat
  BY DlpAssumption DEF DlpAssumption
<1>2. <<0, 0>> \in Nat \X Nat
  OBVIOUS
<1>3. \A z : z \in ZeroPoints <=> z = <<0, 0>> \/ \E s \in Settings : z \in s.zps
  BY DEF ZeroPoints
<1>4. \A z \in ZeroPoints : z \in Nat \X Nat
  BY <1>1, <1>2, <1>3
<1>5. \A s \in Settings : s.zps \subseteq ZeroPoints
  BY <1>3
<1> QED BY <1>3, <1>4, <1>5

\* What a heap block may be given.
LEMMA BlockContents ==
    /\ Free \in Contents
    /\ \A w \in Weights, z \in ZeroPoints, c \in BOOLEAN :
          Pack(w, c) \in Contents /\ Comp(w, z, c) \in Contents
BY ZeroPointsArePairs DEF Free, Contents, Pack, Comp

\* Freeing blocks keeps the type of the heap.
LEMMA FreedTypes ==
    ASSUME heap \in [Buffers -> Contents], NEW bs
    PROVE  Freed(bs) \in [Buffers -> Contents]
BY BlockContents DEF Freed

\* Initially the types are right.
LEMMA TypesInit == Init => TypeInv
<1> SUFFICES ASSUME Init PROVE TypeInv
  OBVIOUS
<1>1. LruEmpty \in LruStates(Buffers \cup {Null}) /\ LruEmpty \in LruStates(Buffers)
  <2>1. <<>> \in Seq(Weights)
    OBVIOUS
  <2> QED BY <2>1 DEF LruEmpty, LruStates
<1>2. user \in [Weights -> {"raw", "blocking", "blocked", "garbling", "garbled"}]
  BY DEF Init, Original
<1>3. heap \in [Buffers -> Contents]
  BY BlockContents DEF Init
<1>4. call \in [Threads -> Calls]
  BY ZeroPointsArePairs DEF Init, Calls
<1> QED BY <1>1, <1>2, <1>3, <1>4 DEF Init, TypeInv, TypeOK, SumsInHand

\* The steps of the compensation keep the types.
LEMMA CompTypes ==
    ASSUME TypeInv, NEW t \in Threads,
           \/ \E w \in Weights, z \in ZeroPoints : Arrives(t, w, z)
           \/ ZpHits(t) \/ ZpMisses(t) \/ ZpFails(t) \/ ZpPeerWon(t) \/ ZpInserts(t)
           \/ \E b \in Buffers : ZpSums(t, b)
    PROVE  TypeInv'
<1> USE DEF TypeInv
<1>1. call[t] \in Calls /\ W(t) \in Weights /\ call[t].zp \in ZeroPoints
  BY DEF TypeOK, Calls, W
<1>2. CASE \E w \in Weights, z \in ZeroPoints : Arrives(t, w, z)
  <2>1. PICK w \in Weights, z \in ZeroPoints : Arrives(t, w, z)
    BY <1>2
  <2>2. [w |-> w, zp |-> z] \in Calls
    BY DEF Calls
  <2> QED BY <2>1, <2>2 DEF Arrives, TypeOK, SumsInHand, shared, Goto
<1>3. CASE ZpHits(t)
  <2>1. comps.val[W(t)] \in Buffers
    BY <1>1, <1>3 DEF ZpHits, LruHas, TypeOK, LruStates
  <2>2. comps' \in LruStates(Buffers)
    BY <1>1, <1>3, TouchKeeps DEF ZpHits, TypeOK
  <2> QED BY <1>3, <2>1, <2>2 DEF ZpHits, TypeOK, SumsInHand, Goto
<1>4. CASE ZpMisses(t) \/ ZpFails(t)
  BY <1>4 DEF ZpMisses, ZpFails, TypeOK, SumsInHand, shared, Goto
<1>5. CASE ZpPeerWon(t)
  <2>1. comps.val[W(t)] \in Buffers
    BY <1>1, <1>5 DEF ZpPeerWon, LruHas, TypeOK, LruStates
  <2>2. comps' \in LruStates(Buffers)
    BY <1>1, <1>5, TouchKeeps DEF ZpPeerWon, TypeOK
  <2>3. heap' \in [Buffers -> Contents]
    BY <1>5, FreedTypes DEF ZpPeerWon, TypeOK
  <2> QED BY <1>5, <2>1, <2>2, <2>3 DEF ZpPeerWon, TypeOK, SumsInHand, Goto
<1>6. CASE ZpInserts(t)
  <2>1. comp[t] \in Buffers
    BY <1>6 DEF ZpInserts, SumsInHand
  <2>2. comps' \in LruStates(Buffers)
    BY <1>1, <1>6, <2>1, AddTypes DEF ZpInserts, TypeOK
  <2>3. heap' \in [Buffers -> Contents]
    BY <1>6, FreedTypes DEF ZpInserts, TypeOK
  <2> QED BY <1>6, <2>2, <2>3 DEF ZpInserts, TypeOK, SumsInHand, Goto
<1>7. CASE \E b \in Buffers : ZpSums(t, b)
  <2>1. PICK b \in Buffers : ZpSums(t, b)
    BY <1>7
  <2>2. (SrcZp(t) = 0 \/ user[W(t)] = "raw") \in BOOLEAN
    OBVIOUS
  <2>3. heap' \in [Buffers -> Contents]
    BY <1>1, <2>1, <2>2, BlockContents DEF ZpSums, TypeOK
  <2> QED BY <2>1, <2>3 DEF ZpSums, TypeOK, SumsInHand, Goto
<1> QED BY <1>2, <1>3, <1>4, <1>5, <1>6, <1>7

\* So do the steps of the reorder, the end of the GEMM and a clear.
LEMMA ReorderTypes ==
    ASSUME TypeInv, NEW t \in Threads,
           \/ WeightsAsGiven(t) \/ AlreadyBlocked(t) \/ CacheHits(t)
           \/ NothingAllocated(t) \/ InPlaceBegins(t) \/ InPlaceEnds(t)
           \/ \E b \in Buffers : ReorderUncached(t, b) \/ CachePacks(t, b)
           \/ GemmEnds(t)
    PROVE  TypeInv'
<1> USE DEF TypeInv
<1>1. call[t] \in Calls /\ W(t) \in Weights
  BY DEF TypeOK, Calls, W
<1>2. Null \in Buffers \cup {Null}
  OBVIOUS
<1>3. CASE WeightsAsGiven(t)
  <2>1. (W(t) \in Prepacked) \in BOOLEAN
    OBVIOUS
  <2> QED BY <1>3, <2>1 DEF WeightsAsGiven, Takes, TypeOK, SumsInHand, shared, Goto
<1>4. CASE AlreadyBlocked(t)
  <2>1. packs' \in LruStates(Buffers \cup {Null})
    BY <1>1, <1>2, <1>4, AddTypes DEF AlreadyBlocked, TypeOK
  <2>2. heap' \in [Buffers -> Contents]
    BY <1>4, FreedTypes DEF AlreadyBlocked, TypeOK
  <2> QED BY <1>4, <2>1, <2>2 DEF AlreadyBlocked, Takes, TypeOK, SumsInHand, Goto
<1>5. CASE CacheHits(t)
  <2>1. packs' \in LruStates(Buffers \cup {Null})
    BY <1>1, <1>5, TouchKeeps DEF CacheHits, TypeOK
  <2>2. packs.val[W(t)] \in Buffers \cup {Null}
    BY <1>1, <1>5 DEF CacheHits, LruHas, TypeOK, LruStates
  <2> QED BY <1>5, <2>1, <2>2 DEF CacheHits, Takes, TypeOK, SumsInHand, Goto
<1>6. CASE NothingAllocated(t)
  BY <1>6 DEF NothingAllocated, Takes, TypeOK, SumsInHand, shared, Goto
<1>7. CASE InPlaceBegins(t)
  BY <1>1, <1>7 DEF InPlaceBegins, TypeOK, SumsInHand, Goto
<1>8. CASE InPlaceEnds(t)
  <2>1. packs' \in LruStates(Buffers \cup {Null})
    BY <1>1, <1>2, <1>8, AddTypes DEF InPlaceEnds, TypeOK
  <2>2. heap' \in [Buffers -> Contents]
    BY <1>8, FreedTypes DEF InPlaceEnds, TypeOK
  <2> QED BY <1>1, <1>8, <2>1, <2>2 DEF InPlaceEnds, Takes, TypeOK, SumsInHand, Goto
<1>9. CASE \E b \in Buffers : ReorderUncached(t, b)
  <2>1. PICK b \in Buffers : ReorderUncached(t, b)
    BY <1>9
  <2>2. (user[W(t)] = "raw") \in BOOLEAN
    OBVIOUS
  <2>3. heap' \in [Buffers -> Contents]
    BY <1>1, <2>1, <2>2, BlockContents, ZeroPointsArePairs DEF ReorderUncached, TypeOK
  <2> QED BY <2>1, <2>3 DEF ReorderUncached, Takes, TypeOK, SumsInHand, Goto
<1>10. CASE \E b \in Buffers : CachePacks(t, b)
  <2>1. PICK b \in Buffers : CachePacks(t, b)
    BY <1>10
  <2>2. (user[W(t)] = "raw") \in BOOLEAN
    OBVIOUS
  <2>3. Pack(W(t), user[W(t)] = "raw") \in Contents
    BY <1>1, <2>2, BlockContents, ZeroPointsArePairs
  <2>4. heap' \in [Buffers -> Contents]
    BY <2>1, <2>3, FreedTypes DEF CachePacks, TypeOK
  <2>5. packs' \in LruStates(Buffers \cup {Null})
    BY <1>1, <2>1, AddTypes DEF CachePacks, TypeOK
  <2> QED BY <2>1, <2>4, <2>5 DEF CachePacks, Takes, TypeOK, SumsInHand, Goto
<1>11. CASE GemmEnds(t)
  <2>1. heap' \in [Buffers -> Contents]
    BY <1>11, FreedTypes DEF GemmEnds, TypeOK
  <2> QED BY <1>11, <2>1 DEF GemmEnds, TypeOK, SumsInHand, Goto
<1> QED BY <1>3, <1>4, <1>5, <1>6, <1>7, <1>8, <1>9, <1>10, <1>11

LEMMA ClearTypes ==
    ASSUME TypeInv, ClearCaches
    PROVE  TypeInv'
<1>1. packs' \in LruStates(Buffers \cup {Null}) /\ comps' \in LruStates(Buffers)
  <2>1. <<>> \in Seq(Weights)
    OBVIOUS
  <2> QED BY <2>1 DEF ClearCaches, LruEmpty, LruStates
<1>2. heap' \in [Buffers -> Contents]
  BY FreedTypes DEF ClearCaches, TypeInv, TypeOK
<1>3. user' \in [Weights -> {"raw", "blocking", "blocked", "garbling", "garbled"}]
  BY DEF ClearCaches, Original
<1> QED BY <1>1, <1>2, <1>3 DEF ClearCaches, TypeInv, TypeOK, SumsInHand

\* Every step is one of the three kinds, or none.
LEMMA StepKinds ==
    ASSUME [Next]_vars
    PROVE  \/ \E t \in Threads :
                \/ \E w \in Weights, z \in ZeroPoints : Arrives(t, w, z)
                \/ ZpHits(t) \/ ZpMisses(t) \/ ZpFails(t) \/ ZpPeerWon(t) \/ ZpInserts(t)
                \/ \E b \in Buffers : ZpSums(t, b)
           \/ \E t \in Threads :
                \/ WeightsAsGiven(t) \/ AlreadyBlocked(t) \/ CacheHits(t)
                \/ NothingAllocated(t) \/ InPlaceBegins(t) \/ InPlaceEnds(t)
                \/ \E b \in Buffers : ReorderUncached(t, b) \/ CachePacks(t, b)
                \/ GemmEnds(t)
           \/ ClearCaches
           \/ UNCHANGED vars
BY DEF Next

LEMMA TypeStep ==
    ASSUME TypeInv, [Next]_vars
    PROVE  TypeInv'
<1>1. ASSUME UNCHANGED vars PROVE TypeInv'
  BY <1>1 DEF vars, TypeInv, TypeOK, SumsInHand
<1> QED BY <1>1, StepKinds, CompTypes, ReorderTypes, ClearTypes

(* The configuration, the weights, the heap, both caches and every call keep
   their types, whatever is evicted (aocl_kernel.cpp:235-281). *)
THEOREM TypeCorrect == Spec => []TypeOK
<1>1. TypeInv /\ [Next]_vars => TypeInv'
  BY TypeStep
<1>2. Spec => []TypeInv
  BY <1>1, TypesInit, PTL DEF Spec
<1>3. TypeInv => TypeOK
  BY DEF TypeInv
<1> QED BY <1>2, <1>3, PTL
----------------------------------------------------------------------------
(* The weights themselves.  A caller inside the in-place reorder has found
   no entry under the mutex, and while nobody is, a weight is blocked where
   a null entry says so, or where it came so, and plain elsewhere.  Null
   entries are made for the weights that may be blocked in place. *)

MayBeBlocked(w) ==
    setting.cacheType = 2 /\ w \in (setting.const \cap Fits) \ Prepacked

AloneInPlace ==
    \A t \in Threads : pc[t] = "inPlace" =>
        /\ holder = t /\ MayBeBlocked(W(t))
        /\ packs.val[W(t)] = Absent /\ user[W(t)] = "blocking"

InPlaceOn(w) == \E t \in Threads : pc[t] = "inPlace" /\ W(t) = w

WeightsAsRecorded ==
    \A w \in Weights :
        /\ packs.val[w] = Null => w \in Prepacked \/ MayBeBlocked(w)
        /\ ~InPlaceOn(w) => user[w] = IF packs.val[w] = Null \/ w \in Prepacked
                                      THEN "blocked" ELSE "raw"

WeightInv == AloneInPlace /\ WeightsAsRecorded

\* The value of a null entry is no caller, no block and not the absent value.
LEMMA NullIsNobody ==
    Null \notin Threads /\ Null \notin Buffers /\ Null # Absent /\ Absent \notin Buffers
BY DlpAssumption DEF DlpAssumption

\* Initially nobody is inside and no entry is null.
LEMMA WeightInit == Init => WeightInv
<1> SUFFICES ASSUME Init PROVE WeightInv
  OBVIOUS
<1>1. \A w \in Weights : packs.val[w] = Absent
  BY DEF Init, LruEmpty
<1>2. Absent # Null
  BY DlpAssumption DEF DlpAssumption
<1>3. \A t \in Threads : pc[t] = "out"
  BY DEF Init
<1> QED BY <1>1, <1>2, <1>3 DEF Init, Original, WeightInv, AloneInPlace, WeightsAsRecorded, InPlaceOn

\* A step that leaves the weights, the mutex and the values of the weight
\* cache alone, and whose thread is not in the in-place reorder.
LEMMA WeightsUntouched ==
    ASSUME TypeInv, WeightInv, NEW t \in Threads, pc[t] # "inPlace",
           pc' = [pc EXCEPT ![t] = pc'[t]], pc'[t] # "inPlace",
           \A u \in Threads \ {t} : call'[u] = call[u],
           UNCHANGED <<setting, user, holder, packs.val>>
    PROVE  WeightInv'
<1>1. \A u \in Threads : pc'[u] = "inPlace" <=> pc[u] = "inPlace"
  BY DEF TypeInv, TypeOK
<1>2. \A u \in Threads : pc[u] = "inPlace" => W(u)' = W(u)
  BY DEF W
<1>3. \A w : MayBeBlocked(w)' <=> MayBeBlocked(w)
  BY DEF MayBeBlocked
<1>4. AloneInPlace'
  BY <1>1, <1>2, <1>3 DEF WeightInv, AloneInPlace
<1>5. \A w : InPlaceOn(w)' <=> InPlaceOn(w)
  BY <1>1, <1>2 DEF InPlaceOn
<1>6. WeightsAsRecorded'
  BY <1>3, <1>5 DEF WeightInv, WeightsAsRecorded
<1> QED BY <1>4, <1>6 DEF WeightInv

LEMMA WeightStep ==
    ASSUME NothingIsEvicted, TypeInv, WeightInv, [Next]_vars
    PROVE  WeightInv'
<1>a. packs \in LruStates(Buffers \cup {Null})
  BY DEF TypeInv, TypeOK
<1>b. Null # Absent /\ Null \notin Buffers /\ Absent \notin Buffers
  BY NullIsNobody
<1>1. ASSUME NEW t \in Threads,
             \/ \E w \in Weights, z \in ZeroPoints : Arrives(t, w, z)
             \/ ZpHits(t) \/ ZpMisses(t) \/ ZpFails(t) \/ ZpPeerWon(t) \/ ZpInserts(t)
             \/ \E b \in Buffers : ZpSums(t, b)
      PROVE  WeightInv'
  <2>1. /\ UNCHANGED <<setting, user, holder, packs>>
        /\ pc[t] # "inPlace"
        /\ \A u \in Threads \ {t} : call'[u] = call[u]
        /\ \E p \in {"zp", "sum", "insert", "reorder"} : pc' = [pc EXCEPT ![t] = p]
    BY <1>1 DEF Arrives, ZpHits, ZpMisses, ZpFails, ZpPeerWon, ZpInserts, ZpSums, shared, Goto, TypeInv, TypeOK
  <2>2. pc' = [pc EXCEPT ![t] = pc'[t]] /\ pc'[t] # "inPlace"
    BY <2>1 DEF TypeInv, TypeOK
  <2> QED BY <2>1, <2>2, WeightsUntouched
<1>2. ASSUME NEW t \in Threads,
             \/ WeightsAsGiven(t) \/ CacheHits(t) \/ NothingAllocated(t)
             \/ \E b \in Buffers : ReorderUncached(t, b)
             \/ GemmEnds(t)
      PROVE  WeightInv'
  <2>1. W(t) \in Weights
    BY DEF W, TypeInv, TypeOK, Calls
  <2>2. /\ UNCHANGED <<setting, user, holder, packs.val, call>>
        /\ pc[t] # "inPlace"
        /\ \E p \in {"gemm", "out"} : pc' = [pc EXCEPT ![t] = p]
    BY <1>a, <1>2, <2>1, TouchKeeps
       DEF WeightsAsGiven, CacheHits, NothingAllocated, ReorderUncached, GemmEnds,
           ToReorder, Enters, Takes, shared, Goto
  <2>3. pc' = [pc EXCEPT ![t] = pc'[t]] /\ pc'[t] # "inPlace"
    BY <2>2 DEF TypeInv, TypeOK
  <2> QED BY <2>2, <2>3, WeightsUntouched
<1>3. ASSUME NEW t \in Threads, AlreadyBlocked(t)
      PROVE  WeightInv'
  <2>1. /\ W(t) \in Weights /\ W(t) \in Prepacked /\ pc[t] = "reorder"
        /\ UNCHANGED <<setting, user, holder, call>>
        /\ pc' = [pc EXCEPT ![t] = "gemm"]
    BY <1>3 DEF AlreadyBlocked, Takes, Goto, W, TypeInv, TypeOK, Calls
  <2>2. packs'.val = IF packs.val[W(t)] # Absent THEN packs.val
                     ELSE [packs.val EXCEPT ![W(t)] = Null]
    BY <1>a, <1>3, <2>1, AddKeeps DEF AlreadyBlocked
  <2>3. \A u \in Threads : pc'[u] = "inPlace" <=> pc[u] = "inPlace"
    BY <2>1 DEF TypeInv, TypeOK
  <2>4. \A w : (MayBeBlocked(w)' <=> MayBeBlocked(w)) /\ (InPlaceOn(w)' <=> InPlaceOn(w))
    BY <2>1, <2>3 DEF MayBeBlocked, InPlaceOn, W
  <2>5. packs.val \in [Weights -> Buffers \cup {Null, Absent}]
    BY <1>a DEF LruStates
  <2>6. \A w \in Weights : w # W(t) => packs'.val[w] = packs.val[w]
    BY <2>1, <2>2, <2>5
  <2>7. AloneInPlace'
    BY <2>1, <2>3, <2>4, <2>6 DEF WeightInv, AloneInPlace, MayBeBlocked, W, TypeInv, TypeOK, Calls
  <2>8. WeightsAsRecorded'
    BY <2>1, <2>4, <2>6 DEF WeightInv, WeightsAsRecorded
  <2> QED BY <2>7, <2>8 DEF WeightInv
<1>4. ASSUME NEW t \in Threads, NEW b \in Buffers, CachePacks(t, b)
      PROVE  WeightInv'
  <2>1. /\ W(t) \in Weights /\ pc[t] = "reorder" /\ holder = Null
        /\ packs.val[W(t)] = Absent
        /\ UNCHANGED <<setting, user, holder, call>>
        /\ pc' = [pc EXCEPT ![t] = "gemm"]
    BY <1>4 DEF CachePacks, Enters, ToReorder, LruHas, Takes, Goto, W, TypeInv, TypeOK, Calls
  <2>2. packs'.val = [packs.val EXCEPT ![W(t)] = b]
    BY <1>a, <1>4, <2>1, AddKeeps DEF CachePacks
  <2>3. \A u \in Threads : pc'[u] = "inPlace" <=> pc[u] = "inPlace"
    BY <2>1 DEF TypeInv, TypeOK
  <2>4. \A w : (MayBeBlocked(w)' <=> MayBeBlocked(w)) /\ (InPlaceOn(w)' <=> InPlaceOn(w))
    BY <2>1, <2>3 DEF MayBeBlocked, InPlaceOn, W
  <2>5. packs.val \in [Weights -> Buffers \cup {Null, Absent}]
    BY <1>a DEF LruStates
  <2>6. \A u \in Threads : pc[u] = "inPlace" => W(u) # W(t)
    BY <2>1, NullIsNobody DEF WeightInv, AloneInPlace
  <2>7. AloneInPlace'
    BY <2>1, <2>2, <2>3, <2>4, <2>5, <2>6 DEF WeightInv, AloneInPlace, W, TypeInv, TypeOK, Calls
  <2>8. WeightsAsRecorded'
    BY <1>b, <2>1, <2>2, <2>4, <2>5 DEF WeightInv, WeightsAsRecorded
  <2> QED BY <2>7, <2>8 DEF WeightInv
<1>5. ASSUME NEW t \in Threads, InPlaceBegins(t)
      PROVE  WeightInv'
  <2>1. /\ W(t) \in Weights /\ pc[t] = "reorder" /\ holder = Null /\ holder' = t
        /\ packs.val[W(t)] = Absent /\ MayBeBlocked(W(t))
        /\ UNCHANGED <<setting, packs, call>>
        /\ pc' = [pc EXCEPT ![t] = "inPlace"]
    BY <1>5 DEF InPlaceBegins, Enters, ToReorder, LruHas, MayRunInPlace, MayBeBlocked,
                Goto, W, TypeInv, TypeOK, Calls
  <2>2. \A u \in Threads : pc[u] # "inPlace"
    BY <2>1, NullIsNobody DEF WeightInv, AloneInPlace
  <2>3. \A u \in Threads : pc'[u] = "inPlace" <=> u = t
    BY <2>1, <2>2 DEF TypeInv, TypeOK
  <2>4. user[W(t)] = "raw" /\ user' = [user EXCEPT ![W(t)] = "blocking"]
    <3>1. user[W(t)] = "raw"
      BY <1>b, <2>1, <2>2 DEF WeightInv, WeightsAsRecorded, InPlaceOn, MayBeBlocked
    <3> QED BY <1>5, <3>1 DEF InPlaceBegins
  <2>5. \A w : (MayBeBlocked(w)' <=> MayBeBlocked(w)) /\ (InPlaceOn(w)' <=> w = W(t))
    BY <2>1, <2>3 DEF MayBeBlocked, InPlaceOn, W
  <2>6. AloneInPlace'
    BY <2>1, <2>3, <2>4, <2>5 DEF AloneInPlace, W, TypeInv, TypeOK, Calls
  <2>7. \A w \in Weights : ~InPlaceOn(w)
    BY <2>2 DEF InPlaceOn
  <2>8. \A w \in Weights : w # W(t) => user'[w] = user[w]
    BY <2>4 DEF TypeInv, TypeOK
  <2>9. WeightsAsRecorded'
    BY <2>1, <2>5, <2>7, <2>8 DEF WeightInv, WeightsAsRecorded
  <2> QED BY <2>6, <2>9 DEF WeightInv
<1>6. ASSUME NEW t \in Threads, InPlaceEnds(t)
      PROVE  WeightInv'
  <2>1. /\ W(t) \in Weights /\ pc[t] = "inPlace"
        /\ UNCHANGED <<setting, call>>
        /\ pc' = [pc EXCEPT ![t] = "gemm"]
    BY <1>6 DEF InPlaceEnds, Takes, Goto, W, TypeInv, TypeOK, Calls
  <2>2. holder = t /\ MayBeBlocked(W(t)) /\ packs.val[W(t)] = Absent /\ user[W(t)] = "blocking"
    BY <2>1 DEF WeightInv, AloneInPlace
  <2>3. packs'.val = [packs.val EXCEPT ![W(t)] = Null]
    BY <1>a, <1>6, <2>1, <2>2, AddKeeps DEF InPlaceEnds
  <2>4. user' = [user EXCEPT ![W(t)] = "blocked"]
    BY <1>6, <2>2 DEF InPlaceEnds
  <2>5. \A u \in Threads : pc[u] = "inPlace" <=> u = t
    BY <2>1, <2>2 DEF WeightInv, AloneInPlace
  <2>6. \A u \in Threads : pc'[u] # "inPlace"
    BY <2>1, <2>5 DEF TypeInv, TypeOK
  <2>7. \A w : (MayBeBlocked(w)' <=> MayBeBlocked(w)) /\ (InPlaceOn(w) <=> w = W(t))
    BY <2>1, <2>5 DEF MayBeBlocked, InPlaceOn
  <2>8. packs.val \in [Weights -> Buffers \cup {Null, Absent}]
    BY <1>a DEF LruStates
  <2>9. \A w \in Weights : w # W(t) => user'[w] = user[w] /\ packs'.val[w] = packs.val[w]
    BY <2>3, <2>4, <2>8 DEF TypeInv, TypeOK
  <2>10. user'[W(t)] = "blocked" /\ packs'.val[W(t)] = Null
    BY <2>1, <2>3, <2>4, <2>8 DEF TypeInv, TypeOK
  <2>11. WeightsAsRecorded'
    BY <2>2, <2>7, <2>9, <2>10 DEF WeightInv, WeightsAsRecorded
  <2> QED BY <2>6, <2>11 DEF WeightInv, AloneInPlace
<1>7. ASSUME ClearCaches
      PROVE  WeightInv'
  <2>1. \A t \in Threads : pc'[t] # "inPlace"
    BY <1>7 DEF ClearCaches
  <2>2. \A w \in Weights : packs'.val[w] = Absent
    BY <1>7 DEF ClearCaches, LruEmpty
  <2>3. \A w \in Weights : user'[w] = Original(w)
    BY <1>7 DEF ClearCaches
  <2> QED BY <1>b, <2>1, <2>2, <2>3 DEF WeightInv, AloneInPlace, WeightsAsRecorded, Original
<1>8. ASSUME UNCHANGED vars
      PROVE  WeightInv'
  BY <1>8 DEF vars, WeightInv, AloneInPlace, WeightsAsRecorded, InPlaceOn, MayBeBlocked, W
<1> QED BY <1>1, <1>2, <1>3, <1>4, <1>5, <1>6, <1>7, <1>8, StepKinds

(* Without eviction the null entry and the bytes agree: a weight is blocked
   where the cache says so or where it came so, and nowhere else, so no reorder
   runs over its own result (aocl_kernel.cpp:578-583). *)
THEOREM NullEntriesTell ==
    ASSUME NothingIsEvicted
    PROVE  Spec => []NullEntryMeansBlocked
<1>1. TypeInv /\ WeightInv /\ [Next]_vars => WeightInv'
  BY WeightStep
<1>2. TypeInv /\ [Next]_vars => TypeInv'
  BY TypeStep
<1>3. Spec => [](TypeInv /\ WeightInv)
  BY <1>1, <1>2, TypesInit, WeightInit, PTL DEF Spec
<1>4. WeightInv => NullEntryMeansBlocked
  BY DEF WeightInv, WeightsAsRecorded, NullEntryMeansBlocked, InPlaceOn
<1> QED BY <1>3, <1>4, PTL
----------------------------------------------------------------------------
(* What a call has in hand, by its place: its zero points are the layer's;
   once the zero-point part is over it has sums exactly when it has zero points,
   unless they could not be allocated; and it has an operand only while its
   GEMM runs. *)

HandOf(t) ==
    /\ pc[t] = "out" => comp[t] = Null
    /\ pc[t] # "out" => /\ call[t].zp \in setting.zps
                        /\ W(t) \in Prepacked => call[t].zp = <<0, 0>>
    /\ pc[t] \in {"zp", "sum", "insert"} => call[t].zp # <<0, 0>>
    /\ pc[t] \in {"zp", "sum"} => comp[t] = Null
    /\ pc[t] = "insert" => CanCache(t)
    /\ pc[t] \in {"reorder", "inPlace", "gemm"} =>
          /\ call[t].zp = <<0, 0>> => comp[t] = Null
          /\ comp[t] = Null => call[t].zp = <<0, 0>> \/ "sums" \in setting.fail
    /\ pc[t] # "gemm" => operand[t] = Null

CallInv == \A t \in Threads : HandOf(t)

\* Other callers' hands are untouched by a step of one.
LEMMA OtherHands ==
    ASSUME CallInv, NEW t \in Threads, UNCHANGED setting,
           \A u \in Threads \ {t} :
              UNCHANGED <<pc[u], call[u], comp[u], operand[u]>>,
           HandOf(t)'
    PROVE  CallInv'
<1>1. ASSUME NEW u \in Threads \ {t} PROVE HandOf(u)'
  BY <1>1 DEF CallInv, HandOf, W, CanCache, SrcZp, WeiZp
<1> QED BY <1>1 DEF CallInv

\* A step of a caller touches no other caller's place, call or operands.
LEMMA OthersUntouched ==
    ASSUME TypeInv, NEW t \in Threads,
           \/ \E w \in Weights, z \in ZeroPoints : Arrives(t, w, z)
           \/ ZpHits(t) \/ ZpMisses(t) \/ ZpFails(t) \/ ZpPeerWon(t) \/ ZpInserts(t)
           \/ \E b \in Buffers : ZpSums(t, b)
           \/ WeightsAsGiven(t) \/ AlreadyBlocked(t) \/ CacheHits(t)
           \/ NothingAllocated(t) \/ InPlaceBegins(t) \/ InPlaceEnds(t)
           \/ \E b \in Buffers : ReorderUncached(t, b) \/ CachePacks(t, b)
           \/ GemmEnds(t)
    PROVE  /\ UNCHANGED setting
           /\ \A u \in Threads \ {t} :
                UNCHANGED <<pc[u], call[u], comp[u], operand[u], blocked[u]>>
<1>1. CASE \/ \E w \in Weights, z \in ZeroPoints : Arrives(t, w, z)
           \/ ZpHits(t) \/ ZpMisses(t) \/ ZpFails(t) \/ ZpPeerWon(t) \/ ZpInserts(t)
           \/ \E b \in Buffers : ZpSums(t, b)
  BY <1>1 DEF Arrives, ZpHits, ZpMisses, ZpFails, ZpPeerWon, ZpInserts, ZpSums, shared, Goto,
              TypeInv, TypeOK
<1>2. CASE \/ WeightsAsGiven(t) \/ AlreadyBlocked(t) \/ CacheHits(t)
           \/ NothingAllocated(t)
           \/ \E b \in Buffers : ReorderUncached(t, b) \/ CachePacks(t, b)
  BY <1>2 DEF WeightsAsGiven, AlreadyBlocked, CacheHits, NothingAllocated, ReorderUncached,
              CachePacks, Takes, shared, Goto, TypeInv, TypeOK
<1>3. CASE InPlaceBegins(t) \/ InPlaceEnds(t) \/ GemmEnds(t)
  BY <1>3 DEF InPlaceBegins, InPlaceEnds, GemmEnds, Takes, shared, Goto, TypeInv, TypeOK
<1> QED BY <1>1, <1>2, <1>3

LEMMA CallInit == Init => CallInv
BY DEF Init, CallInv, HandOf

LEMMA CallStep ==
    ASSUME TypeInv, CallInv, [Next]_vars
    PROVE  CallInv'
<1>1. ASSUME NEW t \in Threads,
             \/ \E w \in Weights, z \in ZeroPoints : Arrives(t, w, z)
             \/ ZpHits(t) \/ ZpMisses(t) \/ ZpFails(t) \/ ZpPeerWon(t) \/ ZpInserts(t)
             \/ \E b \in Buffers : ZpSums(t, b)
      PROVE  CallInv'
  <2>1. HandOf(t) /\ W(t) \in Weights
    BY DEF CallInv, W, TypeInv, TypeOK, Calls
  <2>2. CASE \E w \in Weights, z \in ZeroPoints : Arrives(t, w, z)
    <3>1. PICK w \in Weights, z \in ZeroPoints : Arrives(t, w, z)
      BY <2>2
    <3>2. /\ call'[t] = [w |-> w, zp |-> z] /\ z \in setting.zps
          /\ w \in Prepacked => z = <<0, 0>>
          /\ pc'[t] = IF z = <<0, 0>> THEN "reorder" ELSE "zp"
          /\ comp'[t] = comp[t] /\ operand'[t] = operand[t] /\ pc[t] = "out"
          /\ setting' = setting
      BY <3>1 DEF Arrives, Goto, TypeInv, TypeOK
    <3>3. HandOf(t)'
      BY <2>1, <3>2 DEF HandOf, W
    <3> QED BY <2>2, <3>3, OtherHands, OthersUntouched
  <2>3. CASE ZpHits(t) \/ ZpPeerWon(t)
    <3>1. comps.val[W(t)] \in Buffers
      BY <2>1, <2>3 DEF ZpHits, ZpPeerWon, LruHas, TypeInv, TypeOK, LruStates
    <3>2. /\ call' = call /\ setting' = setting /\ operand' = operand
          /\ comp'[t] \in Buffers /\ pc'[t] = "reorder" /\ pc[t] \in {"zp", "insert"}
      BY <2>3, <3>1 DEF ZpHits, ZpPeerWon, Goto, TypeInv, TypeOK
    <3>3. HandOf(t)'
      BY <2>1, <3>2, NullIsNobody DEF HandOf, W
    <3> QED BY <2>3, <3>3, OtherHands, OthersUntouched
  <2>4. CASE ZpMisses(t) \/ ZpFails(t) \/ ZpInserts(t)
    <3>1. /\ call' = call /\ setting' = setting /\ operand' = operand /\ comp' = comp
          /\ \/ pc[t] = "zp" /\ pc'[t] = "sum"
             \/ pc[t] = "sum" /\ pc'[t] = "reorder" /\ "sums" \in setting.fail
             \/ pc[t] = "insert" /\ pc'[t] = "reorder"
      BY <2>4 DEF ZpMisses, ZpFails, ZpInserts, shared, Goto, TypeInv, TypeOK
    <3>2. pc[t] = "insert" => comp[t] # Null
      BY NullIsNobody DEF TypeInv, SumsInHand
    <3>3. HandOf(t)'
      BY <2>1, <3>1, <3>2 DEF HandOf, W
    <3> QED BY <2>4, <3>3, OtherHands, OthersUntouched
  <2>5. CASE \E b \in Buffers : ZpSums(t, b)
    <3>1. /\ call' = call /\ setting' = setting /\ operand' = operand
          /\ comp'[t] \in Buffers /\ pc[t] = "sum"
          /\ pc'[t] = IF CanCache(t) THEN "insert" ELSE "reorder"
      BY <2>5 DEF ZpSums, Goto, TypeInv, TypeOK
    <3>2. HandOf(t)'
      BY <2>1, <3>1, NullIsNobody DEF HandOf, W, CanCache, SrcZp, WeiZp
    <3> QED BY <2>5, <3>2, OtherHands, OthersUntouched
  <2> QED BY <1>1, <2>2, <2>3, <2>4, <2>5
<1>2. ASSUME NEW t \in Threads,
             \/ WeightsAsGiven(t) \/ AlreadyBlocked(t) \/ CacheHits(t)
             \/ NothingAllocated(t) \/ InPlaceBegins(t) \/ InPlaceEnds(t)
             \/ \E b \in Buffers : ReorderUncached(t, b) \/ CachePacks(t, b)
             \/ GemmEnds(t)
      PROVE  CallInv'
  <2>1. HandOf(t)
    BY DEF CallInv
  <2>2. CASE \/ WeightsAsGiven(t) \/ AlreadyBlocked(t) \/ CacheHits(t)
             \/ NothingAllocated(t) \/ InPlaceEnds(t)
             \/ \E b \in Buffers : ReorderUncached(t, b) \/ CachePacks(t, b)
    <3>1. /\ call' = call /\ setting' = setting /\ comp' = comp
          /\ pc[t] \in {"reorder", "inPlace"} /\ pc'[t] = "gemm"
      BY <2>2 DEF WeightsAsGiven, AlreadyBlocked, CacheHits, NothingAllocated, InPlaceEnds,
                  ReorderUncached, CachePacks, ToReorder, Enters, Takes, shared, Goto,
                  TypeInv, TypeOK
    <3>2. HandOf(t)'
      BY <2>1, <3>1 DEF HandOf, W
    <3> QED BY <1>2, <3>2, OtherHands, OthersUntouched
  <2>3. CASE InPlaceBegins(t)
    <3>1. /\ call' = call /\ setting' = setting /\ comp' = comp /\ operand' = operand
          /\ pc[t] = "reorder" /\ pc'[t] = "inPlace"
      BY <2>3 DEF InPlaceBegins, ToReorder, Enters, Goto, TypeInv, TypeOK
    <3>2. HandOf(t)'
      BY <2>1, <3>1 DEF HandOf, W
    <3> QED BY <1>2, <3>2, OtherHands, OthersUntouched
  <2>4. CASE GemmEnds(t)
    <3>1. comp'[t] = Null /\ operand'[t] = Null /\ pc'[t] = "out"
      BY <2>4 DEF GemmEnds, Goto, TypeInv, TypeOK
    <3>2. HandOf(t)'
      BY <3>1 DEF HandOf
    <3> QED BY <1>2, <3>2, OtherHands, OthersUntouched
  <2> QED BY <1>2, <2>2, <2>3, <2>4
<1>3. ASSUME ClearCaches \/ UNCHANGED vars
      PROVE  CallInv'
  BY <1>3 DEF ClearCaches, vars, CallInv, HandOf, W, CanCache, SrcZp, WeiZp
<1> QED BY <1>1, <1>2, <1>3, StepKinds
----------------------------------------------------------------------------
(* The blocks.  A block in the weight cache is the clean pack of its key; an
   operand is the clean pack of its call's weights, in the cache or, with
   caching off, held by that call alone. *)

PackOf(w) ==
    packs.val[w] \in Buffers =>
        setting.cacheType # 0 /\ heap[packs.val[w]] = Pack(w, TRUE)

OperandOf(t) ==
    operand[t] # Null =>
        /\ heap[operand[t]] = Pack(W(t), TRUE)
        /\ setting.cacheType # 0 => operand[t] = packs.val[W(t)]

OperandsDiffer ==
    \A t, u \in Threads :
        setting.cacheType = 0 /\ operand[t] # Null /\ operand[t] = operand[u] => t = u

PackInv ==
    /\ \A w \in Weights : PackOf(w)
    /\ \A t \in Threads : OperandOf(t)
    /\ OperandsDiffer

(* Sums in the compensation cache are of their key; a call's sums are of its
   weights, and either they are the cached ones or nobody else has them. *)

IsCompOf(x, w) == \E z \in ZeroPoints, c \in BOOLEAN : x = Comp(w, z, c)
OwnsComp(t) == pc[t] = "insert" \/ ~CanCache(t)

KeySums(w) == comps.val[w] \in Buffers => IsCompOf(heap[comps.val[w]], w)

SumsOf(t) ==
    comp[t] # Null =>
        /\ IsCompOf(heap[comp[t]], W(t))
        /\ ~OwnsComp(t) => comp[t] = comps.val[W(t)]
        /\ OwnsComp(t) => /\ \A w \in Weights : comps.val[w] # comp[t]
                          /\ \A u \in Threads \ {t} : comp[u] # comp[t]

CompInv ==
    /\ \A w \in Weights : KeySums(w)
    /\ \A t \in Threads : SumsOf(t)

\* The three kinds of block differ, and a block of sums is of one weight.
LEMMA KindsDiffer ==
    /\ \A v, w, z, c, d : Pack(v, c) # Comp(w, z, d)
    /\ \A w, z, c : Pack(w, c) # Free /\ Comp(w, z, c) # Free
    /\ \A v, w, y, z, c, d : Comp(v, y, c) = Comp(w, z, d) => v = w /\ y = z /\ c = d
<1>1. \A v, w, z, c, d : Pack(v, c).is = "pack" /\ Comp(w, z, d).is = "comp" /\ Free.is = "free"
  BY DEF Pack, Comp, Free
<1>2. \A w, z, c : Comp(w, z, c).w = w /\ Comp(w, z, c).zp = z /\ Comp(w, z, c).clean = c
  BY DEF Comp
<1>3. "pack" # "comp" /\ "pack" # "free" /\ "comp" # "free"
  OBVIOUS
<1> QED BY <1>1, <1>2, <1>3

LEMMA BlocksInit == Init => PackInv /\ CompInv
<1> SUFFICES ASSUME Init PROVE PackInv /\ CompInv
  OBVIOUS
<1>1. \A w \in Weights : packs.val[w] = Absent /\ comps.val[w] = Absent
  BY DEF Init, LruEmpty
<1>2. \A t \in Threads : operand[t] = Null /\ comp[t] = Null
  BY DEF Init
<1> QED BY <1>1, <1>2, NullIsNobody
     DEF PackInv, PackOf, OperandOf, OperandsDiffer, CompInv, KeySums, SumsOf

\* A step that leaves the weight cache, its blocks and the other callers
\* alone, and whose own caller takes no block.
LEMMA PacksUntouched ==
    ASSUME PackInv, TypeInv, NEW t \in Threads, UNCHANGED <<setting, packs.val>>,
           \A u \in Threads \ {t} : UNCHANGED <<call[u], operand[u]>>,
           operand'[t] = Null,
           \A b \in Buffers, w \in Weights : heap[b] = Pack(w, TRUE) => heap'[b] = heap[b]
    PROVE  PackInv'
<1>1. \A u \in Threads : operand'[u] # Null =>
        /\ operand'[u] = operand[u] /\ operand[u] \in Buffers
        /\ W(u)' = W(u) /\ W(u) \in Weights
  BY DEF TypeInv, TypeOK, W, Calls
<1>2. ASSUME NEW w \in Weights PROVE PackOf(w)'
  BY DEF PackInv, PackOf
<1>3. ASSUME NEW u \in Threads, operand'[u] # Null
      PROVE  /\ heap'[operand'[u]] = Pack(W(u), TRUE)
             /\ setting'.cacheType # 0 => operand'[u] = packs'.val[W(u)]
  BY <1>1, <1>3 DEF PackInv, OperandOf
<1>4. ASSUME NEW u \in Threads PROVE OperandOf(u)'
  BY <1>1, <1>3 DEF OperandOf
<1>5. OperandsDiffer'
  BY <1>1 DEF PackInv, OperandsDiffer
<1> QED BY <1>2, <1>4, <1>5 DEF PackInv

\* No block of sums is the pack of anything.
LEMMA SumsAreNoPack ==
    ASSUME CompInv, NEW t \in Threads, NEW w, comp[t] \in Buffers
    PROVE  heap[comp[t]] # Pack(w, TRUE)
<1>1. IsCompOf(heap[comp[t]], W(t))
  BY NullIsNobody DEF CompInv, KeySums, SumsOf
<1> QED BY <1>1, KindsDiffer DEF IsCompOf

LEMMA PackStep ==
    ASSUME NothingIsEvicted, TypeInv, WeightInv, CallInv, PackInv, CompInv, [Next]_vars
    PROVE  PackInv'
<1>a. packs \in LruStates(Buffers \cup {Null}) /\ comps \in LruStates(Buffers)
  BY DEF TypeInv, TypeOK
<1>1. ASSUME NEW t \in Threads,
             \/ \E w \in Weights, z \in ZeroPoints : Arrives(t, w, z)
             \/ ZpHits(t) \/ ZpMisses(t) \/ ZpFails(t) \/ ZpPeerWon(t) \/ ZpInserts(t)
             \/ \E b \in Buffers : ZpSums(t, b)
      PROVE  PackInv'
  <2>1. W(t) \in Weights /\ operand[t] = Null
    BY <1>1 DEF CallInv, HandOf, Arrives, ZpHits, ZpMisses, ZpFails, ZpPeerWon, ZpInserts, ZpSums,
                W, TypeInv, TypeOK, Calls
  <2>2. UNCHANGED <<packs, operand>>
    BY <1>1 DEF Arrives, ZpHits, ZpMisses, ZpFails, ZpPeerWon, ZpInserts, ZpSums, shared
  <2>3. \A b \in Buffers, w \in Weights : heap[b] = Pack(w, TRUE) => heap'[b] = heap[b]
    <3>1. CASE ~ZpPeerWon(t) /\ ~ZpInserts(t) /\ ~(\E b \in Buffers : ZpSums(t, b))
      BY <1>1, <3>1 DEF Arrives, ZpHits, ZpMisses, ZpFails, shared
    <3>2. CASE ZpPeerWon(t)
      <4>1. heap' = Freed({comp[t]})
        BY <3>2 DEF ZpPeerWon
      <4> QED BY <4>1, SumsAreNoPack DEF Freed
    <3>3. CASE ZpInserts(t)
      <4>1. heap' = Freed({})
        BY <1>a, <2>1, <3>3, AddKeeps DEF ZpInserts
      <4> QED BY <4>1 DEF Freed
    <3>4. CASE \E b \in Buffers : ZpSums(t, b)
      <4>1. PICK c \in Buffers : ZpSums(t, c)
        BY <3>4
      <4>2. heap[c] = Free
        BY <4>1 DEF ZpSums, Unused
      <4>3. \A b \in Buffers \ {c} : heap'[b] = heap[b]
        BY <4>1 DEF ZpSums, TypeInv, TypeOK
      <4> QED BY <4>2, <4>3, KindsDiffer
    <3> QED BY <3>1, <3>2, <3>3, <3>4
  <2>4. UNCHANGED setting /\ \A u \in Threads \ {t} : UNCHANGED <<call[u], operand[u]>>
    BY <1>1, OthersUntouched
  <2> QED BY <2>1, <2>2, <2>3, <2>4, PacksUntouched
<1>2. ASSUME NEW t \in Threads,
             \/ WeightsAsGiven(t) \/ NothingAllocated(t) \/ InPlaceBegins(t)
      PROVE  PackInv'
  <2>1. UNCHANGED <<setting, packs, heap, call>> /\ operand'[t] = Null
    BY <1>2 DEF WeightsAsGiven, NothingAllocated, InPlaceBegins, ToReorder, Enters, Takes,
                shared, TypeInv, TypeOK, CallInv, HandOf
  <2>2. \A u \in Threads \ {t} : UNCHANGED operand[u]
    BY <1>2, OthersUntouched
  <2> QED BY <2>1, <2>2, PacksUntouched
<1>3. ASSUME NEW t \in Threads, AlreadyBlocked(t) \/ InPlaceEnds(t)
      PROVE  PackInv'
  <2>1. W(t) \in Weights /\ packs' = LruAdd(packs, Capacity, W(t), Null)
    BY <1>3 DEF AlreadyBlocked, InPlaceEnds, W, TypeInv, TypeOK, Calls
  <2>2. /\ packs'.val = IF packs.val[W(t)] # Absent THEN packs.val
                        ELSE [packs.val EXCEPT ![W(t)] = Null]
        /\ LruFreedByAdd(packs, Capacity) = {}
    BY <1>a, <2>1, AddKeeps
  <2>3. UNCHANGED <<setting, heap, call>> /\ operand' = [operand EXCEPT ![t] = Null]
    <3>1. heap' = Freed({})
      BY <1>3, <2>2 DEF AlreadyBlocked, InPlaceEnds
    <3>2. Freed({}) = heap
      BY DEF Freed, TypeInv, TypeOK
    <3> QED BY <1>3, <3>1, <3>2 DEF AlreadyBlocked, InPlaceEnds, Takes
  <2>4. packs.val \in [Weights -> Buffers \cup {Null, Absent}]
    BY <1>a DEF LruStates
  <2>5. \A w \in Weights : packs.val[w] \in Buffers => packs'.val[w] = packs.val[w]
    BY <2>1, <2>2, <2>4, NullIsNobody
  <2>6. \A w \in Weights : packs'.val[w] \in Buffers => packs'.val[w] = packs.val[w]
    BY <2>1, <2>2, <2>4, NullIsNobody
  <2>7. \A u \in Threads : operand'[u] # Null =>
          operand'[u] = operand[u] /\ operand[u] \in Buffers /\ W(u)' = W(u) /\ W(u) \in Weights
    BY <2>3 DEF TypeInv, TypeOK, W, Calls
  <2>8. ASSUME NEW w \in Weights PROVE PackOf(w)'
    BY <2>3, <2>6 DEF PackInv, PackOf
  <2>9. ASSUME NEW u \in Threads PROVE OperandOf(u)'
    <3>1. CASE operand'[u] = Null
      BY <3>1 DEF OperandOf
    <3>2. CASE operand'[u] # Null
      <4>1. OperandOf(u) /\ operand[u] # Null
        BY <2>7, <3>2 DEF PackInv
      <4>2. setting.cacheType # 0 => operand[u] = packs'.val[W(u)]
        BY <2>5, <2>7, <3>2, <4>1 DEF OperandOf
      <4> QED BY <2>3, <2>7, <3>2, <4>1, <4>2 DEF OperandOf
    <3> QED BY <3>1, <3>2
  <2>10. OperandsDiffer'
    BY <2>3, <2>7 DEF PackInv, OperandsDiffer
  <2> QED BY <2>8, <2>9, <2>10 DEF PackInv
<1>4. ASSUME NEW t \in Threads, CacheHits(t)
      PROVE  PackInv'
  <2>1. /\ W(t) \in Weights /\ setting.cacheType # 0 /\ packs.val[W(t)] # Absent
        /\ packs' = LruTouch(packs, W(t)) /\ UNCHANGED <<setting, heap, call>>
        /\ operand' = [operand EXCEPT ![t] = packs.val[W(t)]]
    BY <1>4 DEF CacheHits, Enters, LruHas, Takes, W, TypeInv, TypeOK, Calls
  <2>2. packs'.val = packs.val
    BY <1>a, <2>1, TouchKeeps
  <2>3. packs.val[W(t)] \in Buffers \cup {Null}
    BY <1>a, <2>1 DEF LruStates
  <2>4. \A u \in Threads : operand'[u] = IF u = t THEN packs.val[W(t)] ELSE operand[u]
    BY <2>1 DEF TypeInv, TypeOK
  <2>5. \A u \in Threads : W(u)' = W(u)
    BY <2>1 DEF W
  <2>6. ASSUME NEW w \in Weights PROVE PackOf(w)'
    BY <2>1, <2>2 DEF PackInv, PackOf
  <2>7. ASSUME NEW u \in Threads PROVE OperandOf(u)'
    <3>1. CASE u = t
      <4>1. packs.val[W(t)] # Null => heap[packs.val[W(t)]] = Pack(W(t), TRUE)
        BY <2>1, <2>3 DEF PackInv, PackOf
      <4> QED BY <2>1, <2>2, <2>4, <2>5, <3>1, <4>1 DEF OperandOf
    <3>2. CASE u # t
      <4>1. OperandOf(u) /\ operand'[u] = operand[u] /\ W(u)' = W(u)
        BY <2>4, <2>5, <3>2 DEF PackInv
      <4> QED BY <2>1, <2>2, <4>1 DEF OperandOf
    <3> QED BY <3>1, <3>2
  <2>8. OperandsDiffer'
    BY <2>1 DEF OperandsDiffer
  <2> QED BY <2>6, <2>7, <2>8 DEF PackInv
<1>5. ASSUME NEW t \in Threads, NEW b \in Buffers, ReorderUncached(t, b)
      PROVE  PackInv'
  <2>1. /\ W(t) \in Weights \ Prepacked /\ setting.cacheType = 0 /\ heap[b] = Free
        /\ UNCHANGED <<setting, packs, call>>
        /\ operand' = [operand EXCEPT ![t] = b]
        /\ heap' = [heap EXCEPT ![b] = Pack(W(t), user[W(t)] = "raw")]
    BY <1>5 DEF ReorderUncached, ToReorder, Unused, Takes, W, TypeInv, TypeOK, Calls
  <2>2. user[W(t)] = "raw"
    BY <2>1 DEF WeightInv, AloneInPlace, WeightsAsRecorded, MayBeBlocked, InPlaceOn
  <2>3. heap' = [heap EXCEPT ![b] = Pack(W(t), TRUE)]
    <3>1. (user[W(t)] = "raw") = TRUE
      BY <2>2
    <3> QED BY <2>1, <3>1
  <2>4. \A c \in Buffers : heap'[c] = IF c = b THEN Pack(W(t), TRUE) ELSE heap[c]
    BY <2>3 DEF TypeInv, TypeOK
  <2>5. \A u \in Threads : operand'[u] = IF u = t THEN b ELSE operand[u]
    BY <2>1 DEF TypeInv, TypeOK
  <2>6. \A u \in Threads : operand[u] # Null => operand[u] \in Buffers /\ operand[u] # b
    BY <2>1, KindsDiffer DEF PackInv, OperandOf, TypeInv, TypeOK
  <2>7. \A u \in Threads : W(u)' = W(u)
    BY <2>1 DEF W
  <2>8. ASSUME NEW w \in Weights PROVE PackOf(w)'
    BY <2>1 DEF PackInv, PackOf
  <2>9. ASSUME NEW u \in Threads PROVE OperandOf(u)'
    <3>1. CASE u = t
      BY <2>1, <2>4, <2>5, <2>7, <3>1 DEF OperandOf
    <3>2. CASE u # t
      <4>1. OperandOf(u) /\ operand'[u] = operand[u] /\ W(u)' = W(u)
        BY <2>5, <2>7, <3>2 DEF PackInv
      <4>2. operand[u] # Null => heap'[operand[u]] = heap[operand[u]]
        BY <2>4, <2>6
      <4> QED BY <2>1, <4>1, <4>2 DEF OperandOf
    <3> QED BY <3>1, <3>2
  <2>10. OperandsDiffer'
    BY <2>1, <2>5, <2>6 DEF PackInv, OperandsDiffer
  <2> QED BY <2>8, <2>9, <2>10 DEF PackInv
<1>6. ASSUME NEW t \in Threads, NEW b \in Buffers, CachePacks(t, b)
      PROVE  PackInv'
  <2>1. /\ W(t) \in Weights \ Prepacked /\ setting.cacheType # 0 /\ heap[b] = Free
        /\ holder = Null /\ packs.val[W(t)] = Absent
        /\ UNCHANGED <<setting, call>>
        /\ operand' = [operand EXCEPT ![t] = b]
    BY <1>6 DEF CachePacks, Enters, ToReorder, Unused, LruHas, Takes, W, TypeInv, TypeOK, Calls
  <2>2. user[W(t)] = "raw"
    <3>1. ~InPlaceOn(W(t))
      BY <2>1, NullIsNobody DEF InPlaceOn, WeightInv, AloneInPlace
    <3> QED BY <2>1, <3>1, NullIsNobody DEF WeightInv, WeightsAsRecorded
  <2>3. /\ packs'.val = [packs.val EXCEPT ![W(t)] = b]
        /\ LruFreedByAdd(packs, Capacity) = {}
    BY <1>a, <1>6, <2>1, AddKeeps DEF CachePacks
  <2>4. \A c \in Buffers : heap'[c] = IF c = b THEN Pack(W(t), TRUE) ELSE heap[c]
    <3>1. (user[W(t)] = "raw") = TRUE
      BY <2>2
    <3>2. heap' = [Freed({}) EXCEPT ![b] = Pack(W(t), TRUE)]
      BY <1>6, <2>3, <3>1 DEF CachePacks
    <3>3. Freed({}) = heap
      BY DEF Freed, TypeInv, TypeOK
    <3> QED BY <3>2, <3>3 DEF TypeInv, TypeOK
  <2>5. \A u \in Threads : operand'[u] = IF u = t THEN b ELSE operand[u]
    BY <2>1 DEF TypeInv, TypeOK
  <2>6. ASSUME NEW u \in Threads, operand[u] # Null
        PROVE  operand[u] \in Buffers /\ operand[u] # b /\ W(u) # W(t)
    <3>1. OperandOf(u) /\ operand[u] \in Buffers
      BY <2>6 DEF PackInv, TypeInv, TypeOK
    <3> QED BY <2>1, <2>6, <3>1, NullIsNobody, KindsDiffer DEF OperandOf
  <2>7. \A u \in Threads : W(u)' = W(u) /\ W(u) \in Weights
    BY <2>1 DEF W, TypeInv, TypeOK, Calls
  <2>8. \A w \in Weights : packs'.val[w] = IF w = W(t) THEN b ELSE packs.val[w]
    BY <1>a, <2>3 DEF LruStates
  <2>9. \A w \in Weights : packs.val[w] \in Buffers => packs.val[w] # b
    BY <2>1, KindsDiffer DEF PackInv, PackOf
  <2>10. ASSUME NEW w \in Weights PROVE PackOf(w)'
    BY <2>1, <2>4, <2>8, <2>9 DEF PackInv, PackOf
  <2>11. ASSUME NEW u \in Threads PROVE OperandOf(u)'
    <3>1. CASE u = t
      <4>1. operand'[u] = b /\ heap'[b] = Pack(W(t), TRUE) /\ packs'.val[W(t)] = b /\ W(u)' = W(t)
        BY <2>1, <2>4, <2>5, <2>7, <2>8, <3>1
      <4> QED BY <4>1 DEF OperandOf
    <3>2. CASE u # t
      <4>1. OperandOf(u) /\ operand'[u] = operand[u] /\ W(u)' = W(u)
        BY <2>5, <2>7, <3>2 DEF PackInv
      <4>2. operand[u] # Null => /\ heap'[operand[u]] = heap[operand[u]]
                                 /\ packs'.val[W(u)] = packs.val[W(u)]
        BY <2>4, <2>6, <2>7, <2>8
      <4> QED BY <2>1, <4>1, <4>2 DEF OperandOf
    <3> QED BY <3>1, <3>2
  <2>12. OperandsDiffer'
    BY <2>1 DEF OperandsDiffer
  <2> QED BY <2>10, <2>11, <2>12 DEF PackInv
<1>7. ASSUME NEW t \in Threads, GemmEnds(t)
      PROVE  PackInv'
  <2> DEFINE gone == (IF setting.cacheType = 0 THEN {operand[t]} ELSE {})
                      \cup (IF ~setting.zpCache \/ WeiZp(t) # 0 THEN {comp[t]} ELSE {})
  <2>1. heap' = Freed(gone) /\ UNCHANGED <<setting, packs, call>>
        /\ operand' = [operand EXCEPT ![t] = Null]
    BY <1>7 DEF GemmEnds
  <2>2. \A b \in Buffers : b \notin gone => heap'[b] = heap[b]
    BY <2>1 DEF Freed
  <2>3. \A u \in Threads : operand'[u] = IF u = t THEN Null ELSE operand[u]
    BY <2>1 DEF TypeInv, TypeOK
  <2>4. \A b \in Buffers, w \in Weights : heap[b] = Pack(w, TRUE) => b # comp[t]
    BY SumsAreNoPack
  <2>5. \A w \in Weights : packs.val[w] \in Buffers => packs.val[w] \notin gone
    BY <2>4 DEF PackInv, PackOf
  <2>6. \A u \in Threads : W(u)' = W(u) /\ W(u) \in Weights
    BY <2>1 DEF W, TypeInv, TypeOK, Calls
  <2>7. ASSUME NEW u \in Threads \ {t}, operand[u] # Null
        PROVE  operand[u] \in Buffers /\ operand[u] \notin gone
    <3>1. OperandOf(u) /\ operand[u] \in Buffers
      BY <2>7 DEF PackInv, TypeInv, TypeOK
    <3>2. operand[u] # comp[t]
      BY <2>4, <2>6, <2>7, <3>1 DEF OperandOf
    <3>3. setting.cacheType = 0 => operand[u] # operand[t]
      BY <2>7 DEF PackInv, OperandsDiffer
    <3> QED BY <3>1, <3>2, <3>3
  <2> HIDE DEF gone
  <2>8. ASSUME NEW w \in Weights PROVE PackOf(w)'
    BY <2>1, <2>2, <2>5 DEF PackInv, PackOf
  <2>9. ASSUME NEW u \in Threads PROVE OperandOf(u)'
    <3>1. CASE operand'[u] = Null
      BY <3>1 DEF OperandOf
    <3>2. CASE operand'[u] # Null
      <4>1. OperandOf(u) /\ operand'[u] = operand[u] /\ W(u)' = W(u)
        BY <2>3, <2>6, <3>2 DEF PackInv
      <4>2. heap'[operand[u]] = heap[operand[u]]
        BY <2>2, <2>3, <2>7, <3>2
      <4> QED BY <2>1, <4>1, <4>2 DEF OperandOf
    <3> QED BY <3>1, <3>2
  <2>10. OperandsDiffer'
    BY <2>1, <2>3 DEF PackInv, OperandsDiffer
  <2> QED BY <2>8, <2>9, <2>10 DEF PackInv
<1>8. ASSUME ClearCaches
      PROVE  PackInv'
  <2>1. \A w \in Weights : packs'.val[w] = Absent
    BY <1>8 DEF ClearCaches, LruEmpty
  <2>2. \A t \in Threads : operand'[t] = Null
    BY <1>8 DEF ClearCaches, CallInv, HandOf
  <2> QED BY <2>1, <2>2, NullIsNobody DEF PackInv, PackOf, OperandOf, OperandsDiffer
<1>9. ASSUME UNCHANGED vars
      PROVE  PackInv'
  BY <1>9 DEF vars, PackInv, PackOf, OperandOf, OperandsDiffer, W
<1> QED BY <1>1, <1>2, <1>3, <1>4, <1>5, <1>6, <1>7, <1>8, <1>9, StepKinds

\* A step that leaves the compensation cache and its blocks alone, and whose
\* own caller keeps its sums and stays their owner or their user.
LEMMA CompsUntouched ==
    ASSUME CompInv, TypeInv, NEW t \in Threads, UNCHANGED <<setting, comps.val>>,
           \A u \in Threads \ {t} : UNCHANGED <<pc[u], call[u], comp[u]>>,
           \/ comp'[t] = Null
           \/ call'[t] = call[t] /\ comp'[t] = comp[t] /\ (OwnsComp(t)' <=> OwnsComp(t)),
           \A b \in Buffers : (\E w \in Weights : comps.val[w] = b)
                                \/ (\E u \in Threads : comp'[u] = b) => heap'[b] = heap[b]
    PROVE  CompInv'
<1>1. ASSUME NEW u \in Threads, comp'[u] # Null
      PROVE  /\ comp'[u] = comp[u] /\ comp[u] \in Buffers
             /\ W(u)' = W(u) /\ (OwnsComp(u)' <=> OwnsComp(u)) /\ W(u) \in Weights
  <2>1. comp'[u] = comp[u] /\ call'[u] = call[u] /\ comp[u] \in Buffers
    BY <1>1 DEF TypeInv, TypeOK
  <2>2. OwnsComp(u)' <=> OwnsComp(u)
    BY <1>1, <2>1 DEF OwnsComp, CanCache, W, SrcZp, WeiZp
  <2> QED BY <2>1, <2>2 DEF W, TypeInv, TypeOK, Calls
<1>2. ASSUME NEW w \in Weights, comps'.val[w] \in Buffers
      PROVE  IsCompOf(heap'[comps'.val[w]], w)
  <2>1. IsCompOf(heap[comps.val[w]], w) /\ heap'[comps.val[w]] = heap[comps.val[w]]
    BY <1>2 DEF CompInv, KeySums, SumsOf
  <2> QED BY <2>1 DEF IsCompOf
<1>3. ASSUME NEW u \in Threads, comp'[u] # Null
      PROVE  /\ IsCompOf(heap'[comp'[u]], W(u)')
             /\ ~OwnsComp(u)' => comp'[u] = comps'.val[W(u)']
             /\ OwnsComp(u)' => /\ \A w \in Weights : comps'.val[w] # comp'[u]
                                /\ \A r \in Threads \ {u} : comp'[r] # comp'[u]
  <2>1. /\ comp'[u] = comp[u] /\ comp[u] \in Buffers /\ heap'[comp[u]] = heap[comp[u]]
        /\ W(u)' = W(u) /\ (OwnsComp(u)' <=> OwnsComp(u))
    BY <1>1, <1>3
  <2>2. /\ IsCompOf(heap[comp[u]], W(u))
        /\ ~OwnsComp(u) => comp[u] = comps.val[W(u)]
        /\ OwnsComp(u) => /\ \A w \in Weights : comps.val[w] # comp[u]
                          /\ \A r \in Threads \ {u} : comp[r] # comp[u]
    BY <1>3, <2>1 DEF CompInv, KeySums, SumsOf
  <2>3. IsCompOf(heap'[comp'[u]], W(u)')
    BY <2>1, <2>2 DEF IsCompOf
  <2>4. \A r \in Threads : comp'[r] # Null => comp'[r] = comp[r]
    BY <1>1
  <2> QED BY <1>3, <2>1, <2>2, <2>3, <2>4
<1>4. CompInv' <=>
        /\ \A w \in Weights : comps'.val[w] \in Buffers => IsCompOf(heap'[comps'.val[w]], w)
        /\ \A u \in Threads : comp'[u] # Null =>
              /\ IsCompOf(heap'[comp'[u]], W(u)')
              /\ ~OwnsComp(u)' => comp'[u] = comps'.val[W(u)']
              /\ OwnsComp(u)' => /\ \A w \in Weights : comps'.val[w] # comp'[u]
                                 /\ \A r \in Threads \ {u} : comp'[r] # comp'[u]
  BY DEF CompInv, KeySums, SumsOf
<1> QED BY <1>2, <1>3, <1>4

\* What the end of a call frees: its uncached operand and sums.
GoneWith(t) ==
    (IF setting.cacheType = 0 THEN {operand[t]} ELSE {})
      \cup (IF ~setting.zpCache \/ WeiZp(t) # 0 THEN {comp[t]} ELSE {})

\* None of it is in the compensation cache or in another caller's hand.
LEMMA GoneIsPrivate ==
    ASSUME TypeInv, PackInv, CompInv, NEW t \in Threads, NEW b \in Buffers,
           b \in GoneWith(t)
    PROVE  /\ \A w \in Weights : comps.val[w] # b
           /\ \A u \in Threads \ {t} : comp[u] # b
<1> DEFINE gone == GoneWith(t)
<1>1. comp[t] \in gone /\ comp[t] # Null =>
        /\ \A w \in Weights : comps.val[w] # comp[t]
        /\ \A u \in Threads \ {t} : comp[u] # comp[t]
  <2>1. comp[t] # Null /\ ~CanCache(t) =>
          /\ \A w \in Weights : comps.val[w] # comp[t]
          /\ \A u \in Threads \ {t} : comp[u] # comp[t]
    BY DEF CompInv, SumsOf, OwnsComp
  <2>2. ~setting.zpCache \/ WeiZp(t) # 0 => ~CanCache(t)
    BY DEF CanCache
  <2>3. comp[t] # Null => comp[t] # operand[t]
    <3>1. comp[t] # Null => comp[t] \in Buffers /\ W(t) \in Weights
      BY DEF TypeInv, TypeOK, W, Calls
    <3> QED BY <3>1, SumsAreNoPack DEF PackInv, OperandOf
  <2> QED BY <2>1, <2>2, <2>3 DEF GoneWith
<1>2. operand[t] # Null =>
        /\ \A w \in Weights : comps.val[w] # operand[t]
        /\ \A u \in Threads : comp[u] # operand[t]
  <2>1. operand[t] # Null => operand[t] \in Buffers /\ heap[operand[t]] = Pack(W(t), TRUE)
    BY DEF PackInv, OperandOf, TypeInv, TypeOK
  <2>2. ASSUME NEW w \in Weights, comps.val[w] \in Buffers
        PROVE  heap[comps.val[w]] # Pack(W(t), TRUE)
    <3>1. IsCompOf(heap[comps.val[w]], w)
      BY <2>2 DEF CompInv, KeySums
    <3> QED BY <3>1, KindsDiffer DEF IsCompOf
  <2> QED BY <2>1, <2>2, SumsAreNoPack
<1>3. b = comp[t] \/ b = operand[t]
  BY DEF GoneWith
<1> QED BY <1>1, <1>2, <1>3, NullIsNobody

LEMMA CompStep ==
    ASSUME NothingIsEvicted, TypeInv, WeightInv, CallInv, PackInv, CompInv, [Next]_vars
    PROVE  CompInv'
<1>a. packs \in LruStates(Buffers \cup {Null}) /\ comps \in LruStates(Buffers)
  BY DEF TypeInv, TypeOK
<1>b. comps.val \in [Weights -> Buffers \cup {Absent}]
  BY <1>a DEF LruStates
<1>c. Freed({}) = heap
  BY DEF Freed, TypeInv, TypeOK
<1>1. ASSUME NEW t \in Threads, NEW w \in Weights, NEW z \in ZeroPoints, Arrives(t, w, z)
      PROVE  CompInv'
  <2>1. comp'[t] = Null /\ UNCHANGED <<setting, comps, heap>>
    BY <1>1 DEF Arrives, shared, CallInv, HandOf
  <2>2. \A u \in Threads \ {t} : UNCHANGED <<pc[u], call[u], comp[u]>>
    BY <1>1, OthersUntouched
  <2> QED BY <2>1, <2>2, CompsUntouched
<1>2. ASSUME NEW t \in Threads,
             \/ WeightsAsGiven(t) \/ AlreadyBlocked(t) \/ CacheHits(t)
             \/ NothingAllocated(t) \/ InPlaceBegins(t) \/ InPlaceEnds(t)
             \/ \E b \in Buffers : ReorderUncached(t, b) \/ CachePacks(t, b)
      PROVE  CompInv'
  <2>1. /\ UNCHANGED <<setting, comps, comp, call>>
        /\ pc[t] # "insert" /\ pc'[t] # "insert"
    BY <1>2 DEF WeightsAsGiven, AlreadyBlocked, CacheHits, NothingAllocated, InPlaceBegins,
                InPlaceEnds, ReorderUncached, CachePacks, ToReorder, Enters, Takes, shared,
                Goto, TypeInv, TypeOK
  <2>2. \A u \in Threads \ {t} : UNCHANGED <<pc[u], call[u], comp[u]>>
    BY <1>2, OthersUntouched
  <2>3. OwnsComp(t)' <=> OwnsComp(t)
    BY <2>1 DEF OwnsComp, CanCache, W, SrcZp, WeiZp
  <2>4. W(t) \in Weights
    BY DEF W, TypeInv, TypeOK, Calls
  <2>5. LruFreedByAdd(packs, Capacity) = {}
    BY <1>a, <2>4, AddKeeps
  <2>6. \A b \in Buffers : heap[b] # Free => heap'[b] = heap[b]
    <3>1. CASE \/ WeightsAsGiven(t) \/ AlreadyBlocked(t) \/ CacheHits(t)
               \/ NothingAllocated(t) \/ InPlaceBegins(t) \/ InPlaceEnds(t)
      BY <1>c, <2>5, <3>1
         DEF WeightsAsGiven, AlreadyBlocked, CacheHits, NothingAllocated, InPlaceBegins,
             InPlaceEnds, shared
    <3>2. CASE \E b \in Buffers : ReorderUncached(t, b) \/ CachePacks(t, b)
      <4>1. PICK c \in Buffers : ReorderUncached(t, c) \/ CachePacks(t, c)
        BY <3>2
      <4>2. heap[c] = Free /\ heap' = [heap EXCEPT ![c] = Pack(W(t), user[W(t)] = "raw")]
        BY <1>c, <2>5, <4>1 DEF ReorderUncached, CachePacks, Unused
      <4> QED BY <4>2 DEF TypeInv, TypeOK
    <3> QED BY <1>2, <3>1, <3>2
  <2>7. \A w \in Weights : comps.val[w] \in Buffers => heap[comps.val[w]] # Free
    BY KindsDiffer DEF CompInv, KeySums, SumsOf, IsCompOf
  <2>8. \A u \in Threads : comp[u] # Null => heap[comp[u]] # Free
    BY KindsDiffer DEF CompInv, KeySums, SumsOf, IsCompOf
  <2>9. \A b \in Buffers : (\E w \in Weights : comps.val[w] = b)
                             \/ (\E u \in Threads : comp'[u] = b) => heap'[b] = heap[b]
    BY <2>1, <2>6, <2>7, <2>8, NullIsNobody
  <2> QED BY <2>1, <2>2, <2>3, <2>9, CompsUntouched
<1>3. ASSUME NEW t \in Threads, ZpMisses(t) \/ ZpFails(t)
      PROVE  CompInv'
  <2>1. comp'[t] = Null /\ UNCHANGED <<setting, comps, heap>>
    BY <1>3 DEF ZpMisses, ZpFails, shared, CallInv, HandOf
  <2>2. \A u \in Threads \ {t} : UNCHANGED <<pc[u], call[u], comp[u]>>
    BY <1>3, OthersUntouched
  <2> QED BY <2>1, <2>2, CompsUntouched
<1>4. ASSUME NEW t \in Threads, GemmEnds(t)
      PROVE  CompInv'
  <2>1. heap' = Freed(GoneWith(t)) /\ UNCHANGED <<setting, comps, call>>
        /\ comp'[t] = Null /\ pc[t] = "gemm"
    BY <1>4 DEF GemmEnds, GoneWith, TypeInv, TypeOK
  <2>2. \A u \in Threads \ {t} : UNCHANGED <<pc[u], call[u], comp[u]>>
    BY <1>4, OthersUntouched
  <2>5. \A b \in Buffers : (\E w \in Weights : comps.val[w] = b)
                             \/ (\E u \in Threads : comp'[u] = b) => b \notin GoneWith(t)
    <3>1. ASSUME NEW w \in Weights, comps.val[w] \in Buffers
          PROVE  comps.val[w] \notin GoneWith(t)
      BY <3>1, GoneIsPrivate
    <3>2. ASSUME NEW u \in Threads, comp'[u] \in Buffers
          PROVE  comp'[u] \notin GoneWith(t)
      <4>1. u # t /\ comp'[u] = comp[u]
        BY <2>1, <2>2, <3>2, NullIsNobody
      <4> QED BY <3>2, <4>1, GoneIsPrivate
    <3> QED BY <3>1, <3>2
  <2>6. \A b \in Buffers : b \notin GoneWith(t) => heap'[b] = heap[b]
    BY <2>1 DEF Freed
  <2> QED BY <2>1, <2>2, <2>5, <2>6, CompsUntouched
<1>d. ASSUME NEW t \in Threads,
             ZpHits(t) \/ ZpPeerWon(t) \/ ZpInserts(t) \/ \E b \in Buffers : ZpSums(t, b)
      PROVE  /\ \A u \in Threads \ {t} :
                  UNCHANGED <<comp[u], W(u), OwnsComp(u)>>
             /\ UNCHANGED <<W(t), CanCache(t)>> /\ W(t) \in Weights
  <2>1. UNCHANGED <<setting, call>>
    BY <1>d DEF ZpHits, ZpPeerWon, ZpInserts, ZpSums
  <2>2. \A u \in Threads \ {t} : UNCHANGED <<comp[u], pc[u]>>
    BY <1>d, OthersUntouched
  <2> QED BY <2>1, <2>2 DEF W, CanCache, SrcZp, WeiZp, OwnsComp, TypeInv, TypeOK, Calls
<1>5. ASSUME NEW t \in Threads, ZpHits(t)
      PROVE  CompInv'
  <2> DEFINE b == comps.val[W(t)]
  <2>1. /\ comps'.val = comps.val /\ heap' = heap /\ comp'[t] = b /\ b \in Buffers
        /\ CanCache(t) /\ pc'[t] = "reorder"
    BY <1>a, <1>b, <1>5, <1>d, TouchKeeps DEF ZpHits, LruHas, Goto, TypeInv, TypeOK
  <2>2. ~OwnsComp(t)'
    BY <1>5, <1>d, <2>1 DEF OwnsComp
  <2> HIDE DEF b
  <2>3. ASSUME NEW w \in Weights PROVE KeySums(w)'
    BY <2>1 DEF CompInv, KeySums
  <2>4. ASSUME NEW u \in Threads PROVE SumsOf(u)'
    <3>1. CASE u = t
      <4>1. IsCompOf(heap[b], W(t))
        BY <1>5, <1>d, <2>1 DEF CompInv, KeySums, b
      <4> QED BY <1>5, <1>d, <2>1, <2>2, <3>1, <4>1 DEF SumsOf, b
    <3>2. CASE u # t /\ comp[u] # Null
      <4>1. SumsOf(u) /\ comp'[u] = comp[u] /\ W(u)' = W(u) /\ (OwnsComp(u)' <=> OwnsComp(u))
        BY <1>5, <1>d, <3>2 DEF CompInv
      <4>2. OwnsComp(u) => comp'[t] # comp[u]
        BY <1>5, <1>d, <2>1, <3>2, <4>1 DEF SumsOf, b
      <4>3. \A r \in Threads : comp'[r] = comp[r] \/ r = t
        BY <1>5, <1>d
      <4> QED BY <2>1, <3>2, <4>1, <4>2, <4>3 DEF SumsOf
    <3>3. CASE u # t /\ comp[u] = Null
      BY <1>5, <1>d, <3>3 DEF SumsOf
    <3> QED BY <3>1, <3>2, <3>3
  <2> QED BY <2>3, <2>4 DEF CompInv
<1>6. ASSUME NEW t \in Threads, NEW b \in Buffers, ZpSums(t, b)
      PROVE  CompInv'
  <2>1. /\ comps' = comps /\ comp'[t] = b /\ heap[b] = Free /\ pc[t] = "sum"
        /\ pc'[t] = IF CanCache(t) THEN "insert" ELSE "reorder"
    BY <1>6 DEF ZpSums, Unused, Goto, TypeInv, TypeOK
  <2>2. OwnsComp(t)'
    BY <1>6, <1>d, <2>1 DEF OwnsComp
  <2>3. IsCompOf(heap'[b], W(t)) /\ \A c \in Buffers \ {b} : heap'[c] = heap[c]
    <3>1. heap' = [heap EXCEPT ![b] =
                      Comp(W(t), call[t].zp, SrcZp(t) = 0 \/ user[W(t)] = "raw")]
      BY <1>6 DEF ZpSums
    <3>2. heap'[b] = Comp(W(t), call[t].zp, SrcZp(t) = 0 \/ user[W(t)] = "raw")
      BY <3>1 DEF TypeInv, TypeOK
    <3>3. call[t].zp \in ZeroPoints /\ (SrcZp(t) = 0 \/ user[W(t)] = "raw") \in BOOLEAN
      BY DEF TypeInv, TypeOK, Calls
    <3> QED BY <3>1, <3>2, <3>3 DEF IsCompOf, TypeInv, TypeOK
  <2>4. \A w \in Weights : comps.val[w] # b
    BY <2>1, KindsDiffer DEF CompInv, KeySums, IsCompOf
  <2>5. \A u \in Threads : comp[u] # Null => comp[u] \in Buffers /\ comp[u] # b
    BY <2>1, KindsDiffer DEF CompInv, SumsOf, IsCompOf, TypeInv, TypeOK
  <2>6. ASSUME NEW w \in Weights PROVE KeySums(w)'
    BY <2>1, <2>3, <2>4 DEF CompInv, KeySums
  <2>7. ASSUME NEW u \in Threads PROVE SumsOf(u)'
    <3>1. \A r \in Threads \ {t} : comp'[r] # b
      BY <1>6, <1>d, <2>5, NullIsNobody
    <3>2. CASE u = t
      BY <1>6, <1>d, <2>1, <2>2, <2>3, <2>4, <3>1, <3>2 DEF SumsOf
    <3>3. CASE u # t /\ comp[u] # Null
      <4>1. SumsOf(u) /\ comp'[u] = comp[u] /\ W(u)' = W(u) /\ (OwnsComp(u)' <=> OwnsComp(u))
        BY <1>6, <1>d, <3>3 DEF CompInv
      <4>2. heap'[comp[u]] = heap[comp[u]]
        BY <2>3, <2>5, <3>3
      <4>3. \A r \in Threads : comp'[r] = comp[r] \/ comp'[r] = b
        BY <1>6, <1>d, <2>1
      <4> QED BY <2>1, <2>5, <3>3, <4>1, <4>2, <4>3 DEF SumsOf
    <3>4. CASE u # t /\ comp[u] = Null
      BY <1>6, <1>d, <3>4 DEF SumsOf
    <3> QED BY <3>2, <3>3, <3>4
  <2> QED BY <2>6, <2>7 DEF CompInv
<1>7. ASSUME NEW t \in Threads, ZpPeerWon(t)
      PROVE  CompInv'
  <2> DEFINE b == comps.val[W(t)]
  <2>1. /\ comps'.val = comps.val /\ heap' = Freed({comp[t]}) /\ comp'[t] = b /\ b \in Buffers
        /\ pc[t] = "insert" /\ pc'[t] = "reorder"
    BY <1>a, <1>b, <1>7, <1>d, TouchKeeps DEF ZpPeerWon, LruHas, Goto, TypeInv, TypeOK
  <2>2. ~OwnsComp(t)'
    BY <1>7, <1>d, <2>1 DEF OwnsComp, CallInv, HandOf
  <2>3. OwnsComp(t) /\ comp[t] # Null
    BY <2>1, NullIsNobody DEF OwnsComp, TypeInv, SumsInHand
  <2>4. /\ \A w \in Weights : comps.val[w] # comp[t]
        /\ \A u \in Threads \ {t} : comp[u] # comp[t]
    BY <2>3 DEF CompInv, SumsOf
  <2>5. \A c \in Buffers : c # comp[t] => heap'[c] = heap[c]
    BY <2>1 DEF Freed
  <2> HIDE DEF b
  <2>6. ASSUME NEW w \in Weights PROVE KeySums(w)'
    BY <2>1, <2>4, <2>5 DEF CompInv, KeySums
  <2>7. ASSUME NEW u \in Threads PROVE SumsOf(u)'
    <3>1. CASE u = t
      <4>1. IsCompOf(heap[b], W(t)) /\ heap'[b] = heap[b]
        BY <1>7, <1>d, <2>1, <2>4, <2>5 DEF CompInv, KeySums, b
      <4> QED BY <1>7, <1>d, <2>1, <2>2, <3>1, <4>1 DEF SumsOf, b
    <3>2. CASE u # t /\ comp[u] # Null
      <4>1. SumsOf(u) /\ comp'[u] = comp[u] /\ W(u)' = W(u) /\ (OwnsComp(u)' <=> OwnsComp(u))
        BY <1>7, <1>d, <3>2 DEF CompInv
      <4>2. OwnsComp(u) => comp'[t] # comp[u]
        BY <1>7, <1>d, <2>1, <3>2, <4>1 DEF SumsOf, b
      <4>3. \A r \in Threads : comp'[r] = comp[r] \/ r = t
        BY <1>7, <1>d
      <4>4. heap'[comp[u]] = heap[comp[u]]
        BY <2>4, <2>5, <3>2 DEF TypeInv, TypeOK
      <4> QED BY <2>1, <3>2, <4>1, <4>2, <4>3, <4>4 DEF SumsOf
    <3>3. CASE u # t /\ comp[u] = Null
      BY <1>7, <1>d, <3>3 DEF SumsOf
    <3> QED BY <3>1, <3>2, <3>3
  <2> QED BY <2>6, <2>7 DEF CompInv
<1>8. ASSUME NEW t \in Threads, ZpInserts(t)
      PROVE  CompInv'
  <2> DEFINE b == comp[t]
  <2>1. /\ pc[t] = "insert" /\ pc'[t] = "reorder" /\ comp' = comp /\ b \in Buffers
        /\ comps.val[W(t)] = Absent
    BY <1>8 DEF ZpInserts, LruHas, Goto, TypeInv, TypeOK, SumsInHand
  <2>2. comps'.val = [comps.val EXCEPT ![W(t)] = b] /\ heap' = heap
    <3>1. comps' = LruAdd(comps, Capacity, W(t), b) /\ heap' = Freed(LruFreedByAdd(comps, Capacity))
      BY <1>8 DEF ZpInserts
    <3>2. W(t) \in Weights
      BY <1>8, <1>d
    <3> HIDE DEF b
    <3>3. /\ LruFreedByAdd(comps, Capacity) = {}
          /\ LruAdd(comps, Capacity, W(t), b).val = [comps.val EXCEPT ![W(t)] = b]
      BY <1>a, <2>1, <3>2, AddKeeps
    <3> QED BY <1>c, <3>1, <3>3
  <2>3. \A w \in Weights : comps'.val[w] = IF w = W(t) THEN b ELSE comps.val[w]
    BY <1>b, <2>2
  <2>4. ~OwnsComp(t)'
    BY <1>8, <1>d, <2>1 DEF OwnsComp, CallInv, HandOf
  <2>5. IsCompOf(heap[b], W(t)) /\ \A u \in Threads \ {t} : comp[u] # b
    BY <2>1, NullIsNobody DEF OwnsComp, CompInv, SumsOf
  <2> HIDE DEF b
  <2>6. ASSUME NEW w \in Weights PROVE KeySums(w)'
    BY <2>2, <2>3, <2>5 DEF CompInv, KeySums
  <2>7. ASSUME NEW u \in Threads PROVE SumsOf(u)'
    <3>1. CASE u = t
      BY <1>8, <1>d, <2>1, <2>2, <2>3, <2>4, <2>5, <3>1 DEF SumsOf, b
    <3>2. CASE u # t /\ comp[u] # Null
      <4>1. SumsOf(u) /\ comp'[u] = comp[u] /\ W(u)' = W(u) /\ (OwnsComp(u)' <=> OwnsComp(u))
        BY <1>8, <1>d, <3>2 DEF CompInv
      <4>2. W(u) = W(t) => OwnsComp(u)
        BY <2>1, <3>2, <4>1, NullIsNobody DEF SumsOf, TypeInv, TypeOK
      <4>3. W(u) \in Weights
        BY DEF W, TypeInv, TypeOK, Calls
      <4> QED BY <2>1, <2>2, <2>3, <2>5, <3>2, <4>1, <4>2, <4>3 DEF SumsOf
    <3>3. CASE u # t /\ comp[u] = Null
      BY <1>8, <1>d, <3>3 DEF SumsOf
    <3> QED BY <3>1, <3>2, <3>3
  <2> QED BY <2>6, <2>7 DEF CompInv
<1>9. ASSUME ClearCaches
      PROVE  CompInv'
  <2>1. \A w \in Weights : comps'.val[w] = Absent
    BY <1>9 DEF ClearCaches, LruEmpty
  <2>2. \A t \in Threads : comp'[t] = Null
    BY <1>9 DEF ClearCaches, CallInv, HandOf
  <2> QED BY <2>1, <2>2, NullIsNobody DEF CompInv, KeySums, SumsOf
<1>10. ASSUME UNCHANGED vars
      PROVE  CompInv'
  BY <1>10 DEF vars, CompInv, KeySums, SumsOf, IsCompOf, OwnsComp, CanCache, W, SrcZp, WeiZp
<1>11. \/ \E t \in Threads, w \in Weights, z \in ZeroPoints : Arrives(t, w, z)
       \/ \E t \in Threads :
            \/ WeightsAsGiven(t) \/ AlreadyBlocked(t) \/ CacheHits(t)
            \/ NothingAllocated(t) \/ InPlaceBegins(t) \/ InPlaceEnds(t)
            \/ \E b \in Buffers : ReorderUncached(t, b) \/ CachePacks(t, b)
       \/ \E t \in Threads :
            \/ ZpMisses(t) \/ ZpFails(t) \/ GemmEnds(t) \/ ZpHits(t) \/ ZpPeerWon(t) \/ ZpInserts(t)
            \/ \E b \in Buffers : ZpSums(t, b)
       \/ ClearCaches \/ UNCHANGED vars
  BY StepKinds
<1> QED BY <1>1, <1>2, <1>3, <1>4, <1>5, <1>6, <1>7, <1>8, <1>9, <1>10, <1>11
----------------------------------------------------------------------------
(* What the GEMM reads in the caller's buffer when it has no block: a null
   entry or given blocked weights when it expects the blocked form, and plain
   weights that nobody may reorder in place otherwise. *)

ReadsOf(t) ==
    pc[t] = "gemm" /\ operand[t] = Null =>
        IF blocked[t] THEN packs.val[W(t)] = Null \/ W(t) \in Prepacked
        ELSE W(t) \notin Prepacked /\ ~MayBeBlocked(W(t))

ReadsBuffer == \A t \in Threads : ReadsOf(t)

LEMMA BufferInit == Init => ReadsBuffer
BY DEF Init, ReadsBuffer, ReadsOf

\* What either cache has it keeps, until the caches are cleared.
LEMMA EntriesKept ==
    ASSUME NothingIsEvicted, TypeInv, [Next]_vars, ~ClearCaches, NEW w \in Weights
    PROVE  /\ packs.val[w] # Absent => packs'.val[w] = packs.val[w]
           /\ comps.val[w] # Absent => comps'.val[w] = comps.val[w]
<1>a. /\ packs \in LruStates(Buffers \cup {Null})
      /\ packs.val \in [Weights -> Buffers \cup {Null, Absent}]
      /\ comps \in LruStates(Buffers)
      /\ comps.val \in [Weights -> Buffers \cup {Absent}]
  BY DEF TypeInv, TypeOK, LruStates
<1>b. \A t \in Threads : W(t) \in Weights
  BY DEF W, TypeInv, TypeOK, Calls
<1>1. ASSUME NEW V, NEW c \in LruStates(V), c.val \in [Weights -> V \cup {Absent}],
             NEW t \in Threads, NEW d,
             d = LruTouch(c, W(t)) \/ \E v : d = LruAdd(c, Capacity, W(t), v),
             c.val[w] # Absent
      PROVE  d.val[w] = c.val[w]
  <2>1. CASE d = LruTouch(c, W(t))
    BY <1>b, <2>1, TouchKeeps
  <2>2. CASE \E v : d = LruAdd(c, Capacity, W(t), v)
    <3>1. PICK v : d = LruAdd(c, Capacity, W(t), v)
      BY <2>2
    <3>2. d.val = IF c.val[W(t)] # Absent THEN c.val ELSE [c.val EXCEPT ![W(t)] = v]
      BY <1>b, <3>1, AddKeeps
    <3> QED BY <1>1, <1>b, <3>2
  <2> QED BY <1>1, <2>1, <2>2
<1>2. \/ packs' = packs
      \/ \E t \in Threads : packs' = LruTouch(packs, W(t))
      \/ \E t \in Threads, v \in Buffers \cup {Null} : packs' = LruAdd(packs, Capacity, W(t), v)
  BY StepKinds
     DEF Arrives, ZpHits, ZpMisses, ZpFails, ZpPeerWon, ZpInserts, ZpSums, WeightsAsGiven,
         AlreadyBlocked, CacheHits, NothingAllocated, InPlaceBegins, InPlaceEnds,
         ReorderUncached, CachePacks, GemmEnds, shared, vars
<1>3. \/ comps' = comps
      \/ \E t \in Threads : comps' = LruTouch(comps, W(t))
      \/ \E t \in Threads : comps' = LruAdd(comps, Capacity, W(t), comp[t])
  BY StepKinds
     DEF Arrives, ZpHits, ZpMisses, ZpFails, ZpPeerWon, ZpInserts, ZpSums, WeightsAsGiven,
         AlreadyBlocked, CacheHits, NothingAllocated, InPlaceBegins, InPlaceEnds,
         ReorderUncached, CachePacks, GemmEnds, shared, vars
<1>4. packs.val[w] # Absent => packs'.val[w] = packs.val[w]
  <2>1. packs.val \in [Weights -> (Buffers \cup {Null}) \cup {Absent}]
    BY <1>a
  <2> QED BY <1>1, <1>2, <1>a, <2>1
<1>5. comps.val[w] # Absent => comps'.val[w] = comps.val[w]
  BY <1>1, <1>3, <1>a
<1> QED BY <1>4, <1>5

LEMMA BufferStep ==
    ASSUME NothingIsEvicted, OneInPlaceFailure, TypeInv, WeightInv, CallInv, ReadsBuffer,
           [Next]_vars
    PROVE  ReadsBuffer'
<1>a. packs \in LruStates(Buffers \cup {Null})
  BY DEF TypeInv, TypeOK
<1>b. setting \in Settings
  BY DEF TypeInv, TypeOK
<1>c. \A t \in Threads : W(t) \in Weights
  BY DEF W, TypeInv, TypeOK, Calls
<1>d. ~ClearCaches => \A w \in Weights : packs.val[w] = Null => packs'.val[w] = Null
  BY EntriesKept, NullIsNobody
<1>1. ASSUME NEW t \in Threads, ~ClearCaches,
             UNCHANGED setting,
             \A u \in Threads \ {t} :
                UNCHANGED <<pc[u], call[u], comp[u], operand[u], blocked[u]>>,
             ReadsOf(t)'
      PROVE  ReadsBuffer'
  <2>1. ASSUME NEW u \in Threads \ {t} PROVE ReadsOf(u)'
    <3>1. ReadsOf(u) /\ W(u)' = W(u) /\ (MayBeBlocked(W(u))' <=> MayBeBlocked(W(u)))
      BY <1>1 DEF ReadsBuffer, W, MayBeBlocked
    <3> QED BY <1>1, <1>c, <1>d, <3>1 DEF ReadsOf
  <2> QED BY <1>1, <2>1 DEF ReadsBuffer
<1>2. ASSUME NEW t \in Threads,
             \/ \E w \in Weights, z \in ZeroPoints : Arrives(t, w, z)
             \/ ZpHits(t) \/ ZpMisses(t) \/ ZpFails(t) \/ ZpPeerWon(t) \/ ZpInserts(t)
             \/ \E b \in Buffers : ZpSums(t, b)
      PROVE  ReadsOf(t)'
  <2>1. pc'[t] # "gemm"
    BY <1>2 DEF Arrives, ZpHits, ZpMisses, ZpFails, ZpPeerWon, ZpInserts, ZpSums, Goto, TypeInv, TypeOK
  <2> QED BY <2>1 DEF ReadsOf
<1>3. ASSUME NEW t \in Threads,
             InPlaceBegins(t) \/ GemmEnds(t)
      PROVE  ReadsOf(t)'
  <2>1. pc'[t] # "gemm"
    BY <1>3 DEF InPlaceBegins, GemmEnds, Goto, TypeInv, TypeOK
  <2> QED BY <2>1 DEF ReadsOf
<1>4. ASSUME NEW t \in Threads, NEW b \in Buffers, ReorderUncached(t, b) \/ CachePacks(t, b)
      PROVE  ReadsOf(t)'
  <2>1. operand'[t] # Null
    BY <1>4, NullIsNobody DEF ReorderUncached, CachePacks, Takes, TypeInv, TypeOK
  <2> QED BY <2>1 DEF ReadsOf
<1>5. ASSUME NEW t \in Threads, WeightsAsGiven(t) \/ AlreadyBlocked(t)
      PROVE  ReadsOf(t)'
  <2>1. /\ setting' = setting /\ W(t)' = W(t)
        /\ \/ W(t) \notin setting.const /\ blocked'[t] = (W(t) \in Prepacked)
           \/ blocked'[t] = TRUE /\ W(t) \in Prepacked
    BY <1>5 DEF WeightsAsGiven, AlreadyBlocked, Takes, W, TypeInv, TypeOK
  <2>2. W(t) \notin setting.const => ~MayBeBlocked(W(t))
    BY DEF MayBeBlocked
  <2>3. MayBeBlocked(W(t))' <=> MayBeBlocked(W(t))
    BY <2>1 DEF MayBeBlocked
  <2> QED BY <2>1, <2>2, <2>3 DEF ReadsOf
<1>6. ASSUME NEW t \in Threads, CacheHits(t)
      PROVE  ReadsOf(t)'
  <2>1. /\ operand'[t] = packs.val[W(t)] /\ blocked'[t] = TRUE /\ W(t)' = W(t)
        /\ packs' = LruTouch(packs, W(t))
    BY <1>6 DEF CacheHits, Takes, W, TypeInv, TypeOK
  <2>2. packs'.val = packs.val
    BY <1>a, <1>c, <2>1, TouchKeeps
  <2> QED BY <2>1, <2>2 DEF ReadsOf
<1>7. ASSUME NEW t \in Threads, InPlaceEnds(t)
      PROVE  ReadsOf(t)'
  <2>1. /\ blocked'[t] = TRUE /\ W(t)' = W(t) /\ packs' = LruAdd(packs, Capacity, W(t), Null)
        /\ packs.val[W(t)] = Absent
    BY <1>7 DEF InPlaceEnds, Takes, W, WeightInv, AloneInPlace, TypeInv, TypeOK
  <2>2. packs'.val = [packs.val EXCEPT ![W(t)] = Null]
    BY <1>a, <1>c, <2>1, AddKeeps
  <2>3. packs'.val[W(t)] = Null
    BY <1>a, <1>c, <2>2 DEF LruStates
  <2> QED BY <2>1, <2>3 DEF ReadsOf
<1>8. ASSUME NEW t \in Threads, NothingAllocated(t)
      PROVE  ReadsOf(t)'
  <2>1. /\ setting' = setting /\ W(t)' = W(t) /\ blocked'[t] = FALSE
        /\ W(t) \in setting.const \ Prepacked /\ setting.cacheType = 2
        /\ "fallback" \in setting.fail
        /\ W(t) \in Fits => "interim" \in setting.fail
    BY <1>8 DEF NothingAllocated, Enters, ToReorder, MayRunInPlace, Takes, W, TypeInv, TypeOK
  <2>2. W(t) \notin Fits
    <3>1. "interim" \in setting.fail => {"interim", "fallback"} \subseteq setting.fail
      BY <2>1
    <3> QED BY <1>b, <2>1, <3>1 DEF OneInPlaceFailure
  <2>3. ~MayBeBlocked(W(t))'
    BY <2>1, <2>2 DEF MayBeBlocked
  <2> QED BY <2>1, <2>3 DEF ReadsOf
<1>9. ASSUME ClearCaches PROVE ReadsBuffer'
  BY <1>9 DEF ClearCaches, ReadsBuffer, ReadsOf
<1>10. ASSUME UNCHANGED vars PROVE ReadsBuffer'
  BY <1>10 DEF vars, ReadsBuffer, ReadsOf, W, MayBeBlocked
<1>11. ASSUME ~ClearCaches, NEW t \in Threads,
             \/ \E w \in Weights, z \in ZeroPoints : Arrives(t, w, z)
             \/ ZpHits(t) \/ ZpMisses(t) \/ ZpFails(t) \/ ZpPeerWon(t) \/ ZpInserts(t)
             \/ \E b \in Buffers : ZpSums(t, b)
      PROVE  ReadsBuffer'
  BY <1>1, <1>2, <1>11, OthersUntouched
<1>12. ASSUME ~ClearCaches, NEW t \in Threads,
             \/ WeightsAsGiven(t) \/ AlreadyBlocked(t) \/ CacheHits(t)
             \/ NothingAllocated(t) \/ InPlaceBegins(t) \/ InPlaceEnds(t)
             \/ \E b \in Buffers : ReorderUncached(t, b) \/ CachePacks(t, b)
             \/ GemmEnds(t)
      PROVE  ReadsBuffer'
  BY <1>1, <1>3, <1>4, <1>5, <1>6, <1>7, <1>8, <1>12, OthersUntouched
<1> QED BY <1>9, <1>10, <1>11, <1>12, StepKinds

\* Everything the properties of the blocked weights rest on.
PackReads == TypeInv /\ WeightInv /\ CallInv /\ PackInv /\ CompInv

LEMMA PackReadsHold ==
    ASSUME NothingIsEvicted
    PROVE  Spec => []PackReads
<1>1. Init => PackReads
  BY TypesInit, WeightInit, CallInit, BlocksInit DEF PackReads
<1>2. PackReads /\ [Next]_vars => PackReads'
  BY TypeStep, WeightStep, CallStep, PackStep, CompStep DEF PackReads
<1> QED BY <1>1, <1>2, PTL DEF Spec

(* Without eviction, and unless both allocations of an in-place reorder fail,
   the GEMM never meets anything but the blocked form of its own weights where
   it expects it, and plain weights where it does not: no freed block, no
   half-copied or twice reordered bytes (aocl_kernel.cpp:577-583, 1144-1150). *)
THEOREM GemmReadsPack ==
    ASSUME NothingIsEvicted, OneInPlaceFailure
    PROVE  Spec => []GemmReadsItsPack
<1>1. PackReads /\ ReadsBuffer /\ [Next]_vars => ReadsBuffer'
  BY BufferStep DEF PackReads
<1>2. Spec => [](PackReads /\ ReadsBuffer)
  BY <1>1, PackReadsHold, BufferInit, PTL DEF Spec
<1>3. PackReads /\ ReadsBuffer => GemmReadsItsPack
  <2> SUFFICES ASSUME PackReads, ReadsBuffer, NEW t \in Threads, pc[t] = "gemm"
               PROVE  IF operand[t] # Null
                      THEN heap[operand[t]] = Pack(W(t), TRUE)
                      ELSE user[W(t)] = IF blocked[t] THEN "blocked" ELSE "raw"
    BY DEF GemmReadsItsPack
  <2>1. CASE operand[t] # Null
    BY <2>1 DEF PackReads, PackInv, OperandOf
  <2>2. CASE operand[t] = Null
    <3>1. W(t) \in Weights /\ ReadsOf(t)
      BY DEF ReadsBuffer, PackReads, W, TypeInv, TypeOK, Calls
    <3>2. InPlaceOn(W(t)) =>
            packs.val[W(t)] = Absent /\ MayBeBlocked(W(t)) /\ W(t) \notin Prepacked
      BY DEF PackReads, WeightInv, AloneInPlace, InPlaceOn, MayBeBlocked
    <3>3. ~InPlaceOn(W(t))
      BY <2>2, <3>1, <3>2, NullIsNobody DEF ReadsOf
    <3>4. /\ packs.val[W(t)] = Null => W(t) \in Prepacked \/ MayBeBlocked(W(t))
          /\ user[W(t)] = IF packs.val[W(t)] = Null \/ W(t) \in Prepacked
                          THEN "blocked" ELSE "raw"
      BY <3>1, <3>3 DEF PackReads, WeightInv, WeightsAsRecorded
    <3> QED BY <2>2, <3>1, <3>4 DEF ReadsOf
  <2> QED BY <2>1, <2>2
<1> QED BY <1>2, <1>3, PTL
----------------------------------------------------------------------------
(* Ownership.  A block that is not free is somewhere: in a cache entry or in
   a caller's hand. *)

HeldBy(t, b) == operand[t] = b \/ comp[t] = b
HeldIn(w, b) == packs.val[w] = b \/ comps.val[w] = b
Held(b) == (\E w \in Weights : HeldIn(w, b)) \/ (\E t \in Threads : HeldBy(t, b))
AllHeld == \A b \in Buffers : heap[b] # Free => Held(b)

LEMMA HeldInit == Init => AllHeld
BY DEF Init, AllHeld

\* A step that takes nothing out of t's hand, and gives out what it fills.
LEMMA HandsKept ==
    ASSUME NothingIsEvicted, TypeInv, AllHeld, [Next]_vars, ~ClearCaches,
           NEW t \in Threads,
           \A u \in Threads \ {t} : UNCHANGED <<comp[u], operand[u]>>,
           operand[t] = Null \/ operand'[t] = operand[t],
           \A b \in Buffers : comp[t] = b /\ comp'[t] # b => heap'[b] = Free,
           \A b \in Buffers : heap[b] = Free /\ heap'[b] # Free => Held(b)'
    PROVE  AllHeld'
<1> SUFFICES ASSUME NEW b \in Buffers, heap'[b] # Free PROVE Held(b)'
  BY DEF AllHeld
<1>1. CASE heap[b] = Free
  BY <1>1
<1>2. CASE heap[b] # Free
  <2>1. ASSUME NEW w \in Weights, HeldIn(w, b) PROVE HeldIn(w, b)'
    BY <2>1, EntriesKept, NullIsNobody DEF HeldIn
  <2>2. ASSUME NEW u \in Threads, HeldBy(u, b) PROVE HeldBy(u, b)'
    BY <2>2, NullIsNobody DEF HeldBy
  <2>3. Held(b)
    BY <1>2 DEF AllHeld
  <2> QED BY <2>1, <2>2, <2>3 DEF Held
<1> QED BY <1>1, <1>2

LEMMA HeldStep ==
    ASSUME NothingIsEvicted, CacheableIsCached, PackReads, AllHeld, [Next]_vars
    PROVE  AllHeld'
<1> USE DEF PackReads
<1>a. packs \in LruStates(Buffers \cup {Null}) /\ comps \in LruStates(Buffers)
  BY DEF TypeInv, TypeOK
<1>b. \A t \in Threads : W(t) \in Weights
  BY DEF W, TypeInv, TypeOK, Calls
<1>c. Freed({}) = heap
  BY DEF Freed, TypeInv, TypeOK
<1>d. \A t \in Threads : LruFreedByAdd(packs, Capacity) = {} /\ LruFreedByAdd(comps, Capacity) = {}
  BY <1>a, <1>b, AddKeeps
<1>1. ASSUME NEW t \in Threads, ~ClearCaches,
             \/ \E w \in Weights, z \in ZeroPoints : Arrives(t, w, z)
             \/ ZpHits(t) \/ ZpMisses(t) \/ ZpFails(t) \/ ZpInserts(t)
             \/ WeightsAsGiven(t) \/ AlreadyBlocked(t) \/ CacheHits(t)
             \/ NothingAllocated(t) \/ InPlaceBegins(t) \/ InPlaceEnds(t)
      PROVE  AllHeld'
  <2>1. operand[t] = Null /\ (comp[t] = Null \/ comp' = comp)
    <3>1. pc[t] # "gemm" /\ (pc[t] \in {"out", "zp"} \/ comp' = comp)
      BY <1>1 DEF Arrives, ZpHits, ZpMisses, ZpFails, ZpInserts, WeightsAsGiven, AlreadyBlocked,
                  CacheHits, NothingAllocated, InPlaceBegins, InPlaceEnds, ToReorder,
                  Enters, Takes
    <3> QED BY <3>1 DEF CallInv, HandOf
  <2>2. heap' = heap
    BY <1>1, <1>c, <1>d
       DEF Arrives, ZpHits, ZpMisses, ZpFails, ZpInserts, WeightsAsGiven, AlreadyBlocked,
           CacheHits, NothingAllocated, InPlaceBegins, InPlaceEnds, shared
  <2>3. \A u \in Threads \ {t} : UNCHANGED <<comp[u], operand[u]>>
    BY <1>1, OthersUntouched
  <2> QED BY <1>1, <2>1, <2>2, <2>3, HandsKept, NullIsNobody
<1>2. ASSUME NEW t \in Threads, ~ClearCaches, ZpPeerWon(t)
      PROVE  AllHeld'
  <2>1. operand' = operand /\ heap' = Freed({comp[t]})
    BY <1>2 DEF ZpPeerWon
  <2>2. \A u \in Threads \ {t} : UNCHANGED <<comp[u], operand[u]>>
    BY <1>2, OthersUntouched
  <2>3. \A b \in Buffers : heap'[b] = IF b = comp[t] THEN Free ELSE heap[b]
    BY <2>1 DEF Freed
  <2> QED BY <1>2, <2>1, <2>2, <2>3, HandsKept
<1>3. ASSUME NEW t \in Threads, ~ClearCaches, NEW b \in Buffers,
             ZpSums(t, b) \/ ReorderUncached(t, b) \/ CachePacks(t, b)
      PROVE  AllHeld'
  <2>1. operand[t] = Null /\ (comp[t] = Null \/ comp' = comp) /\ HeldBy(t, b)'
    <3>1. pc[t] # "gemm" /\ (pc[t] = "sum" \/ comp' = comp)
      BY <1>3 DEF ZpSums, ReorderUncached, CachePacks, ToReorder, Enters, Takes
    <3>2. HeldBy(t, b)'
      BY <1>3 DEF ZpSums, ReorderUncached, CachePacks, Takes, HeldBy, TypeInv, TypeOK
    <3> QED BY <3>1, <3>2 DEF CallInv, HandOf
  <2>2. \A c \in Buffers : c # b => heap'[c] = heap[c]
    BY <1>3, <1>c, <1>d DEF ZpSums, ReorderUncached, CachePacks, TypeInv, TypeOK
  <2>3. \A u \in Threads \ {t} : UNCHANGED <<comp[u], operand[u]>>
    BY <1>3, OthersUntouched
  <2>4. Held(b)'
    BY <2>1 DEF Held
  <2> QED BY <1>3, <2>1, <2>2, <2>3, <2>4, HandsKept, NullIsNobody
<1>4. ASSUME NEW t \in Threads, ~ClearCaches, GemmEnds(t)
      PROVE  AllHeld'
  <2> DEFINE gone == (IF setting.cacheType = 0 THEN {operand[t]} ELSE {})
                      \cup (IF ~setting.zpCache \/ WeiZp(t) # 0 THEN {comp[t]} ELSE {})
  <2>1. heap' = Freed(gone) /\ UNCHANGED <<packs, comps>> /\ pc[t] = "gemm"
    BY <1>4 DEF GemmEnds
  <2>2. \A u \in Threads \ {t} : UNCHANGED <<comp[u], operand[u]>>
    BY <1>4, OthersUntouched
  <2>3. operand[t] \in Buffers /\ operand[t] \notin gone => HeldIn(W(t), operand[t])
    <3>1. operand[t] \notin gone => setting.cacheType # 0
      OBVIOUS
    <3> QED BY <3>1, NullIsNobody DEF PackInv, OperandOf, HeldIn
  <2>4. comp[t] \in Buffers /\ comp[t] \notin gone => HeldIn(W(t), comp[t])
    <3> SUFFICES ASSUME comp[t] \in Buffers, comp[t] \notin gone PROVE HeldIn(W(t), comp[t])
      OBVIOUS
    <3>1. setting.zpCache /\ WeiZp(t) = 0
      OBVIOUS
    <3>2. call[t].zp \in setting.zps /\ call[t].zp # <<0, 0>>
      BY <2>1, NullIsNobody DEF CallInv, HandOf
    <3>3. setting \in Settings /\ call[t].zp \in Nat \X Nat
      BY ZeroPointsArePairs DEF TypeInv, TypeOK, Calls
    <3>4. SrcZp(t) # 0
      BY <3>1, <3>2, <3>3 DEF SrcZp, WeiZp
    <3>5. setting.const = Weights
      BY <3>1, <3>2, <3>3, <3>4 DEF CacheableIsCached, SrcZp, WeiZp
    <3>6. ~OwnsComp(t)
      BY <1>b, <2>1, <3>1, <3>4, <3>5 DEF OwnsComp, CanCache
    <3> QED BY <3>6, NullIsNobody DEF CompInv, SumsOf, HeldIn
  <2> SUFFICES ASSUME NEW b \in Buffers, heap'[b] # Free PROVE Held(b)'
    BY DEF AllHeld
  <2>5. b \notin gone /\ heap[b] # Free
    BY <2>1 DEF Freed
  <2>6. Held(b)
    BY <2>5 DEF AllHeld
  <2> HIDE DEF gone
  <2>7. ASSUME NEW w \in Weights, HeldIn(w, b) PROVE Held(b)'
    BY <2>1, <2>7 DEF HeldIn, Held
  <2>8. ASSUME NEW u \in Threads, HeldBy(u, b) PROVE Held(b)'
    <3>1. CASE u = t
      BY <1>b, <2>3, <2>4, <2>5, <2>7, <2>8, <3>1 DEF HeldBy
    <3>2. CASE u # t
      BY <2>2, <2>8, <3>2 DEF HeldBy, Held
    <3> QED BY <3>1, <3>2
  <2> QED BY <2>6, <2>7, <2>8 DEF Held
<1>5. ASSUME ClearCaches PROVE AllHeld'
  <2>1. \A t \in Threads : operand[t] = Null /\ comp[t] = Null
    BY <1>5 DEF ClearCaches, CallInv, HandOf
  <2>2. heap' = Freed(LruHeld(packs) \cup LruHeld(comps))
    BY <1>5 DEF ClearCaches
  <2>3. \A b \in Buffers : heap'[b] # Free =>
          heap[b] # Free /\ b \notin LruHeld(packs) /\ b \notin LruHeld(comps)
    BY <2>2 DEF Freed
  <2>4. ASSUME NEW b \in Buffers, NEW w \in Weights, HeldIn(w, b)
        PROVE  b \in LruHeld(packs) \/ b \in LruHeld(comps)
    BY <2>4, NullIsNobody DEF HeldIn, LruHeld
  <2> QED BY <2>1, <2>3, <2>4, NullIsNobody DEF AllHeld, Held, HeldBy
<1>6. ASSUME UNCHANGED vars PROVE AllHeld'
  BY <1>6 DEF vars, AllHeld, Held, HeldBy, HeldIn
<1>7. \/ \E t \in Threads :
           \/ \E w \in Weights, z \in ZeroPoints : Arrives(t, w, z)
           \/ ZpHits(t) \/ ZpMisses(t) \/ ZpFails(t) \/ ZpInserts(t)
           \/ WeightsAsGiven(t) \/ AlreadyBlocked(t) \/ CacheHits(t)
           \/ NothingAllocated(t) \/ InPlaceBegins(t) \/ InPlaceEnds(t)
      \/ \E t \in Threads : ZpPeerWon(t)
      \/ \E t \in Threads, b \in Buffers :
            ZpSums(t, b) \/ ReorderUncached(t, b) \/ CachePacks(t, b)
      \/ \E t \in Threads : GemmEnds(t)
      \/ ClearCaches \/ UNCHANGED vars
  BY StepKinds
<1> QED BY <1>1, <1>2, <1>3, <1>4, <1>5, <1>6, <1>7

(* Without eviction, and where a source zero point that may be cached comes
   with constant weights, every live block has a cache entry or a call, and a
   block without an entry has one call at most: nothing leaks and nothing is
   freed twice (aocl_kernel.cpp:1521-1534, lowoha_cache.hpp:130-145). *)
THEOREM BlocksAreOwned ==
    ASSUME NothingIsEvicted, CacheableIsCached
    PROVE  Spec => []EveryBlockIsOwned
<1>1. PackReads /\ AllHeld /\ [Next]_vars => AllHeld'
  BY HeldStep
<1>2. Spec => [](PackReads /\ AllHeld)
  BY <1>1, PackReadsHold, HeldInit, PTL DEF Spec
<1>3. PackReads /\ AllHeld => EveryBlockIsOwned
  <2> SUFFICES ASSUME PackReads, AllHeld, NEW b \in Buffers
               PROVE  /\ heap[b] # Free => CacheEntriesOf(b) # {} \/ CallsWith(b) # {}
                      /\ CacheEntriesOf(b) = {} => Cardinality(CallsWith(b)) <= 1
    BY DEF EveryBlockIsOwned
  <2>1. heap[b] # Free => CacheEntriesOf(b) # {} \/ CallsWith(b) # {}
    BY DEF AllHeld, Held, HeldIn, HeldBy, CacheEntriesOf, CallsWith
  <2>2. ASSUME CacheEntriesOf(b) = {}, NEW t \in CallsWith(b), NEW u \in CallsWith(b)
        PROVE  t = u
    <3>1. \A w \in Weights : packs.val[w] # b /\ comps.val[w] # b
      BY <2>2 DEF CacheEntriesOf
    <3>2. /\ t \in Threads /\ u \in Threads
          /\ operand[t] = b \/ comp[t] = b
          /\ operand[u] = b \/ comp[u] = b
          /\ b # Null
      BY NullIsNobody DEF CallsWith
    <3>3. W(t) \in Weights /\ W(u) \in Weights
      BY <3>2 DEF PackReads, W, TypeInv, TypeOK, Calls
    <3>4. \A r \in Threads : comp[r] = b => OwnsComp(r)
      BY <3>1, <3>2 DEF PackReads, CompInv, SumsOf, W, TypeInv, TypeOK, Calls
    <3>5. CASE comp[t] = b /\ comp[u] = b
      BY <3>2, <3>4, <3>5 DEF PackReads, CompInv, SumsOf
    <3>6. ASSUME NEW r \in Threads, operand[r] = b
          PROVE  /\ \A q \in Threads : comp[q] # b
                 /\ setting.cacheType = 0
      <4>1. W(r) \in Weights /\ OperandOf(r)
        BY DEF PackReads, PackInv, W, TypeInv, TypeOK, Calls
      <4>2. heap[b] = Pack(W(r), TRUE)
        BY <3>2, <3>6, <4>1 DEF OperandOf
      <4> QED BY <3>1, <3>2, <3>6, <4>1, <4>2, SumsAreNoPack DEF OperandOf, PackReads
    <3>7. CASE operand[t] = b /\ operand[u] = b
      BY <3>2, <3>6, <3>7 DEF PackReads, PackInv, OperandsDiffer
    <3> QED BY <3>2, <3>5, <3>6, <3>7
  <2>3. ASSUME CacheEntriesOf(b) = {} PROVE Cardinality(CallsWith(b)) <= 1
    <3>1. CASE CallsWith(b) = {}
      BY <3>1, FS_EmptySet
    <3>2. CASE CallsWith(b) # {}
      <4>1. PICK t \in CallsWith(b) : TRUE
        BY <3>2
      <4>2. CallsWith(b) = {t}
        BY <2>2, <2>3, <4>1
      <4> QED BY <4>2, FS_Singleton
    <3> QED BY <3>1, <3>2
  <2> QED BY <2>1, <2>3
<1> QED BY <1>2, <1>3, PTL
----------------------------------------------------------------------------
(* Compensation.  Cached sums are clean and of the one source zero point; a
   call's sums are clean and its own, except that a caller about to insert may
   have summed weights a peer has reordered, and then the peer has inserted;
   and a weight is reordered in place only when its sums are cached or no
   source has a zero point. *)

Cacheable(z) == setting.zpCache /\ z[1] # 0 /\ z[2] = 0

KeyClean(w) ==
    comps.val[w] \in Buffers =>
        \E z \in setting.zps : Cacheable(z) /\ heap[comps.val[w]] = Comp(w, z, TRUE)

HandClean(t) ==
    comp[t] # Null =>
        \/ heap[comp[t]] = Comp(W(t), call[t].zp, TRUE)
        \/ /\ pc[t] = "insert" /\ comps.val[W(t)] # Absent
           /\ heap[comp[t]] = Comp(W(t), call[t].zp, FALSE)

SummedFirst ==
    \A w \in Weights \ Prepacked :
        user[w] # "raw" => (\A z \in setting.zps : z[1] = 0) \/ comps.val[w] # Absent

CleanInv ==
    /\ \A w \in Weights : KeyClean(w)
    /\ \A t \in Threads : HandClean(t)
    /\ SummedFirst

LEMMA CleanInit == Init => CleanInv
<1> SUFFICES ASSUME Init PROVE CleanInv
  OBVIOUS
<1>1. \A w \in Weights : comps.val[w] = Absent
  BY DEF Init, LruEmpty
<1>2. \A t \in Threads : comp[t] = Null
  BY DEF Init
<1>3. \A w \in Weights \ Prepacked : user[w] = "raw"
  BY DEF Init, Original
<1> QED BY <1>1, <1>2, <1>3, NullIsNobody DEF CleanInv, KeyClean, HandClean, SummedFirst

\* A block of sums that is cached, or stays in a hand, stays as it is.
LEMMA SumsStay ==
    ASSUME NothingIsEvicted, PackReads, [Next]_vars, ~ClearCaches
    PROVE  /\ \A w \in Weights : comps.val[w] \in Buffers =>
                 heap'[comps.val[w]] = heap[comps.val[w]]
           /\ \A u \in Threads : comp[u] # Null /\ comp'[u] = comp[u] =>
                 heap'[comp[u]] = heap[comp[u]]
<1> USE DEF PackReads
<1>a. Freed({}) = heap
  BY DEF Freed, TypeInv, TypeOK
<1>b. \A t \in Threads : LruFreedByAdd(packs, Capacity) = {} /\ LruFreedByAdd(comps, Capacity) = {}
  <2>1. packs \in LruStates(Buffers \cup {Null}) /\ comps \in LruStates(Buffers)
    BY DEF TypeInv, TypeOK
  <2>2. \A t \in Threads : W(t) \in Weights
    BY DEF W, TypeInv, TypeOK, Calls
  <2> QED BY <2>1, <2>2, AddKeeps
<1>c. /\ \A w \in Weights : comps.val[w] \in Buffers => heap[comps.val[w]] # Free
      /\ \A u \in Threads : comp[u] # Null => comp[u] \in Buffers /\ heap[comp[u]] # Free
  BY KindsDiffer DEF CompInv, KeySums, SumsOf, IsCompOf, TypeInv, TypeOK
<1>1. CASE \A b \in Buffers : heap[b] # Free => heap'[b] = heap[b]
  BY <1>c, <1>1
<1>2. ASSUME NEW t \in Threads, ZpPeerWon(t)
      PROVE  /\ \A w \in Weights : comps.val[w] \in Buffers =>
                   heap'[comps.val[w]] = heap[comps.val[w]]
             /\ \A u \in Threads : comp[u] # Null /\ comp'[u] = comp[u] =>
                   heap'[comp[u]] = heap[comp[u]]
  <2>1. /\ W(t) \in Weights /\ pc[t] = "insert" /\ comp[t] # Null
        /\ comp'[t] = comps.val[W(t)]
    BY <1>2, NullIsNobody DEF ZpPeerWon, W, Calls, TypeInv, TypeOK, SumsInHand
  <2>2. /\ \A w \in Weights : comps.val[w] # comp[t]
        /\ \A u \in Threads \ {t} : comp[u] # comp[t]
    BY <2>1 DEF CompInv, SumsOf, OwnsComp
  <2>3. \A b \in Buffers : b # comp[t] => heap'[b] = heap[b]
    BY <1>2 DEF ZpPeerWon, Freed
  <2> QED BY <1>c, <2>1, <2>2, <2>3
<1>3. ASSUME NEW t \in Threads, GemmEnds(t)
      PROVE  /\ \A w \in Weights : comps.val[w] \in Buffers =>
                   heap'[comps.val[w]] = heap[comps.val[w]]
             /\ \A u \in Threads : comp[u] # Null /\ comp'[u] = comp[u] =>
                   heap'[comp[u]] = heap[comp[u]]
  <2>1. heap' = Freed(GoneWith(t)) /\ comp'[t] = Null
    BY <1>3 DEF GemmEnds, GoneWith, TypeInv, TypeOK
  <2>2. \A b \in Buffers : b \notin GoneWith(t) => heap'[b] = heap[b]
    BY <2>1 DEF Freed
  <2>3. ASSUME NEW w \in Weights, comps.val[w] \in Buffers
        PROVE  comps.val[w] \notin GoneWith(t)
    BY <2>3, GoneIsPrivate
  <2>4. ASSUME NEW u \in Threads, comp[u] # Null, comp'[u] = comp[u]
        PROVE  comp[u] \in Buffers /\ comp[u] \notin GoneWith(t)
    <3>1. u # t
      BY <2>1, <2>4
    <3> QED BY <1>c, <2>4, <3>1, GoneIsPrivate
  <2> QED BY <2>2, <2>3, <2>4
<1>4. ASSUME NEW t \in Threads,
             \/ \E w \in Weights, z \in ZeroPoints : Arrives(t, w, z)
             \/ ZpHits(t) \/ ZpMisses(t) \/ ZpFails(t) \/ ZpInserts(t)
             \/ WeightsAsGiven(t) \/ AlreadyBlocked(t) \/ CacheHits(t)
             \/ NothingAllocated(t) \/ InPlaceBegins(t) \/ InPlaceEnds(t)
      PROVE  heap' = heap
  BY <1>a, <1>b, <1>4
     DEF Arrives, ZpHits, ZpMisses, ZpFails, ZpInserts, WeightsAsGiven, AlreadyBlocked,
         CacheHits, NothingAllocated, InPlaceBegins, InPlaceEnds, shared
<1>5. ASSUME NEW t \in Threads, NEW b \in Buffers,
             ZpSums(t, b) \/ ReorderUncached(t, b) \/ CachePacks(t, b)
      PROVE  heap[b] = Free /\ \A c \in Buffers \ {b} : heap'[c] = heap[c]
  BY <1>5, <1>a, <1>b DEF ZpSums, ReorderUncached, CachePacks, Unused, TypeInv, TypeOK
<1>6. UNCHANGED vars => heap' = heap
  BY DEF vars
<1>7. \/ \E t \in Threads : ZpPeerWon(t)
      \/ \E t \in Threads : GemmEnds(t)
      \/ heap' = heap
      \/ \E b \in Buffers : heap[b] = Free /\ \A c \in Buffers \ {b} : heap'[c] = heap[c]
  BY <1>4, <1>5, <1>6, StepKinds
<1> QED BY <1>1, <1>2, <1>3, <1>7

\* A caller's own sums, and those of the entry it reads, are clean next.
LEMMA OtherSumsClean ==
    ASSUME NothingIsEvicted, PackReads, CleanInv, [Next]_vars, ~ClearCaches,
           NEW u \in Threads, UNCHANGED <<pc[u], call[u], comp[u]>>
    PROVE  HandClean(u)'
<1>1. CASE comp[u] = Null
  BY <1>1 DEF HandClean
<1>2. CASE comp[u] # Null
  <2>1. heap'[comp[u]] = heap[comp[u]] /\ W(u)' = W(u) /\ W(u) \in Weights /\ HandClean(u)
    BY <1>2, SumsStay DEF CleanInv, W, PackReads, TypeInv, TypeOK, Calls
  <2>2. comps.val[W(u)] # Absent => comps'.val[W(u)] # Absent
    BY <2>1, EntriesKept DEF PackReads
  <2> QED BY <1>2, <2>1, <2>2 DEF HandClean
<1> QED BY <1>1, <1>2

LEMMA CleanStep ==
    ASSUME NothingIsEvicted, OneSourceZp, CompBeforeInPlace, PackReads, CleanInv,
           [Next]_vars
    PROVE  CleanInv'
<1> USE DEF PackReads
<1>a. /\ comps \in LruStates(Buffers) /\ comps.val \in [Weights -> Buffers \cup {Absent}]
      /\ setting \in Settings
  BY DEF TypeInv, TypeOK, LruStates
<1>b. \A t \in Threads : W(t) \in Weights /\ call[t].zp \in ZeroPoints /\ call[t].zp \in Nat \X Nat
  BY ZeroPointsArePairs DEF W, TypeInv, TypeOK, Calls
<1>c. \A w \in Weights \ Prepacked : user[w] # "raw" => MayBeBlocked(w)
  BY DEF WeightInv, AloneInPlace, WeightsAsRecorded, InPlaceOn
\* The one cacheable zero point.
<1>d. \A y, z \in setting.zps : Cacheable(y) /\ Cacheable(z) => y = z
  BY <1>a DEF OneSourceZp, Cacheable
<1>e. \A t \in Threads : CanCache(t) => Cacheable(call[t].zp) /\ W(t) \in setting.const
  BY DEF CanCache, Cacheable, SrcZp, WeiZp
\* A blocked weight's callers with a source zero point can sum and cache.
<1>f. ASSUME NEW t \in Threads, MayBeBlocked(W(t)), call[t].zp \in setting.zps,
             ~ \A z \in setting.zps : z[1] = 0
      PROVE  CanCache(t) /\ "sums" \notin setting.fail
  BY <1>a, <1>f DEF CompBeforeInPlace, MayBeBlocked, CanCache, SrcZp, WeiZp
\* Entries that were there are as clean as they were.
<1>g. ASSUME ~ClearCaches, UNCHANGED setting, NEW w \in Weights,
             comps'.val[w] \in Buffers => comps'.val[w] = comps.val[w]
      PROVE  KeyClean(w)'
  <2> SUFFICES ASSUME comps'.val[w] \in Buffers
               PROVE  \E z \in setting'.zps :
                         Cacheable(z)' /\ heap'[comps'.val[w]] = Comp(w, z, TRUE)
    BY DEF KeyClean
  <2>1. comps'.val[w] = comps.val[w] /\ heap'[comps.val[w]] = heap[comps.val[w]]
    BY <1>g, SumsStay
  <2>2. \E z \in setting.zps : Cacheable(z) /\ heap[comps.val[w]] = Comp(w, z, TRUE)
    BY <2>1 DEF CleanInv, KeyClean
  <2>3. \A z : Cacheable(z)' <=> Cacheable(z)
    BY <1>g DEF Cacheable
  <2> QED BY <1>g, <2>1, <2>2, <2>3
\* Unless a step reorders in place, sums stay cached where they must.
<1>h. ASSUME ~ClearCaches, UNCHANGED setting,
             \A w \in Weights \ Prepacked :
                user'[w] # "raw" => \/ user[w] # "raw"
                                    \/ \A z \in setting.zps : z[1] = 0
                                    \/ comps.val[w] # Absent
      PROVE  SummedFirst'
  BY <1>h, EntriesKept DEF CleanInv, SummedFirst
<1>1. ASSUME NEW t \in Threads, ~ClearCaches,
             \/ \E w \in Weights, z \in ZeroPoints : Arrives(t, w, z)
             \/ ZpMisses(t) \/ ZpFails(t)
             \/ WeightsAsGiven(t) \/ AlreadyBlocked(t) \/ CacheHits(t)
             \/ NothingAllocated(t) \/ InPlaceBegins(t) \/ InPlaceEnds(t)
             \/ \E b \in Buffers : ReorderUncached(t, b) \/ CachePacks(t, b)
             \/ GemmEnds(t)
      PROVE  CleanInv'
  <2>1. /\ UNCHANGED <<setting, comps>>
        /\ \/ comp'[t] = Null
           \/ comp' = comp /\ call' = call /\ pc[t] # "insert" /\ W(t)' = W(t)
    BY <1>1
       DEF Arrives, ZpMisses, ZpFails, WeightsAsGiven, AlreadyBlocked, CacheHits, NothingAllocated,
           InPlaceBegins, InPlaceEnds, ReorderUncached, CachePacks, GemmEnds, ToReorder,
           Enters, Takes, shared, W, CallInv, HandOf, TypeInv, TypeOK
  <2>2. \A u \in Threads \ {t} : UNCHANGED <<pc[u], call[u], comp[u]>>
    BY <1>1, OthersUntouched
  <2>3. HandClean(t)'
    <3>1. CASE comp'[t] = Null
      BY <3>1 DEF HandClean
    <3>2. CASE comp'[t] # Null
      <4>1. heap'[comp[t]] = heap[comp[t]] /\ HandClean(t) /\ comp'[t] = comp[t]
        BY <1>1, <2>1, <3>2, SumsStay DEF CleanInv
      <4> QED BY <2>1, <3>2, <4>1 DEF HandClean
    <3> QED BY <3>1, <3>2
  <2>4. SummedFirst'
    <3>1. CASE user' = user
      BY <1>1, <1>h, <2>1, <3>1
    <3>2. CASE InPlaceEnds(t)
      <4>1. user[W(t)] = "blocking" /\ \A w \in Weights : w # W(t) => user'[w] = user[w]
        BY <3>2 DEF InPlaceEnds, WeightInv, AloneInPlace, TypeInv, TypeOK
      <4> QED BY <1>1, <1>h, <2>1, <4>1
    <3>3. CASE InPlaceBegins(t)
      <4>1. /\ \A w \in Weights : w # W(t) => user'[w] = user[w]
            /\ MayBeBlocked(W(t)) /\ W(t) \notin Prepacked /\ pc[t] = "reorder"
        BY <3>3 DEF InPlaceBegins, Enters, ToReorder, MayRunInPlace, MayBeBlocked, TypeInv, TypeOK
      <4>2. call[t].zp \in setting.zps
        BY <4>1 DEF CallInv, HandOf
      <4>3. CASE \A z \in setting.zps : z[1] = 0
        BY <1>1, <1>h, <2>1, <4>3
      <4>4. CASE ~ \A z \in setting.zps : z[1] = 0
        <5>1. CanCache(t) /\ "sums" \notin setting.fail
          BY <1>f, <4>1, <4>2, <4>4
        <5>2. comp[t] # Null /\ ~OwnsComp(t)
          <6>1. call[t].zp # <<0, 0>>
            BY <5>1 DEF CanCache, SrcZp
          <6> QED BY <4>1, <5>1, <6>1 DEF CallInv, HandOf, OwnsComp
        <5>3. comps.val[W(t)] # Absent
          BY <5>2, NullIsNobody DEF CompInv, SumsOf, TypeInv, TypeOK
        <5> QED BY <1>1, <1>h, <2>1, <4>1, <5>3
      <4> QED BY <4>3, <4>4
    <3>4. user' = user \/ InPlaceEnds(t) \/ InPlaceBegins(t)
      BY <1>1 DEF Arrives, ZpMisses, ZpFails, WeightsAsGiven, AlreadyBlocked, CacheHits,
                  NothingAllocated, ReorderUncached, CachePacks, GemmEnds, shared
    <3> QED BY <3>1, <3>2, <3>3, <3>4
  <2>5. \A u \in Threads \ {t} : HandClean(u)'
    BY <1>1, <2>2, OtherSumsClean
  <2>6. \A w \in Weights : KeyClean(w)'
    BY <1>1, <1>g, <2>1
  <2> QED BY <2>3, <2>4, <2>5, <2>6 DEF CleanInv
<1>2. ASSUME NEW t \in Threads, ~ClearCaches, ZpHits(t) \/ ZpPeerWon(t)
      PROVE  CleanInv'
  <2> DEFINE b == comps.val[W(t)]
  <2>1. /\ UNCHANGED <<setting, user, call>> /\ comps' = LruTouch(comps, W(t))
        /\ comps.val[W(t)] # Absent /\ comp'[t] = b
        /\ pc[t] = "insert" \/ CanCache(t)
    BY <1>2 DEF ZpHits, ZpPeerWon, LruHas, TypeInv, TypeOK
  <2>2. comps'.val = comps.val /\ b \in Buffers
    BY <1>a, <1>b, <2>1, TouchKeeps
  <2>3. CanCache(t) /\ call[t].zp \in setting.zps
    BY <1>2, <2>1 DEF ZpHits, ZpPeerWon, CallInv, HandOf
  <2>4. PICK z \in setting.zps : Cacheable(z) /\ heap[b] = Comp(W(t), z, TRUE)
    BY <1>b, <2>2 DEF CleanInv, KeyClean
  <2>5. z = call[t].zp
    BY <1>d, <1>e, <2>3, <2>4
  <2>6. heap'[b] = heap[b]
    BY <1>2, <1>b, <2>2, SumsStay
  <2> HIDE DEF b
  <2>7. HandClean(t)'
    BY <2>1, <2>4, <2>5, <2>6 DEF HandClean, W
  <2>8. \A u \in Threads \ {t} : HandClean(u)'
    BY <1>2, OthersUntouched, OtherSumsClean
  <2>9. \A w \in Weights : KeyClean(w)'
    BY <1>2, <1>g, <2>1, <2>2
  <2>10. SummedFirst'
    BY <1>2, <1>h, <2>1
  <2> QED BY <2>7, <2>8, <2>9, <2>10 DEF CleanInv
<1>3. ASSUME NEW t \in Threads, ~ClearCaches, NEW b \in Buffers, ZpSums(t, b)
      PROVE  CleanInv'
  <2> DEFINE clean == SrcZp(t) = 0 \/ user[W(t)] = "raw"
  <2>1. /\ UNCHANGED <<setting, user, comps, call>> /\ pc[t] = "sum"
        /\ comp'[t] = b /\ heap'[b] = Comp(W(t), call[t].zp, clean)
        /\ pc'[t] = IF CanCache(t) THEN "insert" ELSE "reorder"
    BY <1>3 DEF ZpSums, Goto, TypeInv, TypeOK
  <2>2. call[t].zp \in setting.zps /\ call[t].zp # <<0, 0>> /\ W(t) \notin Prepacked
    BY <2>1 DEF CallInv, HandOf
  <2>3. ASSUME clean PROVE HandClean(t)'
    <3>1. heap'[b] = Comp(W(t), call[t].zp, TRUE)
      <4>1. clean = TRUE
        BY <2>3
      <4> QED BY <2>1, <4>1
    <3> QED BY <2>1, <3>1 DEF HandClean, W
  <2>4. ASSUME ~clean PROVE HandClean(t)'
    <3>1. heap'[b] = Comp(W(t), call[t].zp, FALSE)
      <4>1. clean = FALSE
        BY <2>4
      <4> QED BY <2>1, <4>1
    <3>2. ~ \A z \in setting.zps : z[1] = 0
      BY <2>2, <2>4 DEF SrcZp
    <3>3. comps.val[W(t)] # Absent
      BY <1>b, <2>2, <2>4, <3>2 DEF CleanInv, SummedFirst
    <3>4. CanCache(t)
      BY <1>b, <1>c, <1>f, <2>2, <2>4, <3>2
    <3> QED BY <2>1, <3>1, <3>3, <3>4 DEF HandClean, W
  <2>5. HandClean(t)'
    BY <2>3, <2>4
  <2>6. \A u \in Threads \ {t} : HandClean(u)'
    BY <1>3, OthersUntouched, OtherSumsClean
  <2>7. \A w \in Weights : KeyClean(w)'
    BY <1>3, <1>g, <2>1
  <2>8. SummedFirst'
    BY <1>3, <1>h, <2>1
  <2> QED BY <2>5, <2>6, <2>7, <2>8 DEF CleanInv
<1>4. ASSUME NEW t \in Threads, ~ClearCaches, ZpInserts(t)
      PROVE  CleanInv'
  <2> DEFINE b == comp[t]
  <2>1. /\ UNCHANGED <<setting, user, call, comp>> /\ pc[t] = "insert" /\ b \in Buffers
        /\ comps.val[W(t)] = Absent /\ comps' = LruAdd(comps, Capacity, W(t), b)
    BY <1>4 DEF ZpInserts, LruHas, TypeInv, SumsInHand
  <2>2. heap[b] = Comp(W(t), call[t].zp, TRUE)
    BY <2>1, NullIsNobody DEF CleanInv, HandClean
  <2>3. heap'[b] = heap[b]
    BY <1>4, <2>1, SumsStay, NullIsNobody
  <2>4. Cacheable(call[t].zp) /\ call[t].zp \in setting.zps
    BY <1>e, <2>1 DEF CallInv, HandOf
  <2> HIDE DEF b
  <2>5. comps'.val = [comps.val EXCEPT ![W(t)] = b]
    BY <1>a, <1>b, <2>1, AddKeeps
  <2>6. HandClean(t)'
    BY <2>1, <2>2, <2>3 DEF HandClean, W, b
  <2>7. \A u \in Threads \ {t} : HandClean(u)'
    BY <1>4, OthersUntouched, OtherSumsClean
  <2>8. ASSUME NEW w \in Weights PROVE KeyClean(w)'
    <3>1. CASE w = W(t)
      BY <1>a, <2>1, <2>2, <2>3, <2>4, <2>5, <3>1 DEF KeyClean, Cacheable
    <3>2. CASE w # W(t)
      BY <1>4, <1>a, <1>g, <2>1, <2>5, <3>2
    <3> QED BY <3>1, <3>2
  <2>9. SummedFirst'
    BY <1>4, <1>h, <2>1
  <2> QED BY <2>6, <2>7, <2>8, <2>9 DEF CleanInv
<1>5. ASSUME ClearCaches PROVE CleanInv'
  <2>1. \A w \in Weights : comps'.val[w] = Absent
    BY <1>5 DEF ClearCaches, LruEmpty
  <2>2. \A t \in Threads : comp'[t] = Null
    BY <1>5 DEF ClearCaches, CallInv, HandOf
  <2>3. \A w \in Weights \ Prepacked : user'[w] = "raw"
    BY <1>5 DEF ClearCaches, Original
  <2> QED BY <2>1, <2>2, <2>3, NullIsNobody DEF CleanInv, KeyClean, HandClean, SummedFirst
<1>6. ASSUME UNCHANGED vars PROVE CleanInv'
  BY <1>6 DEF vars, CleanInv, KeyClean, HandClean, SummedFirst, Cacheable, W
<1>7. \/ \E t \in Threads :
           \/ \E w \in Weights, z \in ZeroPoints : Arrives(t, w, z)
           \/ ZpMisses(t) \/ ZpFails(t)
           \/ WeightsAsGiven(t) \/ AlreadyBlocked(t) \/ CacheHits(t)
           \/ NothingAllocated(t) \/ InPlaceBegins(t) \/ InPlaceEnds(t)
           \/ \E b \in Buffers : ReorderUncached(t, b) \/ CachePacks(t, b)
           \/ GemmEnds(t)
      \/ \E t \in Threads : ZpHits(t) \/ ZpPeerWon(t)
      \/ \E t \in Threads, b \in Buffers : ZpSums(t, b)
      \/ \E t \in Threads : ZpInserts(t)
      \/ ClearCaches \/ UNCHANGED vars
  BY StepKinds
<1> QED BY <1>1, <1>2, <1>3, <1>4, <1>5, <1>6, <1>7

(* Without eviction, with one cacheable source zero point, and with in-place
   caching only where sources are symmetric or every call sums first, which it
   cannot where its sums may fail to be allocated, the compensation is for the
   zero points of this very call and summed over plain weights, and missing only
   where it need not or could not be made (aocl_kernel.cpp:1033-1050,
   lowoha_cache.hpp:113, 156, 193). *)
THEOREM CompIsOwn ==
    ASSUME NothingIsEvicted, OneSourceZp, CompBeforeInPlace
    PROVE  Spec => []CompIsForThisCall
<1>1. PackReads /\ CleanInv /\ [Next]_vars => CleanInv'
  BY CleanStep
<1>2. Spec => [](PackReads /\ CleanInv)
  BY <1>1, PackReadsHold, CleanInit, PTL DEF Spec
<1>3. PackReads /\ CleanInv => CompIsForThisCall
  <2> SUFFICES ASSUME PackReads, CleanInv, NEW t \in Threads, pc[t] = "gemm"
               PROVE  /\ call[t].zp = <<0, 0>> => comp[t] = Null
                      /\ comp[t] = Null => call[t].zp = <<0, 0>> \/ "sums" \in setting.fail
                      /\ comp[t] # Null => heap[comp[t]] = Comp(W(t), call[t].zp, TRUE)
    BY DEF CompIsForThisCall
  <2>1. /\ call[t].zp = <<0, 0>> => comp[t] = Null
        /\ comp[t] = Null => call[t].zp = <<0, 0>> \/ "sums" \in setting.fail
    BY DEF PackReads, CallInv, HandOf
  <2> QED BY <2>1 DEF CleanInv, HandClean
<1> QED BY <1>2, <1>3, PTL
=============================================================================
