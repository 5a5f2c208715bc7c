---------------------------- MODULE MixedInplace ----------------------------
(***************************************************************************)
(* The AUTO mixed-in-place mode of the grouped matmul                      *)
(* (ZENDNNL_MATMUL_WEIGHT_CACHE=2, ZENDNNL_GRP_MATMUL_ALGO=0, bf16).       *)
(* A prompt call multiplies with the AOCL full-weight layout, a decode     *)
(* call with a custom-kernel (CK) pack.  The AOCL reorder overwrites the   *)
(* weights; it must come after every CK pack has been made from them.      *)
(*                                                                         *)
(* Four parts meet here: the dispatcher's verdict, the prepack of each     *)
(* phase behind the warm latch (module WarmOnce, which WarmLatch           *)
(* implements), and the two weight caches.  The process-wide mode is two   *)
(* relaxed atomics that each of them reads again, so a read is a step.     *)
(* Stores of one thread are seen in program order, as on x86.              *)
(***************************************************************************)
EXTENDS Integers, FiniteSets

CONSTANTS Threads,       \* framework threads
          Weights,       \* expert weight tensors
          Pools,         \* the weight sets calls name: subsets of Weights
          Layouts,       \* CK pack variants: how gate and up columns are laid
          PromptLayouts, \* those the prepack of a prompt call makes
          DecodeLayouts, \* those decode calls read
          Environments,  \* [algo, warmUp, flaky], see below
          Nobody

Phases == {"prompt", "decode"}

\* algo: "auto", or the one phase whose kernel a pinned algorithm uses.
\* warmUp: the framework's first call on a pool is a prompt and returns
\* before a decode call.  flaky: weights whose CK pack may fail to allocate.
ASSUME MixedAssumption ==
    /\ Pools \subseteq SUBSET Weights
    /\ PromptLayouts \subseteq Layouts
    /\ DecodeLayouts \subseteq Layouts
    /\ Environments \subseteq [algo : {"auto"} \cup Phases, warmUp : BOOLEAN,
                         flaky : SUBSET Weights]
    /\ Nobody \notin Threads
    /\ Weights # {} /\ Layouts # {}

VARIABLES env,      \* the environment, fixed in a process
          wc,       \* matmul_config_t::matmul_weight_cache
          mixed,    \* matmul_config_t::grp_auto_mixed_inplace
          warm, role, at, \* the warm latch
          warmedFps, \* s_warmed_fps, of calls outside mixed mode
          served,   \* pools a prompt call has returned from
          buf,      \* what each weight buffer holds
          aocl,     \* the AOCL weight cache: a copy, or the buffer itself
          ck,       \* the CK pack cache
          holder,   \* who is inside the AOCL cache's mutex
          pc, job,  \* where each thread is, in which call
          plan,     \* the order of the warms
          whole,    \* cross_warm_complete so far
          wct,      \* a weight-cache type read earlier and still in use
          inPlace,  \* ck_in_place
          todo, on, \* weights still to do, and the one being done
          operand   \* what the GEMM reads

config == <<wc, mixed>>
latch  == <<warm, role, at>>
caches == <<buf, aocl, ck, holder>>
calls  == <<job, warmedFps, served>>
local  == <<plan, whole, wct, inPlace, todo, on, operand>>
vars   == <<env, config, latch, calls, caches, pc, local>>

Keys == Pools \X {1, 2}
Once == INSTANCE WarmOnce

Jobs == [phase : Phases, pool : Pools, layout : Layouts]
PcStates ==
    {"out", "gateSet", "mode", "name", "arrive", "wait", "probe",
     "order", "ck", "ckFlag", "ckLoop", "downgrade", "downgraded",
     "aocl", "aoclFlag", "aoclType", "aoclLoop", "aoclCopy", "warmed",
     "compute", "reorder", "reorderCopy", "ckMode", "ckFetch", "gemm"}

TypeOK ==
    /\ env \in Environments
    /\ wc \in {1, 2} /\ mixed \in BOOLEAN
    /\ warm \in [Keys -> {"cold", "warming", "warm"}]
    /\ role \in [Threads -> {"out", "owner", "waiter", "through"}]
    /\ at \in [Threads -> Keys]
    /\ warmedFps \subseteq Jobs \X {1, 2}
    /\ served \subseteq Pools
    /\ buf \in [Weights -> {"raw", "torn", "aocl", "ck", "junk"}]
    /\ aocl \in [Weights -> {"none", "user", "good", "bad"}]
    /\ ck \in [Weights \X Layouts -> {"none", "user", "good", "bad"}]
    /\ holder \in Threads \cup {Nobody}
    /\ pc \in [Threads -> PcStates]
    /\ job \in [Threads -> Jobs]
    /\ plan \in [Threads -> {"mixed", "plain", "decode"}]
    /\ whole \in [Threads -> BOOLEAN]
    /\ wct \in [Threads -> {1, 2}]
    /\ inPlace \in [Threads -> BOOLEAN]
    /\ todo \in [Threads -> SUBSET Weights]
    /\ on \in [Threads -> Weights]
    /\ operand \in [Threads -> {"user", "good", "bad", "plain"}]

AnyWeight == CHOOSE w \in Weights : TRUE

Init ==
    /\ env \in Environments
    /\ wc = 2 /\ mixed = FALSE
    /\ Once!OnceInit /\ \E k \in Keys : at = [t \in Threads |-> k]
    /\ warmedFps = {} /\ served = {}
    /\ buf = [w \in Weights |-> "raw"]
    /\ aocl = [w \in Weights |-> "none"]
    /\ ck = [x \in Weights \X Layouts |-> "none"]
    /\ holder = Nobody
    /\ pc = [t \in Threads |-> "out"]
    /\ job = [t \in Threads |-> CHOOSE j \in Jobs : TRUE]
    /\ plan = [t \in Threads |-> "plain"]
    /\ whole = [t \in Threads |-> TRUE]
    /\ wct = [t \in Threads |-> 1]
    /\ inPlace = [t \in Threads |-> FALSE]
    /\ todo = [t \in Threads |-> {}]
    /\ on = [t \in Threads |-> AnyWeight]
    /\ operand = [t \in Threads |-> "plain"]

Goto(t, label) == pc' = [pc EXCEPT ![t] = label]
Pool(t) == job[t].pool
Slot(t, w) == <<w, job[t].layout>>
Active == wc = 2 /\ mixed       \* is_grp_auto_mixed_inplace_active
FromRaw(w) == IF buf[w] = "raw" THEN "good" ELSE "bad"

\* A step that only changes t's place, its locals apart.
Moves(t, label) ==
    Goto(t, label) /\ UNCHANGED <<env, config, latch, calls, caches>>
----------------------------------------------------------------------------
(* The call and the dispatcher's verdict (group_matmul_dispatch.cpp). *)

\* The gate reads the type first.
Call(t, j) ==
    /\ pc[t] = "out"
    /\ j.layout \in IF j.phase = "prompt" THEN PromptLayouts ELSE DecodeLayouts
    /\ env.algo \in {"auto", j.phase}
    /\ env.warmUp /\ j.phase = "decode" => j.pool \in served
    /\ job' = [job EXCEPT ![t] = j]
    /\ Goto(t, IF wc = 2 THEN "gateSet" ELSE "mode")
    /\ UNCHANGED <<env, config, latch, warmedFps, served, caches, local>>

\* Mutation: the verdict is reached and not stored.
GateSets_Nothing(t) ==
    /\ pc[t] = "gateSet"
    /\ Moves(t, "mode")
    /\ UNCHANGED local

GateSets(t) ==
    /\ pc[t] = "gateSet"
    /\ mixed' = (env.algo = "auto")
    /\ Goto(t, "mode")
    /\ UNCHANGED <<env, wc, latch, calls, caches, local>>
----------------------------------------------------------------------------
(* prelude: the warm latch in mixed mode, insert-and-go otherwise. *)

\* The two loads count as one: the gate of this call has set the flag, and
\* whoever clears it has changed wc before.
PreludeReadsMode(t) ==
    /\ pc[t] = "mode"
    /\ Moves(t, IF Active THEN "name" ELSE "probe")
    /\ UNCHANGED local

\* weight_pool_fingerprint folds the cache type in, as it is by now.
Names(t) ==
    /\ pc[t] = "name"
    /\ Once!Name(t, <<Pool(t), wc>>)
    /\ Goto(t, "arrive")
    /\ UNCHANGED <<env, config, calls, caches, local>>

PcOfRole(r) ==
    IF r = "owner" THEN "order" ELSE IF r = "waiter" THEN "wait" ELSE "compute"

Arrives(t) ==
    /\ pc[t] = "arrive"
    /\ Once!Arrive(t)
    /\ Goto(t, PcOfRole(role'[t]))
    /\ UNCHANGED <<env, config, calls, caches, local>>

IsReleased(t) ==
    /\ pc[t] = "wait"
    /\ Once!Release(t)
    /\ Goto(t, "compute")
    /\ UNCHANGED <<env, config, calls, caches, local>>

Probes(t) ==
    /\ pc[t] = "probe"
    /\ Goto(t, IF <<job[t], wc>> \in warmedFps THEN "compute" ELSE "order")
    /\ warmedFps' = warmedFps \cup {<<job[t], wc>>}
    /\ UNCHANGED <<env, config, latch, job, served, caches, local>>
----------------------------------------------------------------------------
(* The body of prepack_for_algo_N.  A prompt call reads the mode again and
   orders its two warms by it; decode packs for itself, then crosses over. *)

\* Mutation: the order of out-of-place mode is used in both.
Orders_PrimaryFirst(t) ==
    /\ pc[t] = "order"
    /\ LET p == IF job[t].phase = "decode" THEN "decode" ELSE "plain"
       IN /\ plan' = [plan EXCEPT ![t] = p]
          /\ Moves(t, IF p = "plain" THEN "aocl" ELSE "ck")
    /\ UNCHANGED <<whole, wct, inPlace, todo, on, operand>>

Orders(t) ==
    /\ pc[t] = "order"
    /\ LET p == IF job[t].phase = "decode" THEN "decode"
                ELSE IF Active THEN "mixed" ELSE "plain"
       IN /\ plan' = [plan EXCEPT ![t] = p]
          /\ Moves(t, IF p = "plain" THEN "aocl" ELSE "ck")
    /\ UNCHANGED <<whole, wct, inPlace, todo, on, operand>>

\* warm_custom: the type is read, and with 2 the flag; if that says no,
\* nothing is attempted and nothing counts as skipped.
CkWarmReadsType(t) ==
    /\ pc[t] = "ck"
    /\ Moves(t, IF wc = 1 THEN "ckLoop" ELSE "ckFlag")
    /\ todo' = [todo EXCEPT ![t] = Pool(t)]
    /\ UNCHANGED <<plan, whole, wct, inPlace, on, operand>>

CkWarmReadsFlag(t) ==
    /\ pc[t] = "ckFlag"
    /\ Moves(t, "ckLoop")
    /\ todo' = [todo EXCEPT ![t] = IF mixed THEN @ ELSE {}]
    /\ UNCHANGED <<plan, whole, wct, inPlace, on, operand>>

\* One expert of the loop, out of place: a hit, a pack or a failure.
CkWarms(t, w) ==
    /\ pc[t] = "ckLoop" /\ w \in todo[t]
    /\ todo' = [todo EXCEPT ![t] = @ \ {w}]
    /\ ck' = [ck EXCEPT ![Slot(t, w)] = IF @ = "none" THEN FromRaw(w) ELSE @]
    /\ UNCHANGED <<env, config, latch, calls, buf, aocl, holder, pc,
                   plan, whole, wct, inPlace, on, operand>>

\* Mutation: a failed pack counts as packed.
CkWarmFails_Uncounted(t, w) ==
    /\ pc[t] = "ckLoop" /\ w \in todo[t] \cap env.flaky
    /\ ck[Slot(t, w)] = "none"
    /\ todo' = [todo EXCEPT ![t] = @ \ {w}]
    /\ UNCHANGED <<env, config, latch, calls, caches, pc,
                   plan, whole, wct, inPlace, on, operand>>

CkWarmFails(t, w) ==
    /\ pc[t] = "ckLoop" /\ w \in todo[t] \cap env.flaky
    /\ ck[Slot(t, w)] = "none"
    /\ todo' = [todo EXCEPT ![t] = @ \ {w}]
    /\ whole' = [whole EXCEPT ![t] = FALSE]
    /\ UNCHANGED <<env, config, latch, calls, caches, pc,
                   plan, wct, inPlace, on, operand>>

\* Only a mixed-mode prompt asks whether the decode layout is complete.
\* Mutation: nobody asks.
CkWarmEnds_Unasked(t) ==
    /\ pc[t] = "ckLoop" /\ todo[t] = {}
    /\ Moves(t, IF plan[t] = "plain" THEN "warmed" ELSE "aocl")
    /\ UNCHANGED local

CkWarmEnds(t) ==
    /\ pc[t] = "ckLoop" /\ todo[t] = {}
    /\ Moves(t, IF plan[t] = "plain" THEN "warmed"
                ELSE IF plan[t] = "mixed" /\ ~whole[t] THEN "downgrade"
                ELSE "aocl")
    /\ UNCHANGED local

\* Incomplete: the process goes out of place for good, the type first.
\* Mutation: caching is disabled instead.
DowngradesType_Off(t) ==
    /\ pc[t] = "downgrade"
    /\ wc' = 0
    /\ Goto(t, "downgraded")
    /\ UNCHANGED <<env, mixed, latch, calls, caches, local>>

DowngradesType(t) ==
    /\ pc[t] = "downgrade"
    /\ wc' = 1
    /\ Goto(t, "downgraded")
    /\ UNCHANGED <<env, mixed, latch, calls, caches, local>>

DowngradesFlag(t) ==
    /\ pc[t] = "downgraded"
    /\ mixed' = FALSE
    /\ Goto(t, "warmed")
    /\ UNCHANGED <<env, wc, latch, calls, caches, local>>

\* warm_aocl reads the type, the flag, and the flag again for warm_wct.
AoclWarmReadsType(t) ==
    /\ pc[t] = "aocl"
    /\ Moves(t, IF wc = 1 THEN "aoclLoop" ELSE "aoclFlag")
    /\ todo' = [todo EXCEPT ![t] = Pool(t)]
    /\ wct' = [wct EXCEPT ![t] = 1]
    /\ UNCHANGED <<plan, whole, inPlace, on, operand>>

AoclWarmReadsFlag(t) ==
    /\ pc[t] = "aoclFlag"
    /\ Moves(t, IF mixed THEN "aoclType" ELSE "aoclLoop")
    /\ todo' = [todo EXCEPT ![t] = IF mixed THEN @ ELSE {}]
    /\ UNCHANGED <<plan, whole, wct, inPlace, on, operand>>

AoclWarmReadsFlagAgain(t) ==
    /\ pc[t] = "aoclType"
    /\ Moves(t, "aoclLoop")
    /\ wct' = [wct EXCEPT ![t] = IF mixed THEN 2 ELSE 1]
    /\ UNCHANGED <<plan, whole, inPlace, todo, on, operand>>

AoclWarmEnds(t) ==
    /\ pc[t] = "aoclLoop" /\ todo[t] = {}
    /\ Moves(t, IF plan[t] = "plain" THEN "ck" ELSE "warmed")
    /\ UNCHANGED local

\* ~WarmGuard, when there is one.
WarmReturns(t) ==
    /\ pc[t] = "warmed"
    /\ IF role[t] = "owner" THEN Once!Complete(t) ELSE UNCHANGED latch
    /\ Goto(t, "compute")
    /\ plan' = [plan EXCEPT ![t] = "plain"]
    /\ whole' = [whole EXCEPT ![t] = TRUE]
    /\ wct' = [wct EXCEPT ![t] = 1]
    /\ on' = [on EXCEPT ![t] = AnyWeight]
    /\ UNCHANGED <<env, config, calls, caches, inPlace, todo, operand>>
----------------------------------------------------------------------------
(* reorderAndCacheWeights under its mutex, from the warm and from a prompt
   call's GEMM alike; allocations succeed (module RunDlp has the rest). *)

\* A prompt GEMM reads the type once more.
PromptComputes(t, w) ==
    /\ pc[t] = "compute" /\ job[t].phase = "prompt"
    /\ w \in Pool(t)
    /\ Moves(t, "reorder")
    /\ wct' = [wct EXCEPT ![t] = wc]
    /\ todo' = [todo EXCEPT ![t] = {w}]
    /\ UNCHANGED <<plan, whole, inPlace, on, operand>>

Reorders(t, w) == pc[t] \in {"aoclLoop", "reorder"} /\ w \in todo[t] /\ holder = Nobody

\* w is reordered; a warm goes on and a GEMM starts with value.
Reordered(t, w, value) ==
    /\ todo' = [todo EXCEPT ![t] = @ \ {w}]
    /\ on' = [on EXCEPT ![t] = w]
    /\ IF pc[t] \in {"aoclLoop", "aoclCopy"}
       THEN Goto(t, "aoclLoop") /\ UNCHANGED operand
       ELSE Goto(t, "gemm") /\ operand' = [operand EXCEPT ![t] = value]
    /\ UNCHANGED <<env, config, latch, calls, plan, whole, wct, inPlace>>

ReorderHits(t, w) ==
    /\ Reorders(t, w) /\ aocl[w] # "none"
    /\ Reordered(t, w, aocl[w])
    /\ UNCHANGED caches

ReordersOutOfPlace(t, w) ==
    /\ Reorders(t, w) /\ aocl[w] = "none" /\ wct[t] = 1
    /\ aocl' = [aocl EXCEPT ![w] = FromRaw(w)]
    /\ Reordered(t, w, FromRaw(w))
    /\ UNCHANGED <<buf, ck, holder>>

\* The interim copy is made and memcpy starts over the weights.
InPlaceBegins(t, w) ==
    /\ Reorders(t, w) /\ aocl[w] = "none" /\ wct[t] = 2
    /\ holder' = t
    /\ buf' = [buf EXCEPT ![w] = IF @ = "raw" THEN "torn" ELSE "junk"]
    /\ on' = [on EXCEPT ![t] = w]
    /\ Goto(t, IF pc[t] = "aoclLoop" THEN "aoclCopy" ELSE "reorderCopy")
    /\ UNCHANGED <<env, config, latch, calls, aocl, ck,
                   plan, whole, wct, inPlace, todo, operand>>

InPlaceEnds(t) ==
    /\ pc[t] \in {"aoclCopy", "reorderCopy"}
    /\ holder' = Nobody
    /\ buf' = [buf EXCEPT ![on[t]] = IF @ = "torn" THEN "aocl" ELSE "junk"]
    /\ aocl' = [aocl EXCEPT ![on[t]] = "user"]
    /\ Reordered(t, on[t], "user")
    /\ UNCHANGED ck
----------------------------------------------------------------------------
(* A decode call: prepare_for_call and get_or_pack_weight_bf16. *)

DecodeReadsType(t) ==
    /\ pc[t] = "compute" /\ job[t].phase = "decode"
    /\ Moves(t, "ckMode")
    /\ wct' = [wct EXCEPT ![t] = wc]
    /\ UNCHANGED <<plan, whole, inPlace, todo, on, operand>>

DecodeReadsMode(t) ==
    /\ pc[t] = "ckMode"
    /\ Moves(t, "ckFetch")
    /\ inPlace' = [inPlace EXCEPT ![t] = wct[t] = 2 /\ ~Active]
    /\ UNCHANGED <<plan, whole, wct, todo, on, operand>>

Decodes(t, w, value) ==
    /\ on' = [on EXCEPT ![t] = w]
    /\ operand' = [operand EXCEPT ![t] = value]
    /\ Goto(t, "gemm")
    /\ UNCHANGED <<env, config, latch, calls, aocl, holder,
                   plan, whole, wct, inPlace, todo>>

CkHits(t, w) ==
    /\ pc[t] = "ckFetch" /\ w \in Pool(t) /\ ck[Slot(t, w)] # "none"
    /\ Decodes(t, w, ck[Slot(t, w)])
    /\ UNCHANGED <<buf, ck>>

CkPacksOutOfPlace(t, w) ==
    /\ pc[t] = "ckFetch" /\ w \in Pool(t) /\ ck[Slot(t, w)] = "none"
    /\ ~inPlace[t]
    /\ ck' = [ck EXCEPT ![Slot(t, w)] = FromRaw(w)]
    /\ Decodes(t, w, FromRaw(w))
    /\ UNCHANGED buf

CkPacksInPlace(t, w) ==
    /\ pc[t] = "ckFetch" /\ w \in Pool(t) /\ ck[Slot(t, w)] = "none"
    /\ inPlace[t]
    /\ buf' = [buf EXCEPT ![w] = IF @ = "raw" THEN "ck" ELSE "junk"]
    /\ ck' = [ck EXCEPT ![Slot(t, w)] = "user"]
    /\ Decodes(t, w, "user")

\* prepare_for_call refuses: AOCL takes over and reads the plain weights.
CkRefuses(t, w) ==
    /\ pc[t] = "ckFetch" /\ w \in Pool(t) \cap env.flaky
    /\ ck[Slot(t, w)] = "none"
    /\ Decodes(t, w, "plain")
    /\ UNCHANGED <<buf, ck>>

\* The call returns; its locals are no more.
Returns(t) ==
    /\ pc[t] = "gemm"
    /\ IF role[t] = "through" THEN Once!Leave(t) ELSE UNCHANGED latch
    /\ served' = IF env.warmUp /\ job[t].phase = "prompt"
                 THEN served \cup {Pool(t)} ELSE served
    /\ Goto(t, "out")
    /\ job' = [job EXCEPT ![t] = CHOOSE j \in Jobs : TRUE]
    /\ wct' = [wct EXCEPT ![t] = 1]
    /\ inPlace' = [inPlace EXCEPT ![t] = FALSE]
    /\ on' = [on EXCEPT ![t] = AnyWeight]
    /\ operand' = [operand EXCEPT ![t] = "plain"]
    /\ UNCHANGED <<env, config, warmedFps, caches, plan, whole, todo>>

Step(t) ==
    \/ GateSets(t)
    \/ PreludeReadsMode(t) \/ Names(t) \/ Arrives(t) \/ IsReleased(t) \/ Probes(t)
    \/ Orders(t)
    \/ CkWarmReadsType(t) \/ CkWarmReadsFlag(t) \/ CkWarmEnds(t)
    \/ DowngradesType(t) \/ DowngradesFlag(t)
    \/ AoclWarmReadsType(t) \/ AoclWarmReadsFlag(t) \/ AoclWarmReadsFlagAgain(t)
    \/ AoclWarmEnds(t) \/ WarmReturns(t)
    \/ InPlaceEnds(t)
    \/ DecodeReadsType(t) \/ DecodeReadsMode(t)
    \/ \E w \in Weights :
          \/ CkWarms(t, w) \/ CkWarmFails(t, w)
          \/ PromptComputes(t, w)
          \/ ReorderHits(t, w) \/ ReordersOutOfPlace(t, w) \/ InPlaceBegins(t, w)
          \/ CkHits(t, w) \/ CkPacksOutOfPlace(t, w) \/ CkPacksInPlace(t, w)
          \/ CkRefuses(t, w)
    \/ Returns(t)

Next == \E t \in Threads : Step(t) \/ \E j \in Jobs : Call(t, j)

Spec == Init /\ [][Next]_vars
----------------------------------------------------------------------------
\* What the properties below rest on; MCMixedInplace breaks the first in the
\* instance with two layouts, and a failing pack outside the second is a
\* hazard the code does not cover.

\* The prepack of a prompt call makes the layout that decode calls read.
OneLayout == \A k, l \in PromptLayouts \cup DecodeLayouts : k = l

\* A CK pack fails only where a prompt call comes first and asks, or where no
\* pack is read.
FailuresAreAskedFor ==
    \A e \in Environments :
        e.flaky # {} => e.algo = "prompt" \/ (e.algo = "auto" /\ e.warmUp)

(* Whatever the phases, the downgrade and the other callers do, a GEMM reads
   the layout it was written for: the AOCL form, a CK pack made from raw
   weights, or plain weights that nobody is overwriting. *)
GemmReadsItsLayout ==
    \A t \in Threads : pc[t] = "gemm" =>
        \/ operand[t] = "good"
        \/ /\ operand[t] = "user"
           /\ buf[on[t]] = IF job[t].phase = "prompt" THEN "aocl" ELSE "ck"
        \/ operand[t] = "plain" /\ buf[on[t]] = "raw"

(* Exactly one layout may overwrite a weight, once: under AUTO the AOCL one
   (custom_kernel/dispatch.cpp:540-546), so a CK pack never does, and no
   reorder or pack ever runs over the result of another. *)
OneMutator ==
    \A w \in Weights :
        buf[w] \in {"raw"} \cup IF env.algo = "decode" THEN {"ck"}
                              ELSE {"torn", "aocl"}

(* Under AUTO the weights are overwritten only when every pack decode reads
   has been made from them, which holds whoever overwrites and whatever mode
   the others believe the process is in (prepack.cpp:1670-1684). *)
OverwrittenWhenPacked ==
    env.algo = "auto" =>
        \A w \in Weights, l \in DecodeLayouts :
            buf[w] # "raw" => ck[<<w, l>>] = "good"

(* One completion record covers every call that shares the weights
   (prepack.cpp:517-522): while the process stays in mixed mode a recorded
   pool needs no pack and no reorder any more. *)
RecordCoversThePool ==
    \A p \in Pools : warm[<<p, 2>>] = "warm" /\ wc = 2 =>
        \A w \in p : /\ aocl[w] # "none"
                     /\ \A l \in DecodeLayouts : ck[<<w, l>>] # "none"
=============================================================================
