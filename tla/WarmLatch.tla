----------------------------- MODULE WarmLatch -----------------------------
(***************************************************************************)
(* The opening of every prepack_for_algo_N (prepack.cpp): prelude(), the   *)
(* WarmGuard it hands out, and what both share, as seen by the framework   *)
(* threads that call the grouped matmul concurrently.                      *)
(*                                                                         *)
(* A critical section of s_warm_latch_mtx, s_warmed_fps_mtx or latch->m    *)
(* blocks on nothing else and is one step.  What happens between two of    *)
(* them is where other threads come in, so each one is a step of its own.  *)
(***************************************************************************)
CONSTANTS Threads,   \* framework threads calling the grouped matmul
          Keys,      \* weight_pool_fingerprint values
          Contexts,  \* what fingerprint() folds in beyond the weight pool
          Latches,   \* WarmLatch objects the heap can hold
          NoLatch    \* a null shared_ptr

ASSUME LatchAssumption ==
    /\ NoLatch \notin Latches
    /\ Keys # {}

VARIABLES prepackOn, \* ZENDNNL_GRP_MATMUL_PREPACK, constant in a process
          mixed,     \* is_grp_auto_mixed_inplace_active()
          pc,        \* where in the prelude and its guard each thread is
          key,       \* fingerprint of each thread's current or latest call
          hold,      \* each thread's shared_ptr<WarmLatch>
          latchDone, \* WarmLatch::done
          latchMap,  \* s_warm_latch_map
          doneFps,   \* s_warm_done_fps
          warmedFps  \* s_warmed_fps

env    == <<prepackOn, mixed>>
tables == <<latchMap, doneFps, warmedFps>>
vars   == <<prepackOn, mixed, pc, key, hold, latchDone,
            latchMap, doneFps, warmedFps>>

\* "probe", "fetch": the mode is read; the table is next.
\* "warm", "warmPlain": the body of prepack_for_algo_N.
\* "setDone", "notify": ~WarmGuard after its first critical section.
\* "test", "asleep": cv.wait, before the predicate and blocked.
\* "run", "runPlain": prelude and warm are over, the GEMM runs.
PcStates == {"out", "probe", "fetch", "warm", "warmPlain", "setDone",
             "notify", "test", "asleep", "run", "runPlain"}

TypeOK ==
    /\ prepackOn \in BOOLEAN
    /\ mixed \in BOOLEAN
    /\ pc \in [Threads -> PcStates]
    /\ key \in [Threads -> Keys]
    /\ hold \in [Threads -> Latches \cup {NoLatch}]
    /\ latchDone \in [Latches -> BOOLEAN]
    /\ latchMap \in [Keys -> Latches \cup {NoLatch}]
    /\ doneFps \subseteq Keys
    /\ warmedFps \subseteq Keys \X Contexts

Init ==
    /\ prepackOn \in BOOLEAN
    /\ mixed \in BOOLEAN
    /\ pc = [t \in Threads |-> "out"]
    /\ key \in [Threads -> Keys]
    /\ hold = [t \in Threads |-> NoLatch]
    /\ latchDone = [l \in Latches |-> FALSE]
    /\ latchMap = [k \in Keys |-> NoLatch]
    /\ doneFps = {}
    /\ warmedFps = {}

Goto(t, label) == pc' = [pc EXCEPT ![t] = label]
Drop(t) == hold' = [hold EXCEPT ![t] = NoLatch]
----------------------------------------------------------------------------
\* Prepacking is switched off: prelude returns before it looks at anything.
PreludeDisabled(t) ==
    /\ pc[t] = "out" /\ ~prepackOn
    /\ Goto(t, "runPlain")
    /\ UNCHANGED <<env, key, hold, latchDone, tables>>

\* The mode is read once; what the call does next depends on it alone.
PreludeReadsMode(t, k) ==
    /\ pc[t] = "out" /\ prepackOn
    /\ key' = [key EXCEPT ![t] = k]
    /\ Goto(t, IF mixed THEN "fetch" ELSE "probe")
    /\ UNCHANGED <<env, hold, latchDone, tables>>

\* already_warmed: insert-and-go.  A second caller does not wait.
AlreadyWarmed(t, c) ==
    /\ pc[t] = "probe"
    /\ warmedFps' = warmedFps \cup {<<key[t], c>>}
    /\ Goto(t, IF <<key[t], c>> \in warmedFps THEN "runPlain" ELSE "warmPlain")
    /\ UNCHANGED <<env, key, hold, latchDone, latchMap, doneFps>>

\* The warm of an out-of-place call ends; its guard is null.
PlainWarmEnds(t) ==
    /\ pc[t] = "warmPlain"
    /\ Goto(t, "runPlain")
    /\ UNCHANGED <<env, key, hold, latchDone, tables>>
----------------------------------------------------------------------------
\* The three outcomes of the critical section on s_warm_latch_mtx.
FetchSkips(t) ==
    /\ pc[t] = "fetch"
    /\ key[t] \in doneFps
    /\ Goto(t, "run")
    /\ UNCHANGED <<env, key, hold, latchDone, tables>>

InUse == {hold[t] : t \in Threads} \cup {latchMap[k] : k \in Keys}

\* Mutation: the critical section forgets to look for a warm in flight.
FetchOwns_NoLookup(t, l) ==
    /\ pc[t] = "fetch"
    /\ key[t] \notin doneFps
    /\ l \notin InUse
    /\ latchMap' = [latchMap EXCEPT ![key[t]] = l]
    /\ latchDone' = [latchDone EXCEPT ![l] = FALSE]
    /\ hold' = [hold EXCEPT ![t] = l]
    /\ Goto(t, "warm")
    /\ UNCHANGED <<env, key, doneFps, warmedFps>>

FetchOwns(t, l) ==
    /\ pc[t] = "fetch"
    /\ key[t] \notin doneFps
    /\ latchMap[key[t]] = NoLatch
    /\ l \notin InUse
    /\ latchMap' = [latchMap EXCEPT ![key[t]] = l]
    /\ latchDone' = [latchDone EXCEPT ![l] = FALSE]
    /\ hold' = [hold EXCEPT ![t] = l]
    /\ Goto(t, "warm")
    /\ UNCHANGED <<env, key, doneFps, warmedFps>>

FetchWaits(t) ==
    /\ pc[t] = "fetch"
    /\ key[t] \notin doneFps
    /\ latchMap[key[t]] # NoLatch
    /\ hold' = [hold EXCEPT ![t] = latchMap[key[t]]]
    /\ Goto(t, "test")
    /\ UNCHANGED <<env, key, latchDone, tables>>
----------------------------------------------------------------------------
\* WarmGuard::signal.  The warm is over, by return or by exception: record
\* it and drop the in-flight entry, then set done, then notify_all.
\* Mutations: the entry stays, the record is not made, or the latch is
\* recorded where the fingerprint belongs.
SignalRecords_With(t, map, done) ==
    /\ pc[t] = "warm"
    /\ doneFps' = done
    /\ latchMap' = map
    /\ Goto(t, "setDone")
    /\ UNCHANGED <<env, key, hold, latchDone, warmedFps>>
SignalRecords_KeepsEntry(t) ==
    SignalRecords_With(t, latchMap, doneFps \cup {key[t]})
SignalRecords_NoRecord(t) ==
    SignalRecords_With(t, [latchMap EXCEPT ![key[t]] = NoLatch], doneFps)
SignalRecords_WrongRecord(t) ==
    SignalRecords_With(t, [latchMap EXCEPT ![key[t]] = NoLatch],
                       doneFps \cup {hold[t]})

SignalRecords(t) ==
    /\ pc[t] = "warm"
    /\ doneFps' = doneFps \cup {key[t]}
    /\ latchMap' = [latchMap EXCEPT ![key[t]] = NoLatch]
    /\ Goto(t, "setDone")
    /\ UNCHANGED <<env, key, hold, latchDone, warmedFps>>

\* Mutation: notify_all without done.
SignalSetsDone_Forgets(t) ==
    /\ pc[t] = "setDone"
    /\ Goto(t, "notify")
    /\ UNCHANGED <<env, key, hold, latchDone, tables>>

SignalSetsDone(t) ==
    /\ pc[t] = "setDone"
    /\ latchDone' = [latchDone EXCEPT ![hold[t]] = TRUE]
    /\ Goto(t, "notify")
    /\ UNCHANGED <<env, key, hold, tables>>

\* Mutation: notify_one.
SignalNotifies_One(t) ==
    /\ pc[t] = "notify"
    /\ LET asleep == {u \in Threads : pc[u] = "asleep" /\ hold[u] = hold[t]}
       IN IF asleep = {} THEN Goto(t, "run")
          ELSE \E u \in asleep :
                  pc' = [pc EXCEPT ![t] = "run", ![u] = "test"]
    /\ Drop(t)
    /\ UNCHANGED <<env, key, latchDone, tables>>

SignalNotifies(t) ==
    /\ pc[t] = "notify"
    /\ pc' = [u \in Threads |->
                IF u = t THEN "run"
                ELSE IF pc[u] = "asleep" /\ hold[u] = hold[t] THEN "test"
                ELSE pc[u]]
    /\ Drop(t)
    /\ UNCHANGED <<env, key, latchDone, tables>>

\* cv.wait evaluates its predicate under latch->m and either returns or
\* blocks; a condition variable may also wake a thread for no reason.
WaitTests(t) ==
    /\ pc[t] = "test"
    /\ IF latchDone[hold[t]]
       THEN Goto(t, "run") /\ Drop(t)
       ELSE Goto(t, "asleep") /\ UNCHANGED hold
    /\ UNCHANGED <<env, key, latchDone, tables>>

\* Mutation: cv.wait without a predicate.
SpuriousWake_Returns(t) ==
    /\ pc[t] = "asleep"
    /\ Goto(t, "run") /\ Drop(t)
    /\ UNCHANGED <<env, key, latchDone, tables>>

\* cv.wait goes back to its predicate when the wakeup was spurious.
SpuriousWake(t) ==
    /\ pc[t] = "asleep"
    /\ Goto(t, "test")
    /\ UNCHANGED <<env, key, hold, latchDone, tables>>
----------------------------------------------------------------------------
\* The GEMM is over and the call returns.
Return(t) ==
    /\ pc[t] \in {"run", "runPlain"}
    /\ Goto(t, "out")
    /\ UNCHANGED <<env, key, hold, latchDone, tables>>

\* A dispatcher's weight-cache verdict, or a downgrade, changes the mode.
SetMixed(b) ==
    /\ mixed' = b
    /\ UNCHANGED <<prepackOn, pc, key, hold, latchDone, tables>>

\* clear_fingerprint_cache_for_test, which tests call between two calls.
ClearFingerprints ==
    /\ \A t \in Threads : pc[t] = "out"
    /\ latchMap' = [k \in Keys |-> NoLatch]
    /\ doneFps' = {}
    /\ warmedFps' = {}
    /\ UNCHANGED <<env, pc, key, hold, latchDone>>

\* What a thread inside a call does by itself.
Step(t) ==
    \/ \E c \in Contexts : AlreadyWarmed(t, c)
    \/ PlainWarmEnds(t)
    \/ FetchSkips(t)
    \/ \E l \in Latches : FetchOwns(t, l)
    \/ FetchWaits(t)
    \/ SignalRecords(t) \/ SignalSetsDone(t) \/ SignalNotifies(t)
    \/ WaitTests(t)
    \/ Return(t)

Next ==
    \/ \E t \in Threads :
          \/ PreludeDisabled(t)
          \/ \E k \in Keys : PreludeReadsMode(t, k)
          \/ Step(t)
          \/ SpuriousWake(t)
    \/ \E b \in BOOLEAN : SetMixed(b)
    \/ ClearFingerprints

\* The scheduler runs every thread that can run, and every warm ends.
Spec == Init /\ [][Next]_vars /\ \A t \in Threads : WF_vars(Step(t))
----------------------------------------------------------------------------
(* A mixed-mode call reaches its GEMM only once the warm of its pool is on
   record, whether it ran the warm, waited for it or skipped it
   (prepack.cpp:504-507, "a concurrent same-W call never computes ... while
   the in-place warm is still mutating the weight buffer"). *)
ThroughMeansWarm ==
    \A t \in Threads : pc[t] \in {"setDone", "notify", "run"} => key[t] \in doneFps

(* Between two clears a pool is warmed once: never by two threads at a time,
   never again after it is on record (prepack.cpp:387-391). *)
OneWarmer ==
    \A t \in Threads : pc[t] = "warm" =>
        /\ key[t] \notin doneFps
        /\ \A u \in Threads : pc[u] = "warm" /\ key[u] = key[t] => u = t

(* s_warm_latch_map holds the latches of running warms and no other
   (prepack.cpp:398-406 and 437, "keeps s_warm_latch_map bounded to
   in-flight warms"). *)
MapIsInFlight ==
    \A k \in Keys : latchMap[k] # NoLatch <=>
        \E t \in Threads : pc[t] = "warm" /\ key[t] = k

(* No lost wakeup: a thread blocked in cv.wait has somebody who still is to
   notify the very latch it sleeps on, although the latch left the map
   before done was set (prepack.cpp:434-439). *)
SleeperHasWaker ==
    \A t \in Threads : pc[t] = "asleep" =>
        \E u \in Threads : /\ pc[u] \in {"warm", "setDone", "notify"}
                           /\ hold[u] = hold[t]

(* Every call of the grouped matmul gets through the prelude and returns,
   the one that warms and the ones it holds back. *)
CallsReturn == \A t \in Threads : pc[t] # "out" ~> pc[t] = "out"

(* The latch implements warm-once with blocking: WarmOnce under this map. *)
onceWarm == [k \in Keys |-> IF k \in doneFps THEN "warm"
                            ELSE IF latchMap[k] # NoLatch THEN "warming"
                            ELSE "cold"]
onceRole == [t \in Threads |->
                IF pc[t] = "warm" THEN "owner"
                ELSE IF pc[t] \in {"test", "asleep"} THEN "waiter"
                ELSE IF pc[t] \in {"setDone", "notify", "run"} THEN "through"
                ELSE "out"]

Once == INSTANCE WarmOnce WITH warm <- onceWarm, role <- onceRole, at <- key

(* Every behaviour of the latch is a behaviour of WarmOnce, its liveness
   included. *)
ImplementsWarmOnce == Once!OnceSpec
=============================================================================
