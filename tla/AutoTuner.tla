----------------------------- MODULE AutoTuner -----------------------------
(***************************************************************************)
(* The auto-tuner of matmul: each call of a layer runs one candidate       *)
(* algorithm, and after SkipIter warm-up calls and EvalIter timed ones the *)
(* layer keeps the best.  Version 1 keeps a count, a best time and a best  *)
(* algorithm per layer, and looks its entry up without the mutex; version  *)
(* 2 keeps a count per layer and one summed time per evaluation slot for   *)
(* all layers, and reads the count under the mutex but writes it back in a *)
(* second critical section.  A layer is a Key_matmul, M already binned.    *)
(***************************************************************************)
EXTENDS Integers, Sequences, FiniteSets

CONSTANTS
    Threads,        \* framework threads
    Layers,         \* the layers of the model, in the order of its graph
    Candidates,     \* get_algo_candidates()
    BaseSkip,       \* ZENDNNL_MATMUL_SKIP_ITER
    BaseEval,       \* ZENDNNL_MATMUL_EVAL_ITER
    Times,          \* what a run can take
    None,
    MaxCalls        \* bound: calls made, in each mode

NumAlgo == Len(Candidates)
Keys == {Layers[i] : i \in DOMAIN Layers}
Algos == {Candidates[i] : i \in DOMAIN Candidates}
Modes == {"serial", "concurrent"}

ASSUME SomeCandidates == NumAlgo \in Nat \ {0} /\ DOMAIN Candidates = 1 .. NumAlgo
ASSUME SomeLayers == Len(Layers) \in Nat \ {0} /\ DOMAIN Layers = 1 .. Len(Layers)
ASSUME IterationsAreCounts == BaseSkip \in Nat /\ BaseEval \in Nat
ASSUME TimesArePositive == Times \subseteq Nat \ {0}

Entries == [count: Nat, time: Times, algo: Algos]
ASSUME NoneIsNone == None \notin Entries \cup Algos

\* At least one round-robin over the candidates in each phase.
AtLeastOneRound(base) == IF base > NumAlgo THEN base ELSE NumAlgo
SkipIter == AtLeastOneRound(BaseSkip)
EvalIter == AtLeastOneRound(BaseEval)
TotalIter == SkipIter + EvalIter
Slots == 0 .. EvalIter - 1

\* candidates[index % n], the index being an unsigned int of 32 bits that
\* wraps below zero: n divides 2^32 or leaves Wrap.
Wrap == ((65536 % NumAlgo) * (65536 % NumAlgo)) % NumAlgo
GetAlgo(index) ==
    Candidates[1 + ((IF index >= 0 THEN index ELSE Wrap + index) % NumAlgo)]

VARIABLES
    version,    \* ZENDNNL_AUTO_TUNER_TYPE
    mode,       \* one thread runs the graph, or threads call at any time
    next,       \* serial: index of the layer the graph runs next
    calls,      \* calls made so far
    helper,     \* v1: matmul_kernel_map1_helper, [Keys -> entry or None]
    best,       \* v1: matmul_kernel_map
    count,      \* v2: per_layer_iter_count
    slotTime,   \* v2: global_eval_times
    globalBest, \* v2: global_best_algo, None until computed
    pc, key,    \* [Threads -> where the call is, and for which layer]
    mine,       \* [Threads -> v1: algorithm being timed; v2: count read]
    measured,   \* history: [Keys -> the timed runs of the layer]
    samples     \* history: [Slots -> the layers whose time is in the slot]

v1 == <<helper, best>>
v2 == <<count, slotTime, globalBest>>
history == <<measured, samples>>
env == <<version, mode, next, calls>>
vars == <<env, v1, v2, pc, key, mine, history>>

PcStates == {"idle", "find", "create", "skip", "settled", "eval", "timing"}
Init ==
    /\ version \in {1, 2}
    /\ mode \in Modes
    /\ next = 1
    /\ calls = 0
    /\ helper = [k \in Keys |-> None]
    /\ best = [k \in Keys |-> None]
    /\ count = [k \in Keys |-> 0]
    /\ slotTime = [e \in Slots |-> 0]
    /\ globalBest = None
    /\ pc = [t \in Threads |-> "idle"]
    /\ key = [t \in Threads |-> Layers[1]]
    /\ mine = [t \in Threads |-> None]
    /\ measured = [k \in Keys |-> {}]
    /\ samples = [e \in Slots |-> <<>>]

Go(t, state) == pc' = [pc EXCEPT ![t] = state]
Hold(t, x) == mine' = [mine EXCEPT ![t] = x]

\* A layer is called: next in the graph when one thread runs it, else any.
Begin(t) ==
    /\ pc[t] = "idle"
    /\ calls < MaxCalls[mode]
    /\ calls' = calls + 1
    /\ IF mode = "serial"
       THEN /\ \A o \in Threads : pc[o] = "idle"
            /\ key' = [key EXCEPT ![t] = Layers[next]]
            /\ next' = (next % Len(Layers)) + 1
       ELSE /\ \E k \in Keys : key' = [key EXCEPT ![t] = k]
            /\ UNCHANGED next
    /\ Go(t, "find")
    /\ UNCHANGED <<version, mode, v1, v2, mine, history>>

-----------------------------------------------------------------------------
(* Version 1 *)

\* find() runs without the mutex.  While a peer inserts a new key, which may
\* rehash the table, it can miss an entry that is there.
Inserting(t) ==
    \E o \in Threads \ {t} : pc[o] = "create" /\ helper[key[o]] = None
MayMiss(t) == helper[key[t]] = None \/ Inserting(t)

FindMisses(t) ==
    /\ version = 1 /\ pc[t] = "find"
    /\ MayMiss(t)
    /\ Go(t, "create")
    /\ UNCHANGED <<env, v1, v2, key, mine, history>>

\* Mutation: the evaluation never ends.
Phase_NeverSettles(n) == IF n < SkipIter THEN "skip" ELSE "eval"

\* The count decides the phase, read without the mutex and only compared
\* for equality with the total at the end.
Phase(n) ==
    IF n < SkipIter THEN "skip" ELSE IF n = TotalIter THEN "settled" ELSE "eval"

FindHits(t) ==
    /\ version = 1 /\ pc[t] = "find"
    /\ helper[key[t]] # None
    /\ Go(t, Phase(helper[key[t]].count))
    /\ UNCHANGED <<env, v1, v2, key, mine, history>>

Measure(k, algo, time) ==
    measured' = [measured EXCEPT ![k] = @ \cup {<<algo, time>>}]

\* First call of a layer: the first candidate is timed, then the entry is
\* written, over any entry a peer has written meanwhile.
Create(t) ==
    LET k == key[t] c0 == Candidates[1] IN
    /\ pc[t] = "create"
    /\ \E time \in Times :
         /\ helper' = [helper EXCEPT ![k] = [count |-> 1, time |-> time, algo |-> c0]]
         /\ Measure(k, c0, time)
    /\ best' = [best EXCEPT ![k] = c0]
    /\ Go(t, "idle")
    /\ UNCHANGED <<env, v2, key, mine, samples>>

CountUp(k) == helper' = [helper EXCEPT ![k].count = @ + 1]

\* Warm-up: the count is advanced and the next candidate run untimed.
SkipRuns(t) ==
    /\ version = 1 /\ pc[t] = "skip"
    /\ CountUp(key[t])
    /\ Go(t, "idle")
    /\ UNCHANGED <<env, best, v2, key, mine, history>>

\* Evaluation: slot and count under the mutex, the run outside of it.
EvalStarts(t) ==
    LET k == key[t] IN
    /\ version = 1 /\ pc[t] = "eval"
    /\ Hold(t, GetAlgo(helper[k].count - SkipIter))
    /\ CountUp(k)
    /\ Go(t, "timing")
    /\ UNCHANGED <<env, best, v2, key, history>>

\* Mutations: the map keeps the old algorithm; the slower run is kept.
EvalEnds_NoMap(t) ==
    LET k == key[t] IN
    /\ version = 1 /\ pc[t] = "timing"
    /\ \E time \in Times :
         /\ Measure(k, mine[t], time)
         /\ helper' = IF time < helper[k].time
                      THEN [helper EXCEPT ![k].time = time, ![k].algo = mine[t]]
                      ELSE helper
    /\ Hold(t, None) /\ Go(t, "idle")
    /\ UNCHANGED <<env, best, v2, key, samples>>
EvalEnds_KeepsSlower(t) ==
    LET k == key[t] IN
    /\ version = 1 /\ pc[t] = "timing"
    /\ \E time \in Times :
         /\ Measure(k, mine[t], time)
         /\ IF time > helper[k].time
            THEN /\ helper' = [helper EXCEPT ![k].time = time, ![k].algo = mine[t]]
                 /\ best' = [best EXCEPT ![k] = mine[t]]
            ELSE UNCHANGED v1
    /\ Hold(t, None) /\ Go(t, "idle")
    /\ UNCHANGED <<env, v2, key, samples>>

\* The run's time, under the mutex again: kept when it beats the best.  The
\* entry's time is a float and the measured one a double; the rounding, which
\* can only make times within 2^-24 of each other change places, is left out.
EvalEnds(t) ==
    LET k == key[t] IN
    /\ version = 1 /\ pc[t] = "timing"
    /\ \E time \in Times :
         /\ Measure(k, mine[t], time)
         /\ IF time < helper[k].time
            THEN /\ helper' = [helper EXCEPT ![k].time = time, ![k].algo = mine[t]]
                 /\ best' = [best EXCEPT ![k] = mine[t]]
            ELSE UNCHANGED v1
    /\ Hold(t, None)
    /\ Go(t, "idle")
    /\ UNCHANGED <<env, v2, key, samples>>

\* After the evaluation: the layer's best is run.
SettledRuns(t) ==
    /\ version = 1 /\ pc[t] = "settled"
    /\ Go(t, "idle")
    /\ UNCHANGED <<env, v1, v2, key, mine, history>>

-----------------------------------------------------------------------------
(* Version 2 *)

\* Mutations: one evaluation too many, past the slots; one too few.
PhaseV2_Late(n) ==
    IF n < SkipIter THEN "skip" ELSE IF n > TotalIter THEN "settled" ELSE "eval"
PhaseV2_Early(n) ==
    IF n < SkipIter THEN "skip" ELSE IF n >= TotalIter - 1 THEN "settled" ELSE "eval"

PhaseV2(n) ==
    IF n < SkipIter THEN "skip" ELSE IF n >= TotalIter THEN "settled" ELSE "eval"

ReadCount(t) ==
    /\ version = 2 /\ pc[t] = "find"
    /\ Hold(t, count[key[t]])
    /\ Go(t, PhaseV2(count[key[t]]))
    /\ UNCHANGED <<env, v1, v2, key, history>>

\* Mutation: the count is incremented where it stands.
WriteCount_Increments(t) == count' = [count EXCEPT ![key[t]] = @ + 1]

\* The count read before the run is written back plus one.
WriteCount(t) == count' = [count EXCEPT ![key[t]] = mine[t] + 1]

SkipRunsV2(t) ==
    /\ version = 2 /\ pc[t] = "skip"
    /\ WriteCount(t)
    /\ Hold(t, None)
    /\ Go(t, "idle")
    /\ UNCHANGED <<env, v1, slotTime, globalBest, key, history>>

\* A timed run: its time is added to the slot in the critical section that
\* writes the count.
EvalRunsV2(t) ==
    LET e == mine[t] - SkipIter IN
    /\ version = 2 /\ pc[t] = "eval"
    /\ \E time \in Times : slotTime' = [slotTime EXCEPT ![e] = @ + time]
    /\ samples' = [samples EXCEPT ![e] = Append(@, key[t])]
    /\ WriteCount(t)
    /\ Hold(t, None)
    /\ Go(t, "idle")
    /\ UNCHANGED <<env, v1, globalBest, key, measured>>

\* min_element: the first slot of the least summed time.
BestSlot ==
    CHOOSE e \in Slots :
        /\ \A f \in Slots : slotTime[e] <= slotTime[f]
        /\ \A f \in Slots : f < e => slotTime[e] < slotTime[f]

\* The first call past its evaluation picks for the whole process.
SettledRunsV2(t) ==
    /\ version = 2 /\ pc[t] = "settled"
    /\ globalBest' = IF globalBest = None THEN GetAlgo(BestSlot) ELSE globalBest
    /\ Hold(t, None)
    /\ Go(t, "idle")
    /\ UNCHANGED <<env, v1, count, slotTime, key, history>>

Step(t) ==
    \/ FindMisses(t) \/ FindHits(t) \/ Create(t) \/ SkipRuns(t)
    \/ EvalStarts(t) \/ EvalEnds(t) \/ SettledRuns(t)
    \/ ReadCount(t) \/ SkipRunsV2(t) \/ EvalRunsV2(t) \/ SettledRunsV2(t)

Next == \E t \in Threads : Begin(t) \/ Step(t)

\* A call that began runs on, and the framework keeps calling.
Spec == Init /\ [][Next]_vars /\ WF_vars(Next)

-----------------------------------------------------------------------------
(* Properties *)

TypeOK ==
    /\ version \in {1, 2} /\ mode \in Modes
    /\ next \in DOMAIN Layers /\ calls \in Nat
    /\ helper \in [Keys -> Entries \cup {None}]
    /\ best \in [Keys -> Algos \cup {None}]
    /\ count \in [Keys -> 0 .. TotalIter]
    /\ slotTime \in [Slots -> Nat]
    /\ globalBest \in Algos \cup {None}
    /\ pc \in [Threads -> PcStates]
    /\ key \in [Threads -> Keys]
    /\ mine \in [Threads -> Algos \cup Nat \cup {None}]

\* Version 1, however the calls interleave: the algorithm a layer will be
\* served with is the one its best time was measured with, although time
\* and algorithm are decided in one critical section and measured outside.
BestWasMeasured ==
    \A k \in Keys : helper[k] # None =>
        /\ best[k] = helper[k].algo
        /\ <<helper[k].algo, helper[k].time>> \in measured[k]

\* Version 1, the graph run by one thread: the count stops at the total and
\* the layer is then served with a fastest of all its timed runs, the seed
\* of the first call included.  (With overlapping calls neither holds: two
\* calls that both read total - 1 carry the count past the total, which is
\* only tested for equality, and a late first call writes the entry anew.)
SettlesOnFastest ==
    (version = 1 /\ mode = "serial") =>
        \A k \in Keys : helper[k] # None =>
            /\ helper[k].count <= TotalIter
            /\ \A m \in measured[k] : helper[k].time <= m[2]

\* Version 2, however the calls interleave and whatever updates of the
\* count are lost: a layer past its evaluation has timed every slot, so the
\* minimum is never taken over a slot that is zero because nobody ran it.
EverySlotTimed ==
    version = 2 =>
        \A k \in Keys : count[k] >= TotalIter =>
            \A e \in Slots : \E i \in DOMAIN samples[e] : samples[e][i] = k

\* A layer occurs once in the graph: its key holds the weight's address.
LayersAreDistinct == \A i, j \in DOMAIN Layers : Layers[i] = Layers[j] => i = j

\* Version 2, the graph run by one thread: when the process-wide best is
\* picked every layer has contributed once to every slot, so the summed
\* times compare.
SlotsCompare ==
    (version = 2 /\ mode = "serial" /\ globalBest # None) =>
        \A e \in Slots : \A k \in Keys :
            Cardinality({i \in DOMAIN samples[e] : samples[e][i] = k}) = 1

\* Version 2, however the calls interleave: the one pick of the process rests
\* on a whole evaluation of some layer.  The call that picks decided so by a
\* count it read earlier, and a peer's lost update may since have moved the
\* layer's count back into its evaluation, or its warm-up.
PickRestsOnEvaluation ==
    (version = 2 /\ globalBest # None) =>
        \E k \in Keys : \A e \in Slots : \E i \in DOMAIN samples[e] : samples[e][i] = k

\* The graph run by one thread ends its tuning: every layer is settled.
Settled(k) ==
    IF version = 1 THEN helper[k] # None /\ helper[k].count = TotalIter
    ELSE count[k] = TotalIter /\ globalBest # None
SerialSettles == mode = "serial" => <>[](\A k \in Keys : Settled(k))
=============================================================================
