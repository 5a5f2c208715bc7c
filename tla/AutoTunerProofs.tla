-------------------------- MODULE AutoTunerProofs --------------------------
(***************************************************************************)
(* Proofs about AutoTuner, for any threads, layers, candidates, iteration  *)
(* counts and times, and with no bound on the calls.                       *)
(***************************************************************************)
EXTENDS AutoTuner, FiniteSetTheorems, WellFoundedInduction, TLAPS

(* What a call in flight knows.  In version 1 a call past the lookup has an
   entry; in version 2 it holds the count that sent it to its phase. *)
CallInv ==
    /\ measured \in [Keys -> SUBSET (Algos \X Times)]
    /\ samples \in [Slots -> Seq(Keys)]
    /\ \A t \in Threads :
         /\ pc[t] \in {"create", "timing"} => version = 1
         /\ version = 1 /\ pc[t] \in {"skip", "eval", "timing", "settled"} =>
              helper[key[t]] # None
         /\ pc[t] = "timing" => mine[t] \in Algos
         /\ version = 2 /\ pc[t] = "skip" => mine[t] \in 0 .. SkipIter - 1
         /\ version = 2 /\ pc[t] = "eval" => mine[t] \in SkipIter .. TotalIter - 1

TypeInv == TypeOK /\ CallInv
----------------------------------------------------------------------------
(* The iteration counts are positive, and every slot has a candidate. *)
LEMMA Iterations ==
  /\ SkipIter \in Nat \ {0} /\ EvalIter \in Nat \ {0}
  /\ TotalIter = SkipIter + EvalIter
  BY SomeCandidates, IterationsAreCounts
     DEF SkipIter, EvalIter, TotalIter, AtLeastOneRound

LEMMA CandidateChosen == ASSUME NEW index \in Int PROVE GetAlgo(index) \in Algos
<1> DEFINE n == NumAlgo
<1>1. n \in Nat \ {0}
  BY SomeCandidates
<1> HIDE DEF n
<1>2. \A i \in Int : i % n \in 0 .. n - 1
  BY <1>1
<1>3. 65536 % n \in Int
  BY <1>1, <1>2
<1>4. (65536 % n) * (65536 % n) \in Int
  BY <1>3
<1>5. ((65536 % n) * (65536 % n)) % n \in Int
  BY <1>1, <1>2, <1>4
<1>6. Wrap \in Int
  BY <1>5 DEF Wrap, n
<1>7. (IF index >= 0 THEN index ELSE Wrap + index) \in Int
  BY <1>6
<1>8. (IF index >= 0 THEN index ELSE Wrap + index) % n \in 0 .. n - 1
  BY <1>2, <1>7
<1>9. 1 + ((IF index >= 0 THEN index ELSE Wrap + index) % n) \in 1 .. n
  BY <1>1, <1>8
<1> QED
  BY <1>9, SomeCandidates DEF GetAlgo, Algos, n

LEMMA FirstCandidate == Candidates[1] \in Algos /\ Layers[1] \in Keys
  BY SomeCandidates, SomeLayers DEF Algos, Keys

(* The least element of a set of numbers, and with it the first slot of the
   least summed time. *)
LEMMA LeastNumber ==
  ASSUME NEW T, T \subseteq Nat, T # {}
  PROVE  \E x \in T : \A y \in T : x <= y
<1>1. PICK x \in T : \A y \in T : ~ (<<y, x>> \in OpToRel(<, Nat))
  BY NatLessThanWellFounded, WFMin
<1>2. \A y \in T : ~(y < x)
  BY <1>1 DEF OpToRel
<1> QED
  BY <1>2

LEMMA BestSlotExists ==
  ASSUME slotTime \in [Slots -> Nat]
  PROVE  BestSlot \in Slots
<1>1. Slots \subseteq Nat /\ 0 \in Slots
  BY Iterations DEF Slots
<1> DEFINE sums == {slotTime[e] : e \in Slots}
<1>2. PICK s \in sums : \A y \in sums : s <= y
  <2>1. sums \subseteq Nat /\ sums # {}
    BY <1>1
  <2> QED
    BY <2>1, LeastNumber
<1> DEFINE least == {e \in Slots : slotTime[e] = s}
<1>3. PICK e \in least : \A f \in least : e <= f
  <2>1. least \subseteq Nat /\ least # {}
    BY <1>1
  <2> QED
    BY <2>1, LeastNumber
<1>4. \A f \in Slots : slotTime[e] <= slotTime[f]
  BY <1>2
<1>5. ASSUME NEW f \in Slots, f < e PROVE slotTime[e] < slotTime[f]
  <2>1. f \notin least
    BY <1>1, <1>3, <1>5
  <2>2. slotTime[f] # slotTime[e] /\ slotTime[e] <= slotTime[f]
    BY <1>4, <2>1
  <2> QED
    BY <2>2
<1> QED
  BY <1>4, <1>5 DEF BestSlot

(* What a step does to an entry. *)
LEMMA CountedUp ==
  ASSUME TypeOK, NEW k \in Keys, helper[k] # None, CountUp(k)
  PROVE  /\ helper' \in [Keys -> Entries \cup {None}]
         /\ helper'[k] \in Entries
         /\ helper'[k].count = helper[k].count + 1
         /\ helper'[k].time = helper[k].time /\ helper'[k].algo = helper[k].algo
         /\ \A j \in Keys \ {k} : helper'[j] = helper[j]
  BY DEF TypeOK, CountUp, Entries

Keeps(k, a, time) == helper' = [helper EXCEPT ![k].time = time, ![k].algo = a]

LEMMA EntryKept ==
  ASSUME TypeOK, NEW k \in Keys, helper[k] # None, NEW time \in Times, NEW a \in Algos,
         Keeps(k, a, time)
  PROVE  /\ helper' \in [Keys -> Entries \cup {None}]
         /\ helper'[k] \in Entries
         /\ helper'[k].count = helper[k].count
         /\ helper'[k].time = time /\ helper'[k].algo = a
         /\ \A j \in Keys \ {k} : helper'[j] = helper[j]
<1>1. helper' = [helper EXCEPT ![k] = [helper[k] EXCEPT !.time = time, !.algo = a]]
  BY DEF TypeOK, Keeps
<1>2. helper[k] \in Entries
  BY DEF TypeOK
<1>3. [helper[k] EXCEPT !.time = time, !.algo = a] \in Entries
  BY <1>2 DEF Entries
<1> QED
  BY <1>1, <1>2, <1>3 DEF TypeOK, Entries
----------------------------------------------------------------------------
LEMMA TypeInit == Init => TypeInv
<1> SUFFICES ASSUME Init PROVE TypeInv
  OBVIOUS
<1>1. TypeOK
  BY SomeLayers, FirstCandidate, Iterations DEF Init, TypeOK, Modes, PcStates
<1>2. CallInv
  BY DEF Init, CallInv
<1> QED
  BY <1>1, <1>2 DEF TypeInv

(* Every step keeps the types: one step per action. *)
LEMMA TypeStep == TypeInv /\ [Next]_vars => TypeInv'
<1> SUFFICES ASSUME TypeInv, [Next]_vars PROVE TypeInv'
  OBVIOUS
<1> USE DEF PcStates, env, v1, v2, history
<1>0. TypeOK /\ CallInv
  BY DEF TypeInv
<1>1. ASSUME NEW t \in Threads, Begin(t) PROVE TypeInv'
  <2>1. /\ pc' = [pc EXCEPT ![t] = "find"] /\ pc[t] = "idle" /\ calls' = calls + 1
        /\ UNCHANGED <<version, mode, v1, v2, mine, history>>
    BY <1>1 DEF Begin, Go
  <2>2. next' \in DOMAIN Layers
    BY <1>0, <1>1, SomeLayers DEF Begin, TypeOK
  <2>3. /\ key' \in [Threads -> Keys]
        /\ \A u \in Threads \ {t} : key'[u] = key[u]
    BY <1>0, <1>1 DEF Begin, TypeOK, Keys
  <2>4. TypeOK'
    <3>1. pc' \in [Threads -> PcStates] /\ calls' \in Nat
      BY <1>0, <2>1 DEF TypeOK
    <3> QED
      BY <1>0, <2>1, <2>2, <2>3, <3>1 DEF TypeOK
  <2>5. CallInv'
    BY <1>0, <2>1, <2>3 DEF CallInv, TypeOK
  <2> QED
    BY <2>4, <2>5 DEF TypeInv
<1>2. ASSUME NEW t \in Threads, FindMisses(t) PROVE TypeInv'
  BY <1>0, <1>2 DEF FindMisses, Go, TypeInv, TypeOK, CallInv
<1>3. ASSUME NEW t \in Threads, FindHits(t) PROVE TypeInv'
  <2>1. Phase(helper[key[t]].count) \in {"skip", "eval", "settled"}
    BY DEF Phase
  <2> QED
    BY <1>0, <1>3, <2>1 DEF FindHits, Go, TypeInv, TypeOK, CallInv
<1>4. ASSUME NEW t \in Threads, Create(t) PROVE TypeInv'
  <2>0. key[t] \in Keys
    BY <1>0 DEF TypeOK
  <2>1. PICK time \in Times :
           /\ helper' = [helper EXCEPT ![key[t]] =
                           [count |-> 1, time |-> time, algo |-> Candidates[1]]]
           /\ Measure(key[t], Candidates[1], time)
    BY <1>4 DEF Create
  <2>2. [count |-> 1, time |-> time, algo |-> Candidates[1]] \in Entries
    BY FirstCandidate DEF Entries
  <2>3. /\ helper' \in [Keys -> Entries \cup {None}]
        /\ \A k \in Keys : helper[k] # None => helper'[k] # None
    BY <1>0, <2>0, <2>1, <2>2, NoneIsNone DEF TypeOK
  <2>4. measured' \in [Keys -> SUBSET (Algos \X Times)]
    BY <1>0, <2>0, <2>1, FirstCandidate DEF Measure, CallInv
  <2>5. /\ best' \in [Keys -> Algos \cup {None}] /\ pc' = [pc EXCEPT ![t] = "idle"]
        /\ UNCHANGED <<env, v2, key, mine, samples>>
    BY <1>0, <1>4, FirstCandidate DEF Create, Go, TypeOK
  <2>6. TypeOK'
    BY <1>0, <2>3, <2>5 DEF TypeOK
  <2>7. CallInv'
    BY <1>0, <2>3, <2>4, <2>5 DEF CallInv, TypeOK
  <2> QED
    BY <2>6, <2>7 DEF TypeInv
<1>5. ASSUME NEW t \in Threads, SkipRuns(t) PROVE TypeInv'
  <2>0. key[t] \in Keys /\ helper[key[t]] # None
    BY <1>0, <1>5 DEF SkipRuns, TypeOK, CallInv
  <2>1. /\ helper' \in [Keys -> Entries \cup {None}]
        /\ \A k \in Keys : helper[k] # None => helper'[k] # None
    BY <1>0, <1>5, <2>0, CountedUp, NoneIsNone DEF SkipRuns
  <2>2. /\ pc' = [pc EXCEPT ![t] = "idle"]
        /\ UNCHANGED <<env, best, v2, key, mine, history>>
    BY <1>5 DEF SkipRuns, Go
  <2>3. TypeOK'
    BY <1>0, <2>1, <2>2 DEF TypeOK
  <2>4. CallInv'
    BY <1>0, <2>1, <2>2 DEF CallInv, TypeOK
  <2> QED
    BY <2>3, <2>4 DEF TypeInv
<1>6. ASSUME NEW t \in Threads, EvalStarts(t) PROVE TypeInv'
  <2>0. key[t] \in Keys /\ helper[key[t]] # None
    BY <1>0, <1>6 DEF EvalStarts, TypeOK, CallInv
  <2>1. /\ helper' \in [Keys -> Entries \cup {None}]
        /\ \A k \in Keys : helper[k] # None => helper'[k] # None
    BY <1>0, <1>6, <2>0, CountedUp, NoneIsNone DEF EvalStarts
  <2>2. helper[key[t]].count - SkipIter \in Int
    BY <1>0, <2>0, Iterations DEF TypeOK, Entries
  <2>3. GetAlgo(helper[key[t]].count - SkipIter) \in Algos
    BY <2>2, CandidateChosen
  <2>4. /\ pc' = [pc EXCEPT ![t] = "timing"] /\ version = 1
        /\ mine' = [mine EXCEPT ![t] = GetAlgo(helper[key[t]].count - SkipIter)]
        /\ UNCHANGED <<env, best, v2, key, history>>
    BY <1>6 DEF EvalStarts, Go, Hold
  <2>5. TypeOK'
    BY <1>0, <2>1, <2>3, <2>4 DEF TypeOK
  <2>6. CallInv'
    BY <1>0, <2>0, <2>1, <2>3, <2>4 DEF CallInv, TypeOK
  <2> QED
    BY <2>5, <2>6 DEF TypeInv
<1>7. ASSUME NEW t \in Threads, EvalEnds(t) PROVE TypeInv'
  <2>0. /\ key[t] \in Keys /\ helper[key[t]] # None /\ mine[t] \in Algos
    BY <1>0, <1>7 DEF EvalEnds, TypeOK, CallInv
  <2>1. PICK time \in Times :
           /\ Measure(key[t], mine[t], time)
           /\ IF time < helper[key[t]].time
              THEN /\ helper' = [helper EXCEPT ![key[t]].time = time,
                                               ![key[t]].algo = mine[t]]
                   /\ best' = [best EXCEPT ![key[t]] = mine[t]]
              ELSE UNCHANGED v1
    BY <1>7 DEF EvalEnds
  <2>2. /\ helper' \in [Keys -> Entries \cup {None}]
        /\ \A k \in Keys : helper[k] # None => helper'[k] # None
        /\ best' \in [Keys -> Algos \cup {None}]
    <3>1. CASE time < helper[key[t]].time
      <4>1. /\ Keeps(key[t], mine[t], time)
            /\ best' = [best EXCEPT ![key[t]] = mine[t]]
        BY <2>1, <3>1 DEF Keeps
      <4>2. /\ helper' \in [Keys -> Entries \cup {None}] /\ helper'[key[t]] \in Entries
            /\ \A j \in Keys \ {key[t]} : helper'[j] = helper[j]
        BY <1>0, <2>0, <4>1, EntryKept
      <4>3. best' \in [Keys -> Algos \cup {None}]
        BY <1>0, <2>0, <4>1 DEF TypeOK
      <4>4. \A k \in Keys : helper[k] # None => helper'[k] # None
        BY <4>2, NoneIsNone
      <4> QED
        BY <4>2, <4>3, <4>4
    <3>2. CASE ~(time < helper[key[t]].time)
      BY <1>0, <2>1, <3>2 DEF TypeOK
    <3> QED
      BY <3>1, <3>2
  <2>3. measured' \in [Keys -> SUBSET (Algos \X Times)]
    BY <1>0, <2>0, <2>1 DEF Measure, CallInv
  <2>4. /\ pc' = [pc EXCEPT ![t] = "idle"] /\ mine' = [mine EXCEPT ![t] = None]
        /\ UNCHANGED <<env, v2, key, samples>>
    BY <1>7 DEF EvalEnds, Go, Hold
  <2>5. TypeOK'
    BY <1>0, <2>2, <2>4 DEF TypeOK
  <2>6. CallInv'
    BY <1>0, <2>2, <2>3, <2>4 DEF CallInv, TypeOK
  <2> QED
    BY <2>5, <2>6 DEF TypeInv
<1>8. ASSUME NEW t \in Threads, SettledRuns(t) PROVE TypeInv'
  BY <1>0, <1>8 DEF SettledRuns, Go, TypeInv, TypeOK, CallInv
<1>9. ASSUME NEW t \in Threads, ReadCount(t) PROVE TypeInv'
  <2>1. /\ pc' = [pc EXCEPT ![t] = PhaseV2(count[key[t]])] /\ version = 2
        /\ mine' = [mine EXCEPT ![t] = count[key[t]]]
        /\ UNCHANGED <<env, v1, v2, key, history>>
    BY <1>9 DEF ReadCount, Go, Hold
  <2>2. count[key[t]] \in 0 .. TotalIter
    BY <1>0 DEF TypeOK
  <2>3. /\ PhaseV2(count[key[t]]) \in {"skip", "eval", "settled"}
        /\ PhaseV2(count[key[t]]) = "skip" => count[key[t]] \in 0 .. SkipIter - 1
        /\ PhaseV2(count[key[t]]) = "eval" => count[key[t]] \in SkipIter .. TotalIter - 1
    BY <2>2, Iterations DEF PhaseV2
  <2>4. TypeOK'
    BY <1>0, <2>1, <2>2, <2>3, Iterations DEF TypeOK
  <2>5. CallInv'
    BY <1>0, <2>1, <2>3 DEF CallInv, TypeOK
  <2> QED
    BY <2>4, <2>5 DEF TypeInv
<1>10. ASSUME NEW t \in Threads, SkipRunsV2(t) PROVE TypeInv'
  <2>1. count' \in [Keys -> 0 .. TotalIter]
    BY <1>0, <1>10, Iterations DEF SkipRunsV2, WriteCount, TypeOK, CallInv
  <2>2. /\ pc' = [pc EXCEPT ![t] = "idle"] /\ mine' = [mine EXCEPT ![t] = None]
        /\ UNCHANGED <<env, v1, slotTime, globalBest, key, history>>
    BY <1>10 DEF SkipRunsV2, Go, Hold
  <2>3. TypeOK'
    BY <1>0, <2>1, <2>2 DEF TypeOK
  <2>4. CallInv'
    BY <1>0, <2>2 DEF CallInv, TypeOK
  <2> QED
    BY <2>3, <2>4 DEF TypeInv
<1>11. ASSUME NEW t \in Threads, EvalRunsV2(t) PROVE TypeInv'
  <2>0. mine[t] \in SkipIter .. TotalIter - 1 /\ mine[t] - SkipIter \in Slots
    BY <1>0, <1>11, Iterations DEF EvalRunsV2, CallInv, Slots
  <2>1. count' \in [Keys -> 0 .. TotalIter]
    BY <1>0, <1>11, <2>0, Iterations DEF EvalRunsV2, WriteCount, TypeOK
  <2>2. slotTime' \in [Slots -> Nat]
    BY <1>0, <1>11, <2>0, TimesArePositive DEF EvalRunsV2, TypeOK
  <2>3. samples' \in [Slots -> Seq(Keys)]
    <3>1. key[t] \in Keys /\ samples[mine[t] - SkipIter] \in Seq(Keys)
      BY <1>0, <2>0 DEF TypeOK, CallInv
    <3>2. Append(samples[mine[t] - SkipIter], key[t]) \in Seq(Keys)
      BY <3>1
    <3> QED
      BY <1>0, <1>11, <2>0, <3>2 DEF EvalRunsV2, CallInv
  <2>4. /\ pc' = [pc EXCEPT ![t] = "idle"] /\ mine' = [mine EXCEPT ![t] = None]
        /\ UNCHANGED <<env, v1, globalBest, key, measured>>
    BY <1>11 DEF EvalRunsV2, Go, Hold
  <2>5. TypeOK'
    BY <1>0, <2>1, <2>2, <2>4 DEF TypeOK
  <2>6. CallInv'
    BY <1>0, <2>3, <2>4 DEF CallInv, TypeOK
  <2> QED
    BY <2>5, <2>6 DEF TypeInv
<1>12. ASSUME NEW t \in Threads, SettledRunsV2(t) PROVE TypeInv'
  <2>1. globalBest' \in Algos \cup {None}
    <3>1. GetAlgo(BestSlot) \in Algos
      BY <1>0, BestSlotExists, CandidateChosen, Iterations DEF TypeOK, Slots
    <3> QED
      BY <1>0, <1>12, <3>1 DEF SettledRunsV2, TypeOK
  <2>2. /\ pc' = [pc EXCEPT ![t] = "idle"] /\ mine' = [mine EXCEPT ![t] = None]
        /\ UNCHANGED <<env, v1, count, slotTime, key, history>>
    BY <1>12 DEF SettledRunsV2, Go, Hold
  <2>3. TypeOK'
    BY <1>0, <2>1, <2>2 DEF TypeOK
  <2>4. CallInv'
    BY <1>0, <2>2 DEF CallInv, TypeOK
  <2> QED
    BY <2>3, <2>4 DEF TypeInv
<1>13. CASE UNCHANGED vars
  BY <1>0, <1>13 DEF vars, TypeInv, TypeOK, CallInv
<1> QED
  BY <1>1, <1>2, <1>3, <1>4, <1>5, <1>6, <1>7, <1>8, <1>9, <1>10, <1>11, <1>12,
     <1>13 DEF Next, Step

(* Types are kept by any threads and candidates, in both versions and modes. *)
THEOREM TypeCorrect == Spec => []TypeOK
<1>1. TypeInv => TypeOK
  BY DEF TypeInv
<1> QED
  BY <1>1, TypeInit, TypeStep, PTL DEF Spec

LEMMA TypesHold == Spec => []TypeInv
  BY TypeInit, TypeStep, PTL DEF Spec
----------------------------------------------------------------------------
(* Version 1.  What a step does to the entries and what was measured. *)
Created(k, time) ==
    /\ helper' = [helper EXCEPT ![k] = [count |-> 1, time |-> time, algo |-> Candidates[1]]]
    /\ best' = [best EXCEPT ![k] = Candidates[1]]
    /\ Measure(k, Candidates[1], time)
Counted(k) ==
    /\ helper[k] # None /\ CountUp(k)
    /\ UNCHANGED <<best, measured>>
Timed(k, a, time) ==
    /\ helper[k] # None
    /\ Measure(k, a, time)
    /\ IF time < helper[k].time
       THEN /\ Keeps(k, a, time)
            /\ best' = [best EXCEPT ![k] = a]
       ELSE UNCHANGED <<helper, best>>

LEMMA EntriesMove ==
  ASSUME TypeInv, [Next]_vars
  PROVE  \/ UNCHANGED <<helper, best, measured>>
         \/ /\ version = 1 /\ UNCHANGED <<version, mode, key>>
            /\ \E t \in Threads :
                 \/ /\ pc[t] = "create" /\ pc' = [pc EXCEPT ![t] = "idle"]
                    /\ \E time \in Times : Created(key[t], time)
                 \/ /\ pc[t] \in {"skip", "eval"} /\ Counted(key[t])
                    /\ pc' \in {[pc EXCEPT ![t] = "idle"], [pc EXCEPT ![t] = "timing"]}
                 \/ /\ pc[t] = "timing" /\ mine[t] \in Algos
                    /\ pc' = [pc EXCEPT ![t] = "idle"]
                    /\ \E time \in Times : Timed(key[t], mine[t], time)
<1> USE DEF env, v1, v2, history
<1> DEFINE Stays == UNCHANGED <<helper, best, measured>>
<1>0. TypeOK /\ CallInv
  BY DEF TypeInv
<1>1. ASSUME NEW t \in Threads, Create(t)
      PROVE  /\ version = 1 /\ UNCHANGED <<version, mode, key>>
             /\ pc[t] = "create" /\ pc' = [pc EXCEPT ![t] = "idle"]
             /\ \E time \in Times : Created(key[t], time)
  BY <1>0, <1>1 DEF Create, Created, Go, CallInv
<1>2. ASSUME NEW t \in Threads, SkipRuns(t) \/ EvalStarts(t)
      PROVE  /\ version = 1 /\ UNCHANGED <<version, mode, key>>
             /\ pc[t] \in {"skip", "eval"} /\ Counted(key[t])
             /\ pc' \in {[pc EXCEPT ![t] = "idle"], [pc EXCEPT ![t] = "timing"]}
  BY <1>0, <1>2 DEF SkipRuns, EvalStarts, Counted, Go, CallInv
<1>3. ASSUME NEW t \in Threads, EvalEnds(t)
      PROVE  /\ version = 1 /\ UNCHANGED <<version, mode, key>>
             /\ pc[t] = "timing" /\ mine[t] \in Algos
             /\ pc' = [pc EXCEPT ![t] = "idle"]
             /\ \E time \in Times : Timed(key[t], mine[t], time)
  BY <1>0, <1>3 DEF EvalEnds, Timed, Keeps, Go, CallInv
<1>4. ASSUME NEW t \in Threads,
             \/ Begin(t) \/ FindMisses(t) \/ FindHits(t) \/ SettledRuns(t)
             \/ ReadCount(t) \/ SkipRunsV2(t) \/ EvalRunsV2(t) \/ SettledRunsV2(t)
      PROVE  Stays
  BY <1>4 DEF Begin, FindMisses, FindHits, SettledRuns, ReadCount, SkipRunsV2,
              EvalRunsV2, SettledRunsV2
<1>5. UNCHANGED vars => Stays
  BY DEF vars
<1>6. \/ \E t \in Threads : Create(t)
      \/ \E t \in Threads : SkipRuns(t) \/ EvalStarts(t)
      \/ \E t \in Threads : EvalEnds(t)
      \/ \E t \in Threads :
            \/ Begin(t) \/ FindMisses(t) \/ FindHits(t) \/ SettledRuns(t)
            \/ ReadCount(t) \/ SkipRunsV2(t) \/ EvalRunsV2(t) \/ SettledRunsV2(t)
      \/ UNCHANGED vars
  BY DEF Next, Step
<1> QED
  BY <1>1, <1>2, <1>3, <1>4, <1>5, <1>6

(* What is on record for a layer, entry by entry. *)
BestOf(k) ==
    helper[k] # None =>
        /\ best[k] = helper[k].algo
        /\ <<helper[k].algo, helper[k].time>> \in measured[k]

LEMMA BestStep == TypeInv /\ BestWasMeasured /\ [Next]_vars => BestWasMeasured'
<1> SUFFICES ASSUME TypeInv, \A k \in Keys : BestOf(k), [Next]_vars, NEW j \in Keys
             PROVE  BestOf(j)'
  BY DEF BestWasMeasured, BestOf
<1>0. /\ TypeOK /\ measured \in [Keys -> SUBSET (Algos \X Times)]
      /\ \A t \in Threads : key[t] \in Keys
  BY DEF TypeInv, CallInv, TypeOK
<1>1. CASE UNCHANGED <<helper, best, measured>>
  BY <1>1 DEF BestOf
<1>2. ASSUME NEW k \in Keys, NEW time \in Times, Created(k, time) PROVE BestOf(j)'
  BY <1>0, <1>2 DEF Created, Measure, BestOf, TypeOK
<1>3. ASSUME NEW k \in Keys, Counted(k) PROVE BestOf(j)'
  <2>1. /\ helper[k] # None
        /\ helper'[k].time = helper[k].time /\ helper'[k].algo = helper[k].algo
        /\ \A i \in Keys \ {k} : helper'[i] = helper[i]
    BY <1>0, <1>3, CountedUp DEF Counted
  <2> QED
    BY <1>3, <2>1 DEF Counted, BestOf
<1>4. ASSUME NEW k \in Keys, NEW a \in Algos, NEW time \in Times, Timed(k, a, time)
      PROVE  BestOf(j)'
  <2>1. /\ measured'[k] = measured[k] \cup {<<a, time>>}
        /\ \A i \in Keys \ {k} : measured'[i] = measured[i]
    BY <1>0, <1>4 DEF Timed, Measure
  <2>2. CASE time < helper[k].time
    <3>1. /\ helper[k] # None
          /\ Keeps(k, a, time)
          /\ best' = [best EXCEPT ![k] = a]
      BY <1>4, <2>2 DEF Timed
    <3>2. /\ helper'[k].time = time /\ helper'[k].algo = a
          /\ \A i \in Keys \ {k} : helper'[i] = helper[i]
      BY <1>0, <3>1, EntryKept
    <3>3. best'[k] = a /\ \A i \in Keys \ {k} : best'[i] = best[i]
      BY <1>0, <3>1 DEF TypeOK
    <3> QED
      BY <2>1, <3>2, <3>3 DEF BestOf
  <2>3. CASE ~(time < helper[k].time)
    BY <1>4, <2>1, <2>3 DEF Timed, BestOf
  <2> QED
    BY <2>2, <2>3
<1> QED
  BY <1>0, <1>1, <1>2, <1>3, <1>4, EntriesMove

(* However the calls of version 1 interleave, the algorithm a layer is served
   with is the one its best time was measured with. *)
THEOREM BestIsMeasured == Spec => []BestWasMeasured
<1>1. Init => BestWasMeasured
  BY DEF Init, BestWasMeasured
<1> QED
  BY <1>1, BestStep, TypesHold, PTL DEF Spec
----------------------------------------------------------------------------
(* The graph run by one thread: no two calls are in flight.  In version 1 a
   layer is therefore measured from the call that creates its entry on, and an
   evaluation begins only below the total. *)
OneCaller ==
    mode = "serial" =>
        \A t, u \in Threads : pc[t] # "idle" /\ pc[u] # "idle" => t = u

FastestOf(k) ==
    /\ helper[k] = None => measured[k] = {}
    /\ helper[k] # None =>
         /\ helper[k].count <= TotalIter
         /\ \A m \in measured[k] : helper[k].time <= m[2]

SerialInv ==
    version = 1 /\ mode = "serial" =>
        /\ \A k \in Keys : FastestOf(k)
        /\ \A t \in Threads :
             /\ pc[t] = "create" => helper[key[t]] = None
             /\ pc[t] \in {"skip", "eval"} => helper[key[t]].count < TotalIter

LEMMA OneCallerStep == TypeInv /\ OneCaller /\ [Next]_vars => OneCaller'
<1> SUFFICES ASSUME TypeInv, OneCaller, [Next]_vars PROVE OneCaller'
  OBVIOUS
<1> USE DEF env, v1, v2, history
<1>0. pc \in [Threads -> PcStates]
  BY DEF TypeInv, TypeOK
<1>1. ASSUME NEW t \in Threads, Begin(t) PROVE OneCaller'
  BY <1>0, <1>1 DEF Begin, Go, OneCaller
<1>2. ASSUME NEW t \in Threads, pc[t] # "idle", NEW s, pc' = [pc EXCEPT ![t] = s],
             mode' = mode
      PROVE  OneCaller'
  BY <1>0, <1>2 DEF OneCaller
<1>3. ASSUME NEW t \in Threads, Step(t) PROVE OneCaller'
  <2>1. /\ pc[t] # "idle" /\ mode' = mode
        /\ \E s : pc' = [pc EXCEPT ![t] = s]
    <3>1. FindMisses(t) \/ FindHits(t) \/ Create(t) \/ SkipRuns(t) \/ EvalStarts(t) =>
             pc[t] # "idle" /\ mode' = mode /\ \E s : pc' = [pc EXCEPT ![t] = s]
      BY DEF FindMisses, FindHits, Create, SkipRuns, EvalStarts, Go
    <3>2. EvalEnds(t) \/ SettledRuns(t) \/ ReadCount(t) =>
             pc[t] # "idle" /\ mode' = mode /\ \E s : pc' = [pc EXCEPT ![t] = s]
      BY DEF EvalEnds, SettledRuns, ReadCount, Go
    <3>3. SkipRunsV2(t) \/ EvalRunsV2(t) \/ SettledRunsV2(t) =>
             pc[t] # "idle" /\ mode' = mode /\ \E s : pc' = [pc EXCEPT ![t] = s]
      BY DEF SkipRunsV2, EvalRunsV2, SettledRunsV2, Go
    <3> QED
      BY <1>3, <3>1, <3>2, <3>3 DEF Step
  <2> QED
    BY <1>2, <2>1
<1>4. CASE UNCHANGED vars
  BY <1>4 DEF vars, OneCaller
<1> QED
  BY <1>1, <1>3, <1>4 DEF Next

(* The steps of version 1 that a phase or a lookup decides. *)
LEMMA SerialPhases ==
  ASSUME TypeInv, OneCaller, SerialInv, [Next]_vars, version = 1, mode = "serial",
         NEW t \in Threads, UNCHANGED <<helper, measured>>
  PROVE  /\ pc'[t] = "create" => helper[key'[t]] = None
         /\ pc'[t] \in {"skip", "eval"} => helper[key'[t]].count < TotalIter
<1> USE DEF env, v1, v2, history
<1> DEFINE Goal == /\ pc'[t] = "create" => helper[key'[t]] = None
                   /\ pc'[t] \in {"skip", "eval"} => helper[key'[t]].count < TotalIter
<1>0. TypeOK /\ CallInv /\ TotalIter \in Nat
  BY Iterations DEF TypeInv
<1>1. CASE pc'[t] = pc[t] /\ key'[t] = key[t]
  BY <1>1 DEF SerialInv
<1>2. CASE pc'[t] \notin {"create", "skip", "eval"}
  BY <1>2
<1>3. ASSUME NEW u \in Threads, Begin(u) PROVE Goal
  BY <1>0, <1>1, <1>2, <1>3 DEF Begin, Go, TypeOK
<1>4. ASSUME NEW u \in Threads, FindMisses(u) PROVE Goal
  <2>1. helper[key[u]] = None
    BY <1>4 DEF FindMisses, MayMiss, Inserting, OneCaller
  <2> QED
    BY <1>0, <1>1, <1>4, <2>1 DEF FindMisses, Go, TypeOK
<1>5. ASSUME NEW u \in Threads, FindHits(u) PROVE Goal
  <2>1. helper[key[u]] \in Entries /\ helper[key[u]] # None
    BY <1>0, <1>5 DEF FindHits, TypeOK
  <2>2. helper[key[u]].count <= TotalIter /\ helper[key[u]].count \in Nat
    BY <1>0, <2>1 DEF SerialInv, FastestOf, TypeOK, Entries
  <2>3. Phase(helper[key[u]].count) \in {"skip", "eval"} => helper[key[u]].count < TotalIter
    BY <1>0, <2>2, Iterations DEF Phase
  <2>4. Phase(helper[key[u]].count) # "create"
    BY DEF Phase
  <2> QED
    BY <1>0, <1>1, <1>5, <2>3, <2>4 DEF FindHits, Go, TypeOK
<1>6. ASSUME NEW u \in Threads,
             Create(u) \/ SkipRuns(u) \/ EvalStarts(u) \/ EvalEnds(u) \/ SettledRuns(u)
      PROVE  Goal
  <2>1. /\ pc' \in {[pc EXCEPT ![u] = "idle"], [pc EXCEPT ![u] = "timing"]}
        /\ key' = key
    BY <1>6 DEF Create, SkipRuns, EvalStarts, EvalEnds, SettledRuns, Go
  <2> QED
    BY <1>0, <1>1, <1>2, <2>1 DEF TypeOK
<1>7. ASSUME NEW u \in Threads PROVE ~ReadCount(u) /\ ~SkipRunsV2(u) /\ ~EvalRunsV2(u)
                                     /\ ~SettledRunsV2(u)
  BY DEF ReadCount, SkipRunsV2, EvalRunsV2, SettledRunsV2
<1>8. CASE UNCHANGED vars
  BY <1>1, <1>8 DEF vars
<1> QED
  BY <1>3, <1>4, <1>5, <1>6, <1>7, <1>8 DEF Next, Step

LEMMA ModeStays == [Next]_vars => version' = version /\ mode' = mode
<1> USE DEF env
<1>1. \A t \in Threads : Begin(t) => version' = version /\ mode' = mode
  BY DEF Begin
<1>2. \A t \in Threads : Step(t) => version' = version /\ mode' = mode
  BY DEF Step, FindMisses, FindHits, Create, SkipRuns, EvalStarts, EvalEnds,
         SettledRuns, ReadCount, SkipRunsV2, EvalRunsV2, SettledRunsV2
<1> QED
  BY <1>1, <1>2 DEF Next, vars

LEMMA SerialStep == TypeInv /\ OneCaller /\ SerialInv /\ [Next]_vars => SerialInv'
<1> SUFFICES ASSUME TypeInv, OneCaller, SerialInv, [Next]_vars,
                    version = 1, mode = "serial"
             PROVE  /\ \A k \in Keys : FastestOf(k)'
                    /\ \A t \in Threads :
                         /\ pc'[t] = "create" => helper'[key'[t]] = None
                         /\ pc'[t] \in {"skip", "eval"} => helper'[key'[t]].count < TotalIter
  BY ModeStays DEF SerialInv
<1>0. /\ TypeOK /\ TotalIter \in Nat \ {0} /\ OneCaller'
      /\ measured \in [Keys -> SUBSET (Algos \X Times)]
      /\ \A t \in Threads : key[t] \in Keys
      /\ \A k \in Keys : FastestOf(k)
      /\ \A k \in Keys : helper[k] # None => helper[k] \in Entries
      /\ Times \subseteq Nat
  BY Iterations, OneCallerStep, TimesArePositive DEF TypeInv, TypeOK, CallInv, SerialInv
<1>1. CASE UNCHANGED <<helper, best, measured>>
  BY <1>0, <1>1, SerialPhases DEF FastestOf
<1>2. ASSUME NEW t \in Threads, pc[t] # "idle",
             pc' \in {[pc EXCEPT ![t] = "idle"], [pc EXCEPT ![t] = "timing"]}
      PROVE  \A u \in Threads : pc'[u] \notin {"create", "skip", "eval"}
  BY <1>0, <1>2 DEF OneCaller, TypeOK
<1>3. ASSUME NEW t \in Threads, pc[t] = "create", NEW time \in Times,
             Created(key[t], time), NEW k \in Keys
      PROVE  FastestOf(k)'
  <2>1. /\ helper'[key[t]] = [count |-> 1, time |-> time, algo |-> Candidates[1]]
        /\ measured'[key[t]] = measured[key[t]] \cup {<<Candidates[1], time>>}
        /\ \A j \in Keys \ {key[t]} : helper'[j] = helper[j] /\ measured'[j] = measured[j]
    BY <1>0, <1>3 DEF Created, Measure, TypeOK
  <2>2. measured[key[t]] = {}
    BY <1>0, <1>3 DEF SerialInv, FastestOf
  <2>3. [count |-> 1, time |-> time, algo |-> Candidates[1]] # None
    BY <1>0, FirstCandidate, NoneIsNone DEF Entries
  <2>4. CASE k = key[t]
    BY <1>0, <2>1, <2>2, <2>3, <2>4 DEF FastestOf
  <2>5. CASE k # key[t]
    BY <1>0, <2>1, <2>5 DEF FastestOf
  <2> QED
    BY <2>4, <2>5
<1>4. ASSUME NEW t \in Threads, pc[t] \in {"skip", "eval"}, Counted(key[t]), NEW k \in Keys
      PROVE  FastestOf(k)'
  <2>1. /\ helper[key[t]] # None /\ measured' = measured
        /\ helper'[key[t]].count = helper[key[t]].count + 1
        /\ helper'[key[t]].time = helper[key[t]].time /\ helper'[key[t]] \in Entries
        /\ \A j \in Keys \ {key[t]} : helper'[j] = helper[j]
    BY <1>0, <1>4, CountedUp DEF Counted
  <2>2. helper[key[t]].count < TotalIter /\ helper[key[t]].count \in Nat
    BY <1>0, <1>4, <2>1 DEF SerialInv, Entries
  <2>3. CASE k = key[t]
    BY <1>0, <2>1, <2>2, <2>3, NoneIsNone DEF FastestOf
  <2>4. CASE k # key[t]
    BY <1>0, <2>1, <2>4 DEF FastestOf
  <2> QED
    BY <2>3, <2>4
<1>5. ASSUME NEW t \in Threads, mine[t] \in Algos, NEW time \in Times,
             Timed(key[t], mine[t], time), NEW k \in Keys
      PROVE  FastestOf(k)'
  <2>1. /\ measured'[key[t]] = measured[key[t]] \cup {<<mine[t], time>>}
        /\ \A i \in Keys \ {key[t]} : measured'[i] = measured[i]
        /\ helper[key[t]] # None
    BY <1>0, <1>5 DEF Timed, Measure
  <2>2. /\ helper[key[t]].time \in Nat /\ time \in Nat
        /\ \A m \in measured[key[t]] : m[2] \in Nat
    BY <1>0, <2>1 DEF Entries
  <2>3. CASE time < helper[key[t]].time
    <3>1. Keeps(key[t], mine[t], time)
      BY <1>5, <2>3 DEF Timed
    <3>2. /\ helper'[key[t]].time = time /\ helper'[key[t]].count = helper[key[t]].count
          /\ helper'[key[t]] \in Entries
          /\ \A i \in Keys \ {key[t]} : helper'[i] = helper[i]
      BY <1>0, <1>5, <2>1, <3>1, EntryKept
    <3>3. CASE k = key[t]
      BY <1>0, <2>1, <2>2, <2>3, <3>2, <3>3, NoneIsNone DEF FastestOf
    <3>4. CASE k # key[t]
      BY <1>0, <2>1, <3>2, <3>4 DEF FastestOf
    <3> QED
      BY <3>3, <3>4
  <2>4. CASE ~(time < helper[key[t]].time)
    <3>1. helper' = helper
      BY <1>5, <2>4 DEF Timed
    <3> QED
      BY <1>0, <2>1, <2>2, <2>4, <3>1 DEF FastestOf
  <2> QED
    BY <2>3, <2>4
<1> QED
  BY <1>1, <1>2, <1>3, <1>4, <1>5, EntriesMove

(* Version 1, one caller: a layer's count stops at the total and the layer is
   served with a fastest of all its timed runs. *)
THEOREM SettlesFastest == Spec => []SettlesOnFastest
<1>1. Init => OneCaller /\ SerialInv
  BY DEF Init, OneCaller, SerialInv, FastestOf
<1>2. SerialInv => SettlesOnFastest
  BY DEF SerialInv, FastestOf, SettlesOnFastest
<1> QED
  BY <1>1, <1>2, OneCallerStep, SerialStep, TypesHold, PTL DEF Spec
----------------------------------------------------------------------------
(* Version 2.  Every slot below the count of a layer has been timed for it, and
   so has every slot below a count that a call still holds: a lost update only
   sends the count back to one that was reached. *)
TimedUpTo(s, k, n) ==
    \A e \in Slots : SkipIter + e < n => \E i \in DOMAIN s[e] : s[e][i] = k

SlotInv ==
    version = 2 =>
        /\ \A k \in Keys : TimedUpTo(samples, k, count[k])
        /\ \A t \in Threads : pc[t] \in {"skip", "eval"} => TimedUpTo(samples, key[t], mine[t])

LEMMA Appended ==
  ASSUME TypeInv, NEW e \in Slots, NEW j \in Keys,
         samples' = [samples EXCEPT ![e] = Append(@, j)]
  PROVE  /\ \A f \in Slots \ {e} : samples'[f] = samples[f]
         /\ samples'[e] = Append(samples[e], j) /\ samples[e] \in Seq(Keys)
         /\ \A f \in Slots : \A k \in Keys :
               (\E i \in DOMAIN samples[f] : samples[f][i] = k) =>
                   \E i \in DOMAIN samples'[f] : samples'[f][i] = k
         /\ \E i \in DOMAIN samples'[e] : samples'[e][i] = j
<1>1. /\ \A f \in Slots \ {e} : samples'[f] = samples[f]
      /\ samples'[e] = Append(samples[e], j) /\ samples[e] \in Seq(Keys)
  BY DEF TypeInv, CallInv
<1>2. /\ DOMAIN samples[e] = 1 .. Len(samples[e]) /\ Len(samples[e]) \in Nat
      /\ DOMAIN samples'[e] = 1 .. Len(samples[e]) + 1
      /\ \A i \in 1 .. Len(samples[e]) : samples'[e][i] = samples[e][i]
      /\ samples'[e][Len(samples[e]) + 1] = j
  BY <1>1
<1>3. \A k \in Keys : (\E i \in DOMAIN samples[e] : samples[e][i] = k) =>
                            \E i \in DOMAIN samples'[e] : samples'[e][i] = k
  BY <1>2
<1>4. \E i \in DOMAIN samples'[e] : samples'[e][i] = j
  BY <1>2
<1> QED
  BY <1>1, <1>3, <1>4

(* What a step of version 2 does to the counts and the slots. *)
Runs(t) ==
    /\ pc[t] \in {"skip", "eval"}
    /\ WriteCount(t)
    /\ pc' = [pc EXCEPT ![t] = "idle"] /\ mine' = [mine EXCEPT ![t] = None]
    /\ UNCHANGED <<env, key, globalBest>>
    /\ pc[t] = "skip" => samples' = samples
    /\ pc[t] = "eval" =>
         samples' = [samples EXCEPT ![mine[t] - SkipIter] = Append(@, key[t])]

LEMMA CountsMove ==
  ASSUME TypeInv, [Next]_vars, version = 2
  PROVE  \/ \E t \in Threads : Runs(t)
         \/ /\ UNCHANGED <<count, samples>>
            /\ \A t \in Threads : pc'[t] \in {"skip", "eval"} =>
                 /\ key'[t] = key[t]
                 /\ \/ pc'[t] = pc[t] /\ mine'[t] = mine[t]
                    \/ mine'[t] = count[key[t]]
<1> USE DEF env, v1, v2, history
<1> DEFINE Left == /\ UNCHANGED <<count, samples>>
                   /\ \A t \in Threads : pc'[t] \in {"skip", "eval"} =>
                        /\ key'[t] = key[t]
                        /\ \/ pc'[t] = pc[t] /\ mine'[t] = mine[t]
                           \/ mine'[t] = count[key[t]]
<1>0. TypeOK /\ CallInv
  BY DEF TypeInv
<1>1. ASSUME NEW t \in Threads, Begin(t) PROVE Left
  BY <1>0, <1>1 DEF Begin, Go, TypeOK
<1>2. ASSUME NEW t \in Threads, ReadCount(t) PROVE Left
  BY <1>0, <1>2 DEF ReadCount, Go, Hold, TypeOK
<1>3. ASSUME NEW t \in Threads, SettledRunsV2(t) PROVE Left
  BY <1>0, <1>3 DEF SettledRunsV2, Go, Hold, TypeOK
<1>4. ASSUME NEW t \in Threads, SkipRunsV2(t) \/ EvalRunsV2(t) PROVE Runs(t)
  BY <1>4 DEF SkipRunsV2, EvalRunsV2, Go, Hold, Runs
<1>5. ASSUME NEW t \in Threads
      PROVE  ~(\/ FindMisses(t) \/ FindHits(t) \/ Create(t) \/ SkipRuns(t)
               \/ EvalStarts(t) \/ EvalEnds(t) \/ SettledRuns(t))
  BY <1>0 DEF FindMisses, FindHits, Create, SkipRuns, EvalStarts, EvalEnds,
              SettledRuns, CallInv
<1>6. CASE UNCHANGED vars
  BY <1>6 DEF vars
<1> QED
  BY <1>1, <1>2, <1>3, <1>4, <1>5, <1>6 DEF Next, Step

LEMMA SlotStep == TypeInv /\ SlotInv /\ [Next]_vars => SlotInv'
<1> SUFFICES ASSUME TypeInv, SlotInv, [Next]_vars, version = 2
             PROVE  /\ \A k \in Keys : TimedUpTo(samples', k, count'[k])
                    /\ \A t \in Threads : pc'[t] \in {"skip", "eval"} =>
                         TimedUpTo(samples', key'[t], mine'[t])
  BY ModeStays DEF SlotInv, TimedUpTo
<1>0. /\ TypeOK /\ CallInv
      /\ \A k \in Keys : TimedUpTo(samples, k, count[k])
      /\ \A t \in Threads : pc[t] \in {"skip", "eval"} => TimedUpTo(samples, key[t], mine[t])
      /\ \A t \in Threads : key[t] \in Keys
      /\ Slots \subseteq Nat /\ SkipIter \in Nat /\ TotalIter = SkipIter + EvalIter
      /\ EvalIter \in Nat
  BY Iterations DEF TypeInv, SlotInv, TypeOK, Slots
<1>1. CASE /\ UNCHANGED <<count, samples>>
           /\ \A t \in Threads : pc'[t] \in {"skip", "eval"} =>
                /\ key'[t] = key[t]
                /\ \/ pc'[t] = pc[t] /\ mine'[t] = mine[t]
                   \/ mine'[t] = count[key[t]]
  BY <1>0, <1>1 DEF TimedUpTo
<1>2. ASSUME NEW t \in Threads, Runs(t)
      PROVE  /\ \A k \in Keys : TimedUpTo(samples', k, count'[k])
             /\ \A u \in Threads : pc'[u] \in {"skip", "eval"} =>
                  TimedUpTo(samples', key'[u], mine'[u])
  <2>1. /\ count' = [count EXCEPT ![key[t]] = mine[t] + 1]
        /\ pc' = [pc EXCEPT ![t] = "idle"] /\ mine' = [mine EXCEPT ![t] = None]
        /\ key' = key
    BY <1>2 DEF Runs, WriteCount
  <2>2. \A f \in Slots : \A k \in Keys :
           (\E i \in DOMAIN samples[f] : samples[f][i] = k) =>
               \E i \in DOMAIN samples'[f] : samples'[f][i] = k
    <3>1. CASE pc[t] = "skip"
      BY <1>2, <3>1 DEF Runs
    <3>2. CASE pc[t] = "eval"
      <4>1. mine[t] - SkipIter \in Slots
        BY <1>0, <3>2 DEF CallInv, Slots
      <4> QED
        BY <1>0, <1>2, <3>2, <4>1, Appended DEF Runs
    <3> QED
      BY <1>2, <3>1, <3>2 DEF Runs
  <2>3. TimedUpTo(samples', key[t], mine[t] + 1)
    <3> SUFFICES ASSUME NEW e \in Slots, SkipIter + e < mine[t] + 1
                 PROVE  \E i \in DOMAIN samples'[e] : samples'[e][i] = key[t]
      BY DEF TimedUpTo
    <3>1. CASE pc[t] = "skip"
      BY <1>0, <3>1 DEF CallInv
    <3>2. CASE pc[t] = "eval" /\ SkipIter + e < mine[t]
      BY <1>0, <2>2, <3>2 DEF TimedUpTo
    <3>3. CASE pc[t] = "eval" /\ ~(SkipIter + e < mine[t])
      <4>1. mine[t] \in Nat /\ mine[t] - SkipIter = e
        BY <1>0, <3>3 DEF CallInv
      <4> QED
        BY <1>0, <1>2, <3>3, <4>1, Appended DEF Runs
    <3> QED
      BY <1>2, <3>1, <3>2, <3>3 DEF Runs
  <2>4. \A k \in Keys : TimedUpTo(samples', k, count'[k])
    BY <1>0, <2>1, <2>2, <2>3 DEF TimedUpTo, TypeOK
  <2>5. \A u \in Threads : pc'[u] \in {"skip", "eval"} => TimedUpTo(samples', key'[u], mine'[u])
    BY <1>0, <2>1, <2>2 DEF TimedUpTo, TypeOK
  <2> QED
    BY <2>4, <2>5
<1> QED
  BY <1>1, <1>2, CountsMove

(* Whatever updates of the count are lost, a layer past its evaluation has
   timed every slot: the minimum is never taken over a slot nobody ran. *)
THEOREM SlotsAreTimed == Spec => []EverySlotTimed
<1>1. Init => SlotInv
  <2>1. \A e \in Slots : ~(SkipIter + e < 0)
    BY Iterations DEF Slots
  <2> QED
    BY <2>1 DEF Init, SlotInv, TimedUpTo
<1>2. TypeInv /\ SlotInv => EverySlotTimed
  <2> SUFFICES ASSUME TypeInv, SlotInv, version = 2, NEW k \in Keys,
                      count[k] >= TotalIter, NEW e \in Slots
               PROVE  \E i \in DOMAIN samples[e] : samples[e][i] = k
    BY DEF EverySlotTimed
  <2>1. count[k] \in 0 .. TotalIter
    BY DEF TypeInv, TypeOK
  <2>2. SkipIter + e < count[k]
    BY <2>1, Iterations DEF Slots
  <2> QED
    BY <2>2 DEF SlotInv, TimedUpTo
<1> QED
  BY <1>1, <1>2, SlotStep, TypesHold, PTL DEF Spec
(* What a slot was timed for it stays timed for. *)
LEMMA TimedStays ==
  ASSUME TypeInv, [Next]_vars, version = 2, NEW k \in Keys, NEW n,
         TimedUpTo(samples, k, n)
  PROVE  TimedUpTo(samples', k, n)
<1>1. CASE samples' = samples
  BY <1>1 DEF TimedUpTo
<1>2. ASSUME NEW t \in Threads, Runs(t), pc[t] = "eval"
      PROVE  TimedUpTo(samples', k, n)
  <2>1. mine[t] - SkipIter \in Slots /\ key[t] \in Keys
    BY <1>2, Iterations DEF Runs, TypeInv, TypeOK, CallInv, Slots, env
  <2> QED
    BY <1>2, <2>1, Appended DEF Runs, TimedUpTo
<1> QED
  BY <1>1, <1>2, CountsMove DEF Runs

(* A call sent past the evaluation, and so the pick it may make, rests on every
   slot timed for its layer, whatever becomes of the layer's count. *)
RestInv ==
    version = 2 =>
        /\ \A t \in Threads : pc[t] = "settled" => TimedUpTo(samples, key[t], TotalIter)
        /\ globalBest # None => \E k \in Keys : TimedUpTo(samples, k, TotalIter)

(* Where a call past the evaluation and a pick come from. *)
LEMMA SettlesFrom ==
  ASSUME TypeInv, [Next]_vars, version = 2
  PROVE  /\ \A t \in Threads : pc'[t] = "settled" =>
              /\ key'[t] = key[t]
              /\ pc[t] = "settled" \/ count[key[t]] = TotalIter
         /\ globalBest' # None =>
              globalBest # None \/ \E t \in Threads : pc[t] = "settled"
<1> USE DEF env, v1, v2, history
<1> DEFINE From == /\ \A t \in Threads : pc'[t] = "settled" =>
                        /\ key'[t] = key[t]
                        /\ pc[t] = "settled" \/ count[key[t]] = TotalIter
                   /\ globalBest' # None =>
                        globalBest # None \/ \E t \in Threads : pc[t] = "settled"
<1>0. /\ TypeOK /\ CallInv /\ TotalIter \in Nat
      /\ \A t \in Threads : count[key[t]] \in 0 .. TotalIter
  BY Iterations DEF TypeInv, TypeOK
<1>1. ASSUME NEW t \in Threads, Begin(t) PROVE From
  BY <1>0, <1>1 DEF Begin, Go, TypeOK
<1>2. ASSUME NEW t \in Threads, ReadCount(t) PROVE From
  <2>1. PhaseV2(count[key[t]]) = "settled" => count[key[t]] = TotalIter
    BY <1>0 DEF PhaseV2
  <2> QED
    BY <1>0, <1>2, <2>1 DEF ReadCount, Go, TypeOK
<1>3. ASSUME NEW t \in Threads, SettledRunsV2(t) PROVE From
  BY <1>0, <1>3 DEF SettledRunsV2, Go, TypeOK
<1>4. ASSUME NEW t \in Threads, SkipRunsV2(t) \/ EvalRunsV2(t) PROVE From
  BY <1>0, <1>4 DEF SkipRunsV2, EvalRunsV2, Go, TypeOK
<1>5. ASSUME NEW t \in Threads
      PROVE  ~(\/ FindMisses(t) \/ FindHits(t) \/ Create(t) \/ SkipRuns(t)
               \/ EvalStarts(t) \/ EvalEnds(t) \/ SettledRuns(t))
  BY <1>0 DEF FindMisses, FindHits, Create, SkipRuns, EvalStarts, EvalEnds,
              SettledRuns, CallInv
<1>6. CASE UNCHANGED vars
  BY <1>6 DEF vars
<1> QED
  BY <1>1, <1>2, <1>3, <1>4, <1>5, <1>6 DEF Next, Step

LEMMA RestStep == TypeInv /\ SlotInv /\ RestInv /\ [Next]_vars => RestInv'
<1> SUFFICES ASSUME TypeInv, SlotInv, RestInv, [Next]_vars, version = 2
             PROVE  /\ \A t \in Threads : pc'[t] = "settled" =>
                         TimedUpTo(samples', key'[t], TotalIter)
                    /\ globalBest' # None =>
                         \E k \in Keys : TimedUpTo(samples', k, TotalIter)
  BY ModeStays DEF RestInv, TimedUpTo
<1>0. \A t \in Threads : key[t] \in Keys
  BY DEF TypeInv, TypeOK
<1>1. \A t \in Threads : pc[t] = "settled" \/ count[key[t]] = TotalIter =>
         TimedUpTo(samples, key[t], TotalIter)
  BY <1>0 DEF SlotInv, RestInv
<1>2. ASSUME NEW t \in Threads, pc'[t] = "settled"
      PROVE  TimedUpTo(samples', key'[t], TotalIter)
  BY <1>0, <1>1, <1>2, SettlesFrom, TimedStays
<1>3. ASSUME globalBest' # None
      PROVE  \E k \in Keys : TimedUpTo(samples', k, TotalIter)
  <2>1. PICK k \in Keys : TimedUpTo(samples, k, TotalIter)
    BY <1>0, <1>1, <1>3, SettlesFrom DEF RestInv
  <2> QED
    BY <2>1, TimedStays
<1> QED
  BY <1>2, <1>3

(* Version 2, however the calls interleave: when the process-wide best is
   picked some layer has timed every slot, even if a peer's lost update has
   sent the count of the picking call's layer back since it was read. *)
THEOREM PickRests == Spec => []PickRestsOnEvaluation
<1>1. Init => SlotInv /\ RestInv
  <2>1. \A e \in Slots : ~(SkipIter + e < 0)
    BY Iterations DEF Slots
  <2> QED
    BY <2>1 DEF Init, SlotInv, RestInv, TimedUpTo
<1>2. TypeInv /\ RestInv => PickRestsOnEvaluation
  <2>1. \A e \in Slots : SkipIter + e < TotalIter
    BY Iterations DEF Slots
  <2> QED
    BY <2>1 DEF RestInv, PickRestsOnEvaluation, TimedUpTo
<1> QED
  BY <1>1, <1>2, SlotStep, RestStep, TypesHold, PTL DEF Spec
----------------------------------------------------------------------------
(* Version 2, one caller.  Rounds of the graph keep the layers within one call
   of each other: R rounds have begun in full, and the layers before `next` are
   one call ahead. *)
InFlight(j) == \E t \in Threads : pc[t] # "idle" /\ key[t] = Layers[j]
CallsDone(R, j) ==
    R + (IF j < next THEN 1 ELSE 0) - (IF InFlight(j) THEN 1 ELSE 0)
CountIs(n) == IF n < TotalIter THEN n ELSE TotalIter

InRounds ==
    \E R \in Nat : \A j \in DOMAIN Layers :
        CallsDone(R, j) \in Nat /\ count[Layers[j]] = CountIs(CallsDone(R, j))

\* Nothing happens between a call's reading the count and its writing it.
CountsHeld ==
    \A t \in Threads :
        /\ pc[t] \in {"skip", "eval"} => mine[t] = count[key[t]]
        /\ pc[t] = "settled" => count[key[t]] = TotalIter

PickedLast == globalBest # None => \A k \in Keys : count[k] = TotalIter

RunsOf(s, k) == {i \in DOMAIN s : s[i] = k}
TimedOnce ==
    \A e \in Slots : \A k \in Keys :
        Cardinality(RunsOf(samples[e], k)) = IF SkipIter + e < count[k] THEN 1 ELSE 0

TurnInv ==
    version = 2 /\ mode = "serial" => InRounds /\ CountsHeld /\ PickedLast /\ TimedOnce

(* The steps of that thread. *)
Calls(t) ==
    /\ \A u \in Threads : pc[u] = "idle"
    /\ pc' = [pc EXCEPT ![t] = "find"] /\ key' = [key EXCEPT ![t] = Layers[next]]
    /\ next' = (next % Len(Layers)) + 1
    /\ UNCHANGED <<count, samples, globalBest, mine>>
Reads(t) ==
    /\ pc[t] = "find" /\ pc' = [pc EXCEPT ![t] = PhaseV2(count[key[t]])]
    /\ mine' = [mine EXCEPT ![t] = count[key[t]]]
    /\ UNCHANGED <<next, key, count, samples, globalBest>>
Picks(t) ==
    /\ pc[t] = "settled" /\ pc' = [pc EXCEPT ![t] = "idle"]
    /\ globalBest' # None => globalBest = None \/ globalBest' = globalBest
    /\ mine' = [mine EXCEPT ![t] = None]
    /\ UNCHANGED <<next, key, count, samples>>

LEMMA TurnsMove ==
  ASSUME TypeInv, [Next]_vars, version = 2, mode = "serial"
  PROVE  \/ \E t \in Threads : Calls(t) \/ Runs(t) \/ Reads(t) \/ Picks(t)
         \/ UNCHANGED <<next, pc, key, count, samples, globalBest, mine>>
<1> USE DEF env, v1, v2, history
<1>0. CallInv
  BY DEF TypeInv
<1>1. ASSUME NEW t \in Threads, Begin(t) PROVE Calls(t)
  BY <1>1 DEF Begin, Go, Calls
<1>2. ASSUME NEW t \in Threads, ReadCount(t) PROVE Reads(t)
  BY <1>2 DEF ReadCount, Go, Hold, Reads
<1>3. ASSUME NEW t \in Threads, SettledRunsV2(t) PROVE Picks(t)
  BY <1>3 DEF SettledRunsV2, Go, Hold, Picks
<1>4. ASSUME NEW t \in Threads, SkipRunsV2(t) \/ EvalRunsV2(t) PROVE Runs(t)
  BY <1>4 DEF SkipRunsV2, EvalRunsV2, Go, Hold, Runs
<1>5. ASSUME NEW t \in Threads
      PROVE  ~(\/ FindMisses(t) \/ FindHits(t) \/ Create(t) \/ SkipRuns(t)
               \/ EvalStarts(t) \/ EvalEnds(t) \/ SettledRuns(t))
  BY <1>0 DEF FindMisses, FindHits, Create, SkipRuns, EvalStarts, EvalEnds,
              SettledRuns, CallInv
<1>6. CASE UNCHANGED vars
  BY <1>6 DEF vars
<1> QED
  BY <1>1, <1>2, <1>3, <1>4, <1>5, <1>6 DEF Next, Step

(* A call begins where the graph is, and ends when it is alone. *)
LEMMA NextTurns ==
  ASSUME NEW n \in Nat \ {0}, NEW m \in 1 .. n
  PROVE  (m % n) + 1 = IF m = n THEN 1 ELSE m + 1
  OBVIOUS

LEMMA RoundStep ==
  ASSUME LayersAreDistinct, TypeInv, OneCaller, [Next]_vars,
         version = 2, mode = "serial", InRounds, CountsHeld
  PROVE  InRounds'
<1> DEFINE n == Len(Layers)
<1>0. /\ TypeOK /\ CallInv /\ n \in Nat \ {0} /\ DOMAIN Layers = 1 .. n /\ next \in 1 .. n
      /\ TotalIter \in Nat /\ Keys = {Layers[j] : j \in 1 .. n}
      /\ \A i, j \in 1 .. n : Layers[i] = Layers[j] => i = j
  <2>1. n \in Nat \ {0} /\ DOMAIN Layers = 1 .. n
    BY SomeLayers
  <2>2. TypeOK /\ CallInv /\ next \in DOMAIN Layers /\ TotalIter \in Nat
    BY Iterations DEF TypeInv, TypeOK
  <2> QED
    BY <2>1, <2>2 DEF LayersAreDistinct, Keys
<1>1. PICK R \in Nat : \A j \in 1 .. n :
         CallsDone(R, j) \in Nat /\ count[Layers[j]] = CountIs(CallsDone(R, j))
  BY <1>0 DEF InRounds
<1> HIDE DEF n
<1>2. CASE UNCHANGED <<next, pc, key, count, samples, globalBest, mine>>
  BY <1>0, <1>1, <1>2 DEF InRounds, CallsDone, InFlight
<1>3. ASSUME NEW t \in Threads, Calls(t) PROVE InRounds'
  <2>0. PICK S \in Nat : S = IF next = n THEN R + 1 ELSE R
    OBVIOUS
  <2>1. next' = IF next = n THEN 1 ELSE next + 1
    BY <1>0, <1>3, NextTurns DEF Calls, n
  <2>2. ASSUME NEW j \in 1 .. n PROVE InFlight(j)' <=> j = next
    BY <1>0, <1>3 DEF InFlight, Calls, TypeOK
  <2>3. ASSUME NEW j \in 1 .. n PROVE ~InFlight(j)
    BY <1>3 DEF InFlight, Calls
  <2>4. ASSUME NEW j \in 1 .. n PROVE CallsDone(S, j)' = CallsDone(R, j)
    BY <1>0, <2>0, <2>1, <2>2, <2>3 DEF CallsDone
  <2>5. \A j \in 1 .. n :
          CallsDone(S, j)' \in Nat /\ count'[Layers[j]] = CountIs(CallsDone(S, j))'
    BY <1>1, <1>3, <2>4 DEF Calls, CountIs
  <2> QED
    BY <1>0, <2>5 DEF InRounds
<1>4. ASSUME NEW t \in Threads, Reads(t) PROVE InRounds'
  <2>1. PhaseV2(count[key[t]]) # "idle"
    BY DEF PhaseV2
  <2>2. \A j \in 1 .. n : InFlight(j)' <=> InFlight(j)
    BY <1>0, <1>4, <2>1 DEF Reads, InFlight, TypeOK
  <2> QED
    BY <1>0, <1>1, <1>4, <2>2 DEF InRounds, CallsDone, Reads
<1>5. ASSUME NEW t \in Threads, pc[t] # "idle", pc' = [pc EXCEPT ![t] = "idle"],
             UNCHANGED <<next, key>>,
             \A k \in Keys \ {key[t]} : count'[k] = count[k],
             count'[key[t]] = IF count[key[t]] < TotalIter THEN count[key[t]] + 1
                                                          ELSE TotalIter
      PROVE  InRounds'
  <2>1. PICK i \in 1 .. n : key[t] = Layers[i]
    BY <1>0 DEF TypeOK
  <2>2. InFlight(i) /\ \A j \in 1 .. n : j # i => ~InFlight(j)
    BY <1>0, <1>5, <2>1 DEF InFlight, OneCaller
  <2>3. \A j \in 1 .. n : ~InFlight(j)'
    BY <1>0, <1>5, <2>1 DEF InFlight, OneCaller, TypeOK
  <2>4. CallsDone(R, i)' = CallsDone(R, i) + 1
    BY <1>0, <1>5, <2>2, <2>3 DEF CallsDone
  <2>5. \A j \in 1 .. n : j # i => CallsDone(R, j)' = CallsDone(R, j)
    BY <1>5, <2>2, <2>3 DEF CallsDone
  <2>6. count'[Layers[i]] = CountIs(CallsDone(R, i) + 1) /\ CallsDone(R, i) + 1 \in Nat
    BY <1>0, <1>1, <1>5, <2>1 DEF CountIs
  <2>7. \A j \in 1 .. n : j # i => count'[Layers[j]] = count[Layers[j]]
    BY <1>0, <1>5, <2>1
  <2>8. \A j \in 1 .. n :
          CallsDone(R, j)' \in Nat /\ count'[Layers[j]] = CountIs(CallsDone(R, j))'
    BY <1>1, <2>4, <2>5, <2>6, <2>7 DEF CountIs
  <2> QED
    BY <1>0, <2>8 DEF InRounds
<1>6. ASSUME NEW t \in Threads, Runs(t) PROVE InRounds'
  <2>1. /\ mine[t] = count[key[t]] /\ count[key[t]] < TotalIter
    BY <1>0, <1>6, Iterations DEF Runs, CountsHeld, CallInv
  <2> QED
    BY <1>0, <1>5, <1>6, <2>1 DEF Runs, WriteCount, TypeOK, env
<1>7. ASSUME NEW t \in Threads, Picks(t) PROVE InRounds'
  <2>1. count[key[t]] = TotalIter
    BY <1>7 DEF Picks, CountsHeld
  <2>2. /\ pc[t] # "idle" /\ pc' = [pc EXCEPT ![t] = "idle"]
        /\ UNCHANGED <<next, key>> /\ count' = count
    BY <1>7 DEF Picks
  <2>3. count'[key[t]] = IF count[key[t]] < TotalIter THEN count[key[t]] + 1
                                                     ELSE TotalIter
    BY <1>0, <2>1, <2>2
  <2> QED
    BY <1>5, <2>2, <2>3
<1> QED
  BY <1>2, <1>3, <1>4, <1>6, <1>7, TurnsMove

LEMMA HeldStep ==
  ASSUME TypeInv, OneCaller, [Next]_vars, version = 2, mode = "serial", CountsHeld
  PROVE  CountsHeld'
<1>0. TypeOK /\ CallInv /\ TotalIter \in Nat
  BY Iterations DEF TypeInv
<1>1. CASE UNCHANGED <<next, pc, key, count, samples, globalBest, mine>>
  BY <1>1 DEF CountsHeld
<1>2. ASSUME NEW t \in Threads, Calls(t) PROVE CountsHeld'
  BY <1>0, <1>2 DEF Calls, CountsHeld, TypeOK
<1>3. ASSUME NEW t \in Threads, Reads(t) PROVE CountsHeld'
  <2>1. count[key[t]] \in 0 .. TotalIter
    BY <1>0 DEF TypeOK
  <2>2. PhaseV2(count[key[t]]) = "settled" => count[key[t]] = TotalIter
    BY <1>0, <2>1 DEF PhaseV2
  <2> QED
    BY <1>0, <1>3, <2>2 DEF Reads, CountsHeld, TypeOK
<1>4. ASSUME NEW t \in Threads, Runs(t) \/ Picks(t) PROVE CountsHeld'
  <2>1. pc[t] # "idle" /\ pc' = [pc EXCEPT ![t] = "idle"]
    BY <1>4 DEF Runs, Picks
  <2>2. \A u \in Threads : pc'[u] = "idle"
    BY <1>0, <2>1 DEF OneCaller, TypeOK
  <2> QED
    BY <2>2 DEF CountsHeld
<1> QED
  BY <1>1, <1>2, <1>3, <1>4, TurnsMove

LEMMA PickedStep ==
  ASSUME LayersAreDistinct, TypeInv, OneCaller, [Next]_vars,
         version = 2, mode = "serial", InRounds, CountsHeld, PickedLast
  PROVE  PickedLast'
<1>0. TypeOK /\ CallInv /\ TotalIter \in Nat
  BY Iterations DEF TypeInv
<1>1. CASE UNCHANGED <<next, pc, key, count, samples, globalBest, mine>>
  BY <1>1 DEF PickedLast
<1>2. ASSUME NEW t \in Threads, Calls(t) \/ Reads(t) PROVE PickedLast'
  BY <1>2 DEF Calls, Reads, PickedLast
<1>3. ASSUME NEW t \in Threads, Runs(t) PROVE PickedLast'
  <2>1. mine[t] = count[key[t]] /\ mine[t] < TotalIter /\ key[t] \in Keys
    BY <1>0, <1>3, Iterations DEF Runs, CountsHeld, CallInv, TypeOK
  <2>2. globalBest = None
    BY <1>0, <2>1 DEF PickedLast
  <2> QED
    BY <1>3, <2>2 DEF Runs, PickedLast
<1>4. ASSUME NEW t \in Threads, Picks(t) PROVE PickedLast'
  <2>1. PICK R \in Nat : \A j \in DOMAIN Layers :
           CallsDone(R, j) \in Nat /\ count[Layers[j]] = CountIs(CallsDone(R, j))
    BY DEF InRounds
  <2>2. PICK i \in DOMAIN Layers : key[t] = Layers[i]
    BY <1>0 DEF TypeOK, Keys
  <2>3. /\ count[Layers[i]] = TotalIter /\ InFlight(i)
        /\ \A j \in DOMAIN Layers : j # i => ~InFlight(j)
    BY <1>4, <2>2 DEF Picks, CountsHeld, InFlight, OneCaller, LayersAreDistinct
  <2>4. /\ next \in Nat /\ DOMAIN Layers \subseteq Nat
    BY <1>0, SomeLayers DEF TypeOK
  <2>5. TotalIter <= CallsDone(R, i)
    BY <1>0, <2>1, <2>3 DEF CountIs
  <2>6. TotalIter <= R
    BY <1>0, <2>1, <2>3, <2>4, <2>5 DEF CallsDone
  <2>7. \A j \in DOMAIN Layers : count[Layers[j]] = TotalIter
    <3> SUFFICES ASSUME NEW j \in DOMAIN Layers, j # i
                 PROVE  count[Layers[j]] = TotalIter
      BY <2>3
    <3>1. CallsDone(R, j) \in Nat /\ R <= CallsDone(R, j)
      BY <2>1, <2>3, <2>4 DEF CallsDone
    <3> QED
      BY <1>0, <2>1, <2>6, <3>1 DEF CountIs
  <2> QED
    BY <1>4, <2>7 DEF Picks, PickedLast, Keys
<1> QED
  BY <1>1, <1>2, <1>3, <1>4, TurnsMove

(* One run more in a slot is one more for its layer and none for the others. *)
LEMMA RunsAppended ==
  ASSUME NEW S, NEW s \in Seq(S), NEW j \in S, NEW k \in S
  PROVE  /\ IsFiniteSet(RunsOf(s, k))
         /\ Cardinality(RunsOf(Append(s, j), k)) =
               Cardinality(RunsOf(s, k)) + (IF k = j THEN 1 ELSE 0)
<1> DEFINE r == Append(s, j)
<1>1. /\ Len(s) \in Nat /\ DOMAIN s = 1 .. Len(s) /\ DOMAIN r = 1 .. Len(s) + 1
      /\ \A i \in 1 .. Len(s) : r[i] = s[i]
      /\ r[Len(s) + 1] = j
  OBVIOUS
<1>2. IsFiniteSet(RunsOf(s, k))
  <2>1. IsFiniteSet(1 .. Len(s))
    BY <1>1, FS_Interval
  <2>2. RunsOf(s, k) \in SUBSET (1 .. Len(s))
    BY <1>1 DEF RunsOf
  <2> QED
    BY <2>1, <2>2, FS_Subset
<1>3. Len(s) + 1 \notin RunsOf(s, k)
  BY <1>1 DEF RunsOf
<1> HIDE DEF r
<1>4. CASE k = j
  <2>1. RunsOf(r, k) = RunsOf(s, k) \cup {Len(s) + 1}
    BY <1>1, <1>4 DEF RunsOf
  <2>2. Cardinality(RunsOf(r, k)) = Cardinality(RunsOf(s, k)) + 1
    BY <1>2, <1>3, <2>1, FS_AddElement
  <2> QED
    BY <1>2, <1>4, <2>2 DEF r
<1>5. CASE k # j
  <2>1. RunsOf(r, k) = RunsOf(s, k)
    BY <1>1, <1>5 DEF RunsOf
  <2>2. Cardinality(RunsOf(s, k)) \in Nat
    BY <1>2, FS_CardinalityType
  <2> QED
    BY <1>2, <1>5, <2>1, <2>2 DEF r
<1> QED
  BY <1>4, <1>5

LEMMA OnceStep ==
  ASSUME TypeInv, [Next]_vars, version = 2, mode = "serial", CountsHeld, TimedOnce
  PROVE  TimedOnce'
<1>0. /\ TypeOK /\ CallInv /\ SkipIter \in Nat /\ TotalIter = SkipIter + EvalIter
      /\ EvalIter \in Nat /\ Slots = 0 .. EvalIter - 1
  BY Iterations DEF TypeInv, Slots
<1>1. CASE UNCHANGED <<next, pc, key, count, samples, globalBest, mine>>
  BY <1>1 DEF TimedOnce
<1>2. ASSUME NEW t \in Threads, Calls(t) \/ Reads(t) \/ Picks(t) PROVE TimedOnce'
  BY <1>2 DEF Calls, Reads, Picks, TimedOnce
<1>3. ASSUME NEW t \in Threads, Runs(t) PROVE TimedOnce'
  <2>1. /\ mine[t] = count[key[t]] /\ key[t] \in Keys /\ mine[t] \in 0 .. TotalIter - 1
    BY <1>0, <1>3 DEF Runs, CountsHeld, CallInv, TypeOK
  <2>2. \A k \in Keys : count'[k] = IF k = key[t] THEN count[k] + 1 ELSE count[k]
    BY <1>0, <1>3, <2>1 DEF Runs, WriteCount, TypeOK
  <2> SUFFICES ASSUME NEW e \in Slots, NEW k \in Keys
               PROVE  Cardinality(RunsOf(samples'[e], k)) =
                        IF SkipIter + e < count'[k] THEN 1 ELSE 0
    BY DEF TimedOnce
  <2>3. Cardinality(RunsOf(samples[e], k)) = IF SkipIter + e < count[k] THEN 1 ELSE 0
    BY DEF TimedOnce
  <2>4. count[k] \in Nat
    BY <1>0 DEF TypeOK
  <2>5. CASE pc[t] = "skip"
    <3>1. samples' = samples /\ mine[t] < SkipIter
      BY <1>0, <1>3, <2>5 DEF Runs, CallInv
    <3> QED
      BY <1>0, <2>1, <2>2, <2>3, <2>4, <3>1
  <2>6. CASE pc[t] = "eval"
    <3>1. mine[t] - SkipIter \in Slots
      BY <1>0, <1>3, <2>6 DEF CallInv
    <3>2. samples' = [samples EXCEPT ![mine[t] - SkipIter] = Append(@, key[t])]
      BY <1>3, <2>6 DEF Runs
    <3>3. /\ samples[e] \in Seq(Keys)
          /\ samples'[e] = IF e = mine[t] - SkipIter THEN Append(samples[e], key[t])
                                                    ELSE samples[e]
      BY <1>0, <3>1, <3>2 DEF CallInv
    <3>4. CASE e = mine[t] - SkipIter
      <4>1. Cardinality(RunsOf(samples'[e], k)) =
              Cardinality(RunsOf(samples[e], k)) + (IF k = key[t] THEN 1 ELSE 0)
        BY <2>1, <3>3, <3>4, RunsAppended
      <4> QED
        BY <1>0, <2>1, <2>2, <2>3, <2>4, <3>4, <4>1
    <3>5. CASE e # mine[t] - SkipIter
      <4>1. e \in Nat /\ SkipIter + e # mine[t] /\ mine[t] \in Nat
        BY <1>0, <2>1, <3>5
      <4>2. SkipIter + e < count'[k] <=> SkipIter + e < count[k]
        BY <1>0, <2>1, <2>2, <2>4, <4>1
      <4> QED
        BY <2>3, <3>3, <3>5, <4>2
    <3> QED
      BY <3>4, <3>5
  <2> QED
    BY <1>3, <2>5, <2>6 DEF Runs
<1> QED
  BY <1>1, <1>2, <1>3, TurnsMove

(* Version 2, one caller: when the process-wide best is picked, every layer has
   contributed once to every slot, so the sums compare like with like. *)
THEOREM PickComparesLikeWithLike ==
  ASSUME LayersAreDistinct PROVE Spec => []SlotsCompare
<1>1. Init => OneCaller /\ TurnInv
  <2> SUFFICES ASSUME Init PROVE OneCaller /\ InRounds /\ CountsHeld /\ PickedLast /\ TimedOnce
    BY DEF TurnInv
  <2>1. OneCaller /\ CountsHeld /\ PickedLast
    BY DEF Init, OneCaller, CountsHeld, PickedLast
  <2>2. InRounds
    <3>1. \A j \in DOMAIN Layers : CallsDone(0, j) = 0 /\ count[Layers[j]] = CountIs(0)
      <4> TAKE j \in DOMAIN Layers
      <4>1. next = 1 /\ ~InFlight(j) /\ ~(j < next)
        BY SomeLayers DEF Init, InFlight
      <4>2. count[Layers[j]] = 0 /\ CountIs(0) = 0
        BY Iterations DEF Init, CountIs, Keys
      <4> QED
        BY <4>1, <4>2 DEF CallsDone
    <3> QED
      BY <3>1 DEF InRounds, CountIs
  <2>3. TimedOnce
    <3>1. \A e \in Slots : \A k \in Keys :
             RunsOf(samples[e], k) = {} /\ ~(SkipIter + e < count[k])
      BY Iterations DEF Init, RunsOf, Slots
    <3> QED
      BY <3>1, FS_EmptySet DEF TimedOnce
  <2> QED
    BY <2>1, <2>2, <2>3
<1>2. TypeInv /\ OneCaller /\ TurnInv /\ [Next]_vars => TurnInv'
  BY ModeStays, RoundStep, HeldStep, PickedStep, OnceStep DEF TurnInv
<1>3. TypeInv /\ TurnInv => SlotsCompare
  <2> SUFFICES ASSUME TypeInv, TurnInv, version = 2, mode = "serial", globalBest # None,
                      NEW e \in Slots, NEW k \in Keys
               PROVE  Cardinality({i \in DOMAIN samples[e] : samples[e][i] = k}) = 1
    BY DEF SlotsCompare
  <2>1. SkipIter + e < count[k]
    BY Iterations DEF TurnInv, PickedLast, Slots
  <2> QED
    BY <2>1 DEF TurnInv, TimedOnce, RunsOf
<1> QED
  BY <1>1, <1>2, <1>3, OneCallerStep, TypesHold, PTL DEF Spec
============================================================================
