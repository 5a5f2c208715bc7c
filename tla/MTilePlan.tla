----------------------------- MODULE MTilePlan -----------------------------
(***************************************************************************)
(* Which executor runs each pass of a grouped matmul, and the rows it      *)
(* hands to each thread: the selection of the ALGO, the M-tile planner     *)
(* with its light and heavy tiers, and the executors that give a thread a  *)
(* whole expert.  Everything here is a function of the call.               *)
(*                                                                         *)
(* A call c is a record: threads; M; total, the experts of the model;      *)
(* safe[op], check_m_tile_safe for the operands of Op1 and of Op2;         *)
(* nTileSafe; prepacked (the Op1 weight is packed for the custom kernel);  *)
(* fusedMoe (Op2 follows Op1); reuse (Op2 writes over the source); transA; *)
(* eligible, what try_flat_m_tile_pipeline_bf16 asks of types, activation  *)
(* and weights; int8 (the DQ-INT8 regime); groupDq; budgetRows, the rows   *)
(* whose scratch fits the budget of a thread; and env.                     *)
(***************************************************************************)
EXTENDS Grouped

CONSTANTS
    LightFloor,             \* 8: rows an expert may have and still be light
    DecodeMaxM,             \* kDecodeMaxM
    MaxExperts,             \* kNTilePlanMaxExperts
    FewExpertsAlgo1,        \* kFewExpertsAlgo1
    FewExpertsAlgo2Pref     \* kFewExpertsAlgo2Pref

\* What the environment and the test overrides can set (the getters).
Tunings ==
    [algo : 0 .. 5, promptAlgo : 0 .. 5, decodeAlgo : 0 .. 5, promptPinned : BOOLEAN,
     decodePinned : BOOLEAN, strategy : 0 .. 3, slice : Nat \ {0}, hybrid : {-1, 0},
     minMaxM : Nat \ {0}, minSkew : Nat \ {0}, lightsPerThread : Nat \ {0}]
IsCall(c) ==
    /\ c.threads \in Nat \ {0} /\ c.M \in Seq(Nat) \ {<<>>}
    /\ c.total \in Nat /\ c.budgetRows \in Nat
    /\ c.safe \in [1 .. 2 -> BOOLEAN] /\ c.nTileSafe \in BOOLEAN
    /\ {c.prepacked, c.fusedMoe, c.reuse, c.transA, c.eligible, c.int8, c.groupDq} \subseteq BOOLEAN
    /\ c.env \in Tunings

NumActive(c) == Cardinality(Active(c))
ActivePos(c, e) == Cardinality({f \in Active(c) : f < e})
InOrder(S) == Sorted(S, LAMBDA e, f : e < f)

---------------------------------------------------------------------------
(* select_grp_matmul_algo *)

\* Threads an expert asks for, a slice of rows each.
Wanted(c) == [e \in Experts(c) |-> AtMost(c.M[e], AtLeastOne(CeilDiv(c.M[e], c.env.slice)))]

\* Too few rows to occupy half the team.
WideN(c) == MaxM(c) > 1 /\ 2 * Total(Wanted(c), Experts(c)) <= c.threads

RegimeAlgo(c, safe) ==
    CASE NumActive(c) > c.threads -> 5
      [] NumActive(c) <= c.threads /\ (WideN(c) \/ ~safe) -> 1
      [] OTHER -> 2

Guarded(algo, safe, nTileSafe) ==
    IF (algo = 2 /\ ~safe) \/ (algo = 3 /\ ~nTileSafe) THEN 1 ELSE algo

IsDecode(c) == MaxM(c) <= DecodeMaxM
TotalExperts(c) == Larger(Ops(c), c.total)
PhaseAlgo(c) == IF IsDecode(c) THEN c.env.decodeAlgo ELSE c.env.promptAlgo
PhasePinned(c) == IF IsDecode(c) THEN c.env.decodePinned ELSE c.env.promptPinned

\* auto_select_algo: the first rule that applies decides.
AutoSelect(c, safe) ==
    LET threeOr(other) == IF c.nTileSafe THEN 3 ELSE other
        rules == <<
            <<c.threads <= 1, 1>>,
            <<Ops(c) > MaxExperts, 5>>,
            <<IsDecode(c) /\ TotalExperts(c) <= FewExpertsAlgo2Pref /\ ~PhasePinned(c),
              RegimeAlgo(c, safe)>>,
            <<IsDecode(c) /\ NumActive(c) > c.threads,
              IF c.env.strategy \in {0, 3} THEN threeOr(5) ELSE 5>>,
            <<~IsDecode(c) /\ c.env.promptAlgo = 2, RegimeAlgo(c, safe)>>,
            <<PhaseAlgo(c) \in 1 .. 5, Guarded(PhaseAlgo(c), safe, c.nTileSafe)>>,
            <<Ops(c) >= c.threads, threeOr(1)>>,
            <<Ops(c) <= FewExpertsAlgo1 \/ ~IsDecode(c), 1>>,
            <<TRUE, threeOr(1)>> >>
    IN  rules[Min({i \in DOMAIN rules : rules[i][1]})][2]

Select(c, op) ==
    IF c.env.algo \in 1 .. 5 THEN Guarded(c.env.algo, c.safe[op], c.nTileSafe)
    ELSE AutoSelect(c, c.safe[op])

---------------------------------------------------------------------------
(* Teams of threads *)

SliceRows(c, a, e) == CeilDiv(c.M[e], a[e])

\* Takes n threads back one at a time, each from the expert with the
\* thinnest slices among those that have more than one.
TakeBack(c, alloc, S, n) ==
    LET TakeOne(a, i) ==
            LET rich == {e \in S : a[e] > 1}
                least == CHOOSE e \in rich : \A f \in rich \ {e} :
                            \/ SliceRows(c, a, e) < SliceRows(c, a, f)
                            \/ SliceRows(c, a, e) = SliceRows(c, a, f) /\ e < f
            IN  IF rich = {} THEN a ELSE [a EXCEPT ![least] = @ - 1]
    IN  FoldLeft(TakeOne, alloc, [i \in 1 .. n |-> i])

\* Splits budget threads over the experts of S: as many as each wants if
\* they fit, in proportion to the rows otherwise; then the rest to the
\* thickest slices, or the excess back from the thinnest.
Teams(c, S, budget, cap) ==
    LET fits == Total(Wanted(c), S) <= budget
        start == [e \in Experts(c) |->
                    CASE e \in S /\ fits -> Wanted(c)[e]
                      [] e \in S /\ ~fits -> AtLeastOne((budget * c.M[e]) \div Total(c.M, S))
                      [] OTHER -> 0]
        Thicker(a, e, f) == \/ SliceRows(c, a, e) > SliceRows(c, a, f)
                            \/ SliceRows(c, a, e) = SliceRows(c, a, f) /\ e < f
        grown == WaterFill(start, cap, S, budget - Total(start, S), Thicker)
    IN  TakeBack(c, grown, S, Total(grown, S) - budget)

\* The rows of member k of a team of n, empty if there are more members than
\* rows.
SliceOf(c, e, k, n) ==
    LET lo == (c.M[e] * k) \div n
        hi == (c.M[e] * (k + 1)) \div n
    IN  IF lo < hi THEN <<[e |-> e, lo |-> lo, hi |-> hi]>> ELSE <<>>

\* The members of the teams a of the experts S, in order.
Members(S, a) ==
    FoldLeft(LAMBDA s, e : s \o [k \in 1 .. a[e] |-> [e |-> e, k |-> k - 1, n |-> a[e]]],
             <<>>, InOrder(S))

---------------------------------------------------------------------------
(* plan_m_tile_single_tier_assignment *)

CcdThreads(c, k) == {t \in 1 .. c.threads : (t - 1) \div CcdSize(c) = k}

\* With a CCD for every expert, no team outgrows the CCD it starts on.
CcdCap(c) ==
    LET atCcd == NumActive(c) <= NumCcds(c) /\ NumActive(c) * CcdSize(c) >= c.threads
    IN  [e \in Experts(c) |->
            IF atCcd THEN AtMost(c.M[e], Cardinality(CcdThreads(c, ActivePos(c, e) % NumCcds(c))))
            ELSE c.M[e]]

\* Gives member m the first free thread of its expert's CCD, or of the next
\* CCD that has one.
Seat(c, seats, m) ==
    LET ring(k) == (ActivePos(c, m.e) + k) % NumCcds(c)
        free(k) == {t \in CcdThreads(c, ring(k)) : seats[t] = <<>>}
        open == {k \in 0 .. NumCcds(c) - 1 : free(k) # {}}
    IN  IF open = {} THEN seats
        ELSE [seats EXCEPT ![Min(free(Min(open)))] = SliceOf(c, m.e, m.k, m.n)]

Nobody(c) == [t \in 1 .. c.threads |-> <<>>]
SingleTierSeats(c) ==
    LET teams == Teams(c, Active(c), c.threads, CcdCap(c))
    IN  FoldLeft(LAMBDA seats, m : Seat(c, seats, m), Nobody(c), Members(Active(c), teams))

---------------------------------------------------------------------------
(* flat_m_tile: the light and heavy tiers *)

AvgM(c) == Total(c.M, Experts(c)) \div NumActive(c)
Light(c) == {e \in Active(c) : c.M[e] <= Larger(LightFloor, AvgM(c) \div 4)}
Heavy(c) == Active(c) \ Light(c)
LightPool(c) ==
    AtMost(CcdSize(c), AtLeastOne(CeilDiv(Cardinality(Light(c)), c.env.lightsPerThread)))
HeavyPool(c) == c.threads - LightPool(c)

\* A few heavy experts among many light ones.
MultiTierGate(c) ==
    /\ c.env.hybrid = 0
    /\ NumActive(c) >= c.threads \div 2
    /\ MaxM(c) >= c.env.minMaxM /\ AvgM(c) > 0 /\ MaxM(c) >= c.env.minSkew * AvgM(c)
    /\ Light(c) # {} /\ Cardinality(Light(c)) >= c.threads \div 8
    /\ Heavy(c) # {} /\ HeavyPool(c) >= Cardinality(Heavy(c))

HeavyTeams(c) == Teams(c, Heavy(c), HeavyPool(c), c.M)

\* The tiers pay only if the heavy experts fill three quarters of their pool.
TwoTiers(c) ==
    MultiTierGate(c) /\ 4 * Total(HeavyTeams(c), Heavy(c)) >= 3 * HeavyPool(c)

HeavySeats(c) ==
    LET members == Members(Heavy(c), HeavyTeams(c))
    IN  [t \in 1 .. c.threads |->
            IF t - LightPool(c) \in DOMAIN members
            THEN LET m == members[t - LightPool(c)] IN SliceOf(c, m.e, m.k, m.n)
            ELSE <<>>]

---------------------------------------------------------------------------
(* The executors: a pass is a sequence of parallel regions, each giving a  *)
(* thread its own rows and the threads of a pool a shared queue.           *)

Region(items, queue, pool) == [items |-> items, queue |-> queue, pool |-> pool]
Whole(c, e) == [e |-> e, lo |-> 0, hi |-> c.M[e]]
WholeOf(c, S) == [i \in 1 .. Cardinality(S) |-> Whole(c, InOrder(S)[i])]

SequentialRegions(c) ==
    <<Region([Nobody(c) EXCEPT ![1] = WholeOf(c, Active(c))], <<>>, {})>>

MTileRegions(c) ==
    CASE NumActive(c) > c.threads -> SequentialRegions(c)
      [] NumActive(c) <= c.threads /\ TwoTiers(c) ->
            <<Region(HeavySeats(c), WholeOf(c, Light(c)), 1 .. LightPool(c))>>
      [] OTHER -> <<Region(SingleTierSeats(c), <<>>, {})>>

\* parallel_multilevel: a batch of experts per region, an expert a thread.
MultilevelRegions(c) ==
    LET batch == AtMost(Ops(c), NumCcds(c))
        expert(r, t) == (r - 1) * batch + t
    IN  [r \in 1 .. CeilDiv(Ops(c), batch) |->
            Region([t \in 1 .. c.threads |->
                        IF t <= batch /\ expert(r, t) \in Active(c)
                        THEN <<Whole(c, expert(r, t))>> ELSE <<>>], <<>>, {})]

\* parallel_per_expert: schedule(dynamic, 1) over the experts.
PerExpertRegions(c) == <<Region(Nobody(c), WholeOf(c, Active(c)), 1 .. c.threads)>>

\* A weight packed for the custom kernel is refused outside ALGO 3.
Refused(c, op) == op = 1 /\ c.prepacked /\ Active(c) # {}

\* group_matmul_run_parallel_dispatch
Regions(c, op) ==
    CASE Active(c) = {} \/ Refused(c, op) -> <<>>
      [] Active(c) # {} /\ ~Refused(c, op) ->
            CASE Select(c, op) = 1 -> SequentialRegions(c)
              [] Select(c, op) = 2 -> MTileRegions(c)
              [] Select(c, op) = 4 -> MultilevelRegions(c)
              [] Select(c, op) = 5 -> PerExpertRegions(c)

\* The vertical fusion is tried: every check of
\* flat_m_tile_pipeline_bf16 that precedes its first allocation.
Tries(c) ==
    /\ c.fusedMoe /\ Select(c, 1) = 2
    /\ c.eligible /\ c.safe[2]
    /\ Active(c) # {} /\ NumActive(c) <= c.threads
    /\ ~MultiTierGate(c) /\ ~WideN(c)
    /\ \A t \in 1 .. c.threads : \A i \in DOMAIN SingleTierSeats(c)[t] :
        LET x == SingleTierSeats(c)[t][i] IN x.hi - x.lo <= c.budgetRows

Job(c) ==
    [M |-> c.M, fusedMoe |-> c.fusedMoe, reuse |-> c.reuse,
     int8 |-> c.int8, groupDq |-> c.groupDq, refused |-> Refused(c, 1), tries |-> Tries(c),
     slices |-> SingleTierSeats(c), regions |-> <<Regions(c, 1), Regions(c, 2)>>]
=============================================================================
