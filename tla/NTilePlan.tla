----------------------------- MODULE NTilePlan -----------------------------
(***************************************************************************)
(* The decisions flat_n_tile takes before any thread runs: whether the     *)
(* call runs at all, whether the custom kernel computes it, the strategy   *)
(* and thread split of plan_group_n_tile, and the work list each executor  *)
(* hands to each thread.  Everything here is a function of the call.       *)
(*                                                                         *)
(* A call c is a record: threads; M, N (sequences over its experts) and K; *)
(* act ("none", "swiglu", "silu", the last for both split-halves           *)
(* activations); tight (ldc = N / 2); packNr (0 when prepare_for_call      *)
(* refused); int8 (the DQ-INT8 kernel) and badHoist, the experts whose     *)
(* hoist ck_int8_tile_dispatches refuses; prepacked (mem_format_b 'r');    *)
(* backendAlign; and env, the tuning variables.  A comparison of doubles   *)
(* is the comparison of the rationals they stand for.                      *)
(***************************************************************************)
EXTENDS Grouped, TLC

CONSTANTS
    L3PerCcd,           \* kL3PerCcdBytes
    DecodeMaxM,         \* kDecodeMaxM
    DecodeNTile,        \* kDecodeNTile
    MinNTile,           \* kMinNTile
    FewExpertsAlgo1,    \* kFewExpertsAlgo1
    MaxExperts,         \* kNTilePlanMaxExperts
    MidBand,            \* expert counts auto_pick_n_order leaves in input order
    DecodeDMinOps, DecodeDMinRows,  \* 6 and 3 in try_decode_d_plan
    TierMinExperts,     \* kMinExpertsForTier
    BalancedMaxThreads  \* 64 in pick_round_strategy

ASSUME CacheSize == L3PerCcd \in Nat \ {0}
ASSUME TileWidths == DecodeNTile \in Nat \ {0} /\ MinNTile \in Nat /\ DecodeNTile <= MinNTile

\* Compares the rationals <<num, den>>.
Less(p, q) == p[1] * q[2] < q[1] * p[2]
AtMostQ(p, q) == p[1] * q[2] <= q[1] * p[2]

---------------------------------------------------------------------------
(* summarise_topology and the cache model *)

\* The calls flat_n_tile plans; it has returned to its caller when there is
\* no expert or no thread.
Tunings == [strategy : 0 .. 3, rounds : 0 .. 3, order : 0 .. 4, stableNTile : BOOLEAN,
            targetSlots : Nat \ {0}, nTile : Int, heavy : Int, proportional : BOOLEAN,
            epcMult : Int, weiL3Mult : Int]
IsCall(c) ==
    /\ c \in [threads : Nat \ {0}, M : Seq(Nat), N : Seq(Nat \ {0}), K : Nat \ {0},
              act : {"none", "swiglu", "silu"}, tight : BOOLEAN, packNr : Nat,
              int8 : BOOLEAN, badHoist : SUBSET Nat, prepacked : BOOLEAN,
              backendAlign : Nat, env : Tunings]
    /\ Len(c.M) > 0 /\ Len(c.N) = Len(c.M)

\* summarise_topology; the operators below take a call so summarised.
Summarised(c) ==
    [threads |-> c.threads, M |-> c.M, N |-> c.N, K |-> c.K, act |-> c.act,
     tight |-> c.tight, packNr |-> c.packNr, int8 |-> c.int8, badHoist |-> c.badHoist,
     prepacked |-> c.prepacked, backendAlign |-> c.backendAlign, env |-> c.env,
     maxM |-> MaxM(c), maxN |-> Max({c.N[e] : e \in Experts(c)}),
     minMActive |-> IF Active(c) = {} THEN MaxM(c) ELSE Min({c.M[e] : e \in Active(c)}),
     ccdSize |-> CcdSize(c), numCcds |-> NumCcds(c)]

IsDecode(c) == c.maxM <= DecodeMaxM

WeiPerExpert(c) == c.maxN * c.K
L3Total(c) == c.numCcds * L3PerCcd

L3Batch(c) == AtLeastOne(L3Total(c) \div WeiPerExpert(c))

\* A batch that gives every CCD one expert is taken when it overshoots the
\* caches by a tenth at most.
TargetBatch(c) ==
    LET saturating == c.threads \div c.ccdSize
    IN  IF /\ L3Batch(c) < saturating
           /\ saturating <= Ops(c)
           /\ saturating * WeiPerExpert(c) <= L3Total(c) + L3Total(c) \div 10
        THEN saturating
        ELSE AtMost(Ops(c), L3Batch(c))

---------------------------------------------------------------------------
(* The column split *)

\* The widest multiple of align, no wider than the even share rounded up,
\* that leaves the last thread at least half a slice; failing that, an even
\* split that honours no alignment.
AlignedNSplit(N, n, t, align) ==
    LET even == <<(N * t) \div n, (N * (t + 1)) \div n>>
        last(w) == N - w * (n - 1)
        widths == {w \in {align * k : k \in 1 .. CeilDiv(CeilDiv(N, n), align)} :
                        last(w) > 0 /\ 2 * last(w) >= w}
        wide == Max(widths)
    IN  IF align <= 1 \/ n <= 1 \/ widths = {}
        THEN even
        ELSE <<wide * t, IF t < n - 1 THEN wide * (t + 1) ELSE N>>

EffectiveDecodeNTile(c) == IF c.env.nTile > 0 THEN c.env.nTile ELSE DecodeNTile
AbMinTile(c) == IF IsDecode(c) THEN EffectiveDecodeNTile(c) ELSE MinNTile
MaxTiles(c) == AtLeastOne(c.maxN \div AbMinTile(c))
TileCap(c, e) == AtLeastOne(c.N[e] \div AbMinTile(c))

---------------------------------------------------------------------------
(* Whether the custom kernel computes the call *)

Fused(c) == c.act # "none"

\* The flag when the guard on prepacked weights reads it ...
UseCustomAtGuard(c) == c.packNr > 0 /\ (Fused(c) => c.tight)
\* ... and the one the tiles see: a fused int8 call with one expert the
\* kernel cannot serve gives the kernel up for all of them.
UseCustom(c) ==
    /\ UseCustomAtGuard(c)
    /\ ~(Fused(c) /\ c.int8 /\ c.badHoist \cap Active(c) # {})
CkInt8(c) == UseCustom(c) /\ c.int8

Refused(c) == c.prepacked /\ ~UseCustomAtGuard(c)

\* Mutant: no pair alignment for a tile that activates its own columns.
NrAlign_NoPairs(c) == Max({c.backendAlign, c.packNr})
\* ntile_effective_nr_align
NrAlign(c) ==
    Max({c.backendAlign, c.packNr,
         IF Fused(c) /\ c.tight /\ ~UseCustomAtGuard(c) THEN 2 ELSE 1})

---------------------------------------------------------------------------
(* Orders of the experts *)

\* sort_indices_by_m; among equal M the sort keeps the input order.
ByRowsDesc(c, S) ==
    Sorted(S, LAMBDA e, f : c.M[e] > c.M[f] \/ (c.M[e] = c.M[f] /\ e < f))
ByRowsAsc(c, S) ==
    Sorted(S, LAMBDA e, f : c.M[e] < c.M[f] \/ (c.M[e] = c.M[f] /\ e < f))

\* Heaviest, lightest, second heaviest, second lightest, ...
PairBalanced(s) ==
    [i \in DOMAIN s |->
        IF i % 2 = 1 THEN s[(i + 1) \div 2] ELSE s[Len(s) + 1 - i \div 2]]

\* At each place the expert that keeps the running total closest to even.
BalancedSpread(c, s) ==
    LET total == Total(c.M, Experts(c))
        Extend(order, p) ==
            LET cum == Total([i \in DOMAIN order |-> c.M[order[i]]], DOMAIN order)
                err(e) == LET d == p * total - Ops(c) * (cum + c.M[e])
                          IN  IF d < 0 THEN -d ELSE d
                free == {i \in DOMAIN s : \A k \in DOMAIN order : order[k] # s[i]}
                best == CHOOSE i \in free : \A j \in free :
                            err(s[i]) < err(s[j]) \/ (err(s[i]) = err(s[j]) /\ i <= j)
            IN  Append(order, s[best])
    IN  FoldLeftDomain(Extend, <<>>, s)

\* fill_ntile_expert_order, and the input order where it fills nothing.
InputOrder(c) == [i \in Experts(c) |-> i]
ExpertOrder(c) ==
    LET order == IF c.env.order = 0
                 THEN (IF Ops(c) \in MidBand THEN 0 ELSE 3)
                 ELSE c.env.order
        desc == ByRowsDesc(c, Experts(c))
    IN  CASE order = 0 \/ Ops(c) > MaxExperts -> InputOrder(c)
          [] order = 1 -> ByRowsAsc(c, Experts(c))
          [] order = 2 -> desc
          [] order = 3 -> PairBalanced(desc)
          [] OTHER -> BalancedSpread(c, desc)

---------------------------------------------------------------------------
(* plan_group_n_tile *)

NoSlots(c) == [e \in Experts(c) |-> 0]
SequentialPlan(c) ==
    [strategy |-> "Sequential", minNTile |-> 1, batch |-> 0, nThrFixed |-> 0,
     maxNThr |-> 0, thrPerExpert |-> 0, order |-> InputOrder(c),
     stable |-> NoSlots(c), perExpert |-> FALSE]

AutoSelectWouldPickAlgo1(c) ==
    /\ Ops(c) < c.threads
    /\ Ops(c) <= FewExpertsAlgo1 \/ ~IsDecode(c)

NTileViable(c) ==
    LET team == c.threads \div Ops(c)
        useful == IF Ops(c) > c.numCcds THEN c.ccdSize \div 2 ELSE team \div 2
    IN  IF team <= 1 THEN c.maxN > 0
        ELSE c.maxN \div AbMinTile(c) >= AtLeastOne(useful)

DecodeD(c, thr) ==
    [SequentialPlan(c) EXCEPT !.strategy = "DecodeD",
        !.minNTile = EffectiveDecodeNTile(c), !.thrPerExpert = thr]

TryDecodeD(c) ==
    /\ IsDecode(c)
    /\ Ops(c) \in DecodeDMinOps .. c.numCcds
    /\ c.minMActive >= DecodeDMinRows
    /\ c.maxM \div c.minMActive <= 4
    /\ c.maxN \div EffectiveDecodeNTile(c) <= c.threads \div Ops(c)
TryDecodeDPlan(c) ==
    DecodeD(c, AtLeastOne(AtMost(c.threads \div Ops(c),
                                 c.maxN \div EffectiveDecodeNTile(c))))
ForceDecodeDPlan(c) == DecodeD(c, AtLeastOne(c.threads \div Ops(c)))

\* Enough experts per CCD, or weights that dwarf its cache; but an int8 call
\* of the custom kernel with an activation needs its barrier.
PicksDynamic(c) ==
    /\ c.env.strategy \in {0, 3}
    /\ ~(CkInt8(c) /\ Fused(c))
    /\ IsDecode(c)
    /\ \/ Cardinality(Active(c)) >= c.env.epcMult * c.numCcds
       \/ /\ c.env.weiL3Mult > 0
          /\ WeiPerExpert(c) \div L3PerCcd >= c.env.weiL3Mult
    /\ c.maxN > 0
DynamicPlan(c) ==
    [SequentialPlan(c) EXCEPT !.strategy = "DecodeDynamic",
        !.minNTile = EffectiveDecodeNTile(c)]

\* The standard kernel's packs are keyed by a tile's columns, so its split
\* is a function of the threads and the widths only.
AoclStableNThr(c) == AtLeastOne(c.threads \div c.env.targetSlots)
StableFits(c) == AoclStableNThr(c) <= AtLeastOne(c.maxN \div AtLeastOne(NrAlign(c)))
StrictStable(c) == ~UseCustom(c) /\ c.env.stableNTile
StablePlan(c) ==
    LET stable == AoclStableNThr(c)
    IN  IF ~StableFits(c) THEN SequentialPlan(c)
        ELSE [SequentialPlan(c) EXCEPT !.strategy = "ManyExperts",
                !.minNTile = AbMinTile(c),
                !.batch = AtMost(Ops(c), AtLeastOne(c.threads \div stable)),
                !.nThrFixed = stable, !.maxNThr = stable,
                !.order = ExpertOrder(c),
                !.stable = [e \in Experts(c) |-> IF c.M[e] > 0 THEN stable ELSE 0]]

FewExpertsPlan(c) ==
    [SequentialPlan(c) EXCEPT !.strategy = "FewExperts", !.minNTile = AbMinTile(c),
        !.batch = TargetBatch(c), !.maxNThr = MaxTiles(c), !.order = ExpertOrder(c)]

---------------------------------------------------------------------------
(* More experts than CCDs: one round, several, or several of equal size *)

\* build_round_candidates
CappedBatch(c) == AtLeastOne(AtMost(TargetBatch(c), c.threads))
NThr(c, batch) == AtLeastOne(Min({c.ccdSize, MaxTiles(c), c.threads \div batch}))
RoundCandidates(c) ==
    LET nMulti == NThr(c, CappedBatch(c))
        batch == AtLeastOne(AtMost(CappedBatch(c), c.threads \div nMulti))
        rounds == CeilDiv(Ops(c), batch)
    IN  [nSingle |-> NThr(c, Ops(c)), nMulti |-> nMulti, batch |-> batch,
         rounds |-> rounds, balanced |-> CeilDiv(Ops(c), rounds)]
SingleEligible(c) == c.threads >= Ops(c)

\* Wall times in units of one expert on one thread; a single round that
\* spills the caches is slower by the factor of the spill.
WallSingle(c, r) ==
    LET weights == Ops(c) * WeiPerExpert(c)
    IN  IF weights > L3Total(c)
        THEN <<weights, r.nSingle * AtLeastOne(L3Total(c))>>
        ELSE <<1, r.nSingle>>
WallMulti(r) == <<r.rounds, r.nMulti>>
WallBalanced(c, r) ==
    LET b == r.balanced
        thr(size) == AtLeastOne(AtMost(c.threads \div size, MaxTiles(c)))
        full == Ops(c) \div b
        rest == Ops(c) % b
    IN  IF rest = 0 THEN <<full, thr(b)>>
        ELSE <<full * thr(rest) + thr(b), thr(b) * thr(rest)>>

\* pick_round_strategy: a large team is not offered the balanced split.
ConsidersBalanced(c) == c.threads <= BalancedMaxThreads
RoundPick(c, r) ==
    LET thin == /\ c.threads \div Ops(c) < AtLeastOne((3 * c.ccdSize) \div 4)
                /\ r.rounds <= 2
        balanced(wins) == IF ConsidersBalanced(c) /\ wins THEN "Balanced" ELSE "Multi"
    IN  CASE c.env.rounds = 1 -> IF SingleEligible(c) THEN "Single" ELSE "Balanced"
          [] c.env.rounds = 2 -> "Multi"
          [] c.env.rounds = 3 -> "Balanced"
          [] SingleEligible(c) /\ thin ->
                balanced(AtMostQ(WallBalanced(c, r), WallMulti(r)))
          [] /\ SingleEligible(c) /\ ~thin
             /\ Less(WallSingle(c, r), WallMulti(r))
             /\ ConsidersBalanced(c) =>
                    AtMostQ(WallSingle(c, r), WallBalanced(c, r)) -> "Single"
          [] OTHER -> balanced(Less(WallBalanced(c, r), WallMulti(r)))

---------------------------------------------------------------------------
(* Uneven splits of a single round, for the custom kernel *)

\* Rows per thread after the gift, then rows, then the input order.
MoreRowsPerThread(c, a, e, f) ==
    LET x == c.M[e] * (a[f] + 1)
        y == c.M[f] * (a[e] + 1)
    IN  \/ x > y
        \/ x = y /\ c.M[e] > c.M[f]
        \/ x = y /\ c.M[e] = c.M[f] /\ e < f

CapHybrid(c) == AtMost(c.ccdSize, MaxTiles(c))
Caps(c) == [e \in Experts(c) |->
                AtLeastOne(AtMost(CapHybrid(c), c.N[e] \div AbMinTile(c)))]

\* apply_adaptive_tiers: tiers of 8, 4 and 2 threads by percentile of rows,
\* scaled down to the budget, the rest water-filled.
ExtrasBudget(c) == c.threads - Cardinality(Active(c))
TiersApply(c) ==
    /\ Cardinality(Active(c)) >= TierMinExperts
    /\ ExtrasBudget(c) > 0
    /\ 2 * c.maxM * Cardinality(Active(c)) >= 5 * Total(c.M, Active(c))
Extras(c) ==
    LET desc == ByRowsDesc(c, Active(c))
        n == Cardinality(Active(c))
        atPct(p) == c.M[desc[1 + AtMost((n * p) \div 100, n - 1)]]
        cut(p, share) == Larger(atPct(p), (c.maxM * share) \div 10)
    IN  [e \in Experts(c) |->
            CASE c.M[e] = 0 -> 0
              [] c.M[e] >= cut(5, 4) -> 7
              [] c.M[e] < cut(5, 4) /\ c.M[e] >= cut(25, 2) -> 3
              [] c.M[e] < cut(5, 4) /\ c.M[e] < cut(25, 2) /\ c.M[e] >= cut(50, 1) -> 1
              [] OTHER -> 0]
TierStart(c, extras, preferred) ==
    LET scaled(x) == (x * AtMost(preferred, ExtrasBudget(c))) \div preferred
    IN  [e \in Experts(c) |->
            IF c.M[e] > 0 THEN AtMost(1 + scaled(extras[e]), Caps(c)[e]) ELSE 0]
FillUp(c, start) ==
    WaterFill(start, Caps(c), Active(c), c.threads - Total(start, Experts(c)),
              LAMBDA a, e, f : MoreRowsPerThread(c, a, e, f))
TierSplit(c, extras) == FillUp(c, TierStart(c, extras, Total(extras, Experts(c))))

\* The experts above the heavy threshold share what the light ones leave.
Heavy(c) == {e \in Active(c) : c.M[e] > c.env.heavy}
HeavyBudget(c) == Larger(0, c.threads - Cardinality(Active(c) \ Heavy(c)))
HeavyApplies(c) ==
    /\ Heavy(c) \notin {{}, Active(c)}
    /\ HeavyBudget(c) >= 2 * Cardinality(Heavy(c))
HeavySplit(c) ==
    WaterFill([e \in Experts(c) |-> IF c.M[e] > 0 THEN 1 ELSE 0], Caps(c), Heavy(c),
              HeavyBudget(c) - Cardinality(Heavy(c)),
              LAMBDA a, e, f : MoreRowsPerThread(c, a, e, f))

\* Decode: threads in proportion to rows, each to the largest deficit.
ProportionalApplies(c) ==
    IsDecode(c) /\ c.env.proportional /\ Active(c) # {}
    /\ Cardinality(Active(c)) <= c.threads
ProportionalSplit(c) ==
    LET rows == Total(c.M, Active(c))
        deficit(a, e) == c.threads * c.M[e] - rows * a[e]
    IN  WaterFill([e \in Experts(c) |-> IF c.M[e] > 0 THEN 1 ELSE 0],
                  [e \in Experts(c) |-> TileCap(c, e)], Active(c), ExtrasBudget(c),
                  LAMBDA a, e, f : \/ deficit(a, e) > deficit(a, f)
                                   \/ deficit(a, e) = deficit(a, f) /\ e < f)

\* Phase B: the threads a uniform split leaves over, one each to the
\* heaviest experts wide enough for another tile.
Remainder(c, r) == c.threads - r.nSingle * Ops(c)
WideEnough(c, r) == {e \in Experts(c) : c.N[e] \div AbMinTile(c) >= r.nSingle + 1}
RemainderApplies(c, r) ==
    /\ 0 < Remainder(c, r) /\ Remainder(c, r) < Ops(c)
    /\ r.nSingle + 1 <= CapHybrid(c)
    /\ WideEnough(c, r) # {}
RemainderSplit(c, r) ==
    LET desc == ByRowsDesc(c, WideEnough(c, r))
        lucky == {desc[i] : i \in 1 .. AtMost(Remainder(c, r), Len(desc))}
    IN  [e \in Experts(c) |-> IF e \in lucky THEN r.nSingle + 1 ELSE r.nSingle]

SingleSlots(c, r) ==
    CASE ~UseCustom(c) -> NoSlots(c)
      [] UseCustom(c) /\ ~IsDecode(c) /\ CapHybrid(c) >= 2
            /\ c.env.heavy = 0 /\ TiersApply(c) -> TierSplit(c, Extras(c))
      [] UseCustom(c) /\ ~IsDecode(c) /\ CapHybrid(c) >= 2
            /\ c.env.heavy > 0 /\ HeavyApplies(c) -> HeavySplit(c)
      [] UseCustom(c) /\ ProportionalApplies(c) -> ProportionalSplit(c)
      [] OTHER -> IF RemainderApplies(c, r) THEN RemainderSplit(c, r) ELSE NoSlots(c)

\* apply_round_pick
SingleRound(c, r, base, slots) ==
    [base EXCEPT !.batch = Ops(c), !.nThrFixed = r.nSingle,
        !.stable = slots, !.perExpert = slots # NoSlots(c)]
ApplyRoundPick(c, r, pick, base) ==
    CASE pick = "Single" -> SingleRound(c, r, base, SingleSlots(c, r))
      [] pick = "Multi" -> [base EXCEPT !.batch = r.batch, !.nThrFixed = r.nMulti]
      [] OTHER -> [base EXCEPT !.batch = r.balanced, !.maxNThr = MaxTiles(c)]
RoundsPlan(c, r) ==
    ApplyRoundPick(c, r, RoundPick(c, r),
        [SequentialPlan(c) EXCEPT !.strategy = "ManyExperts",
            !.minNTile = AbMinTile(c), !.order = ExpertOrder(c)])

PlanGroupNTile(c) ==
    LET auto == c.env.strategy = 0
        Tried(ok, plan, rest) == IF ok THEN plan ELSE rest
    IN  Tried(Ops(c) > MaxExperts
                \/ (auto /\ (AutoSelectWouldPickAlgo1(c) \/ ~NTileViable(c))),
              SequentialPlan(c),
        Tried(c.env.strategy = 1 /\ c.threads >= Ops(c), ForceDecodeDPlan(c),
        Tried(PicksDynamic(c), DynamicPlan(c),
        Tried(StrictStable(c), StablePlan(c),
        Tried(auto /\ TryDecodeD(c), TryDecodeDPlan(c),
        Tried(Ops(c) <= c.numCcds, FewExpertsPlan(c),
              RoundsPlan(c, RoundCandidates(c))))))))

---------------------------------------------------------------------------
(* What flat_n_tile does with the plan, and the executors' work lists *)

\* Activation inside the tile: the custom kernel's, or through a scratch.
TightEpilogue(c) == Fused(c) /\ c.tight /\ ~UseCustom(c)
SplitHalvesFallback(c) == TightEpilogue(c) /\ c.act = "silu"
Plan(c) ==
    [PlanGroupNTile(c) EXCEPT
        !.strategy = IF SplitHalvesFallback(c) THEN "Sequential" ELSE @]

\* Mutant: no cap at the team.
ParticipatingNThr_NoTeamCap(c, plan, e, team) == AtLeastOne(c.N[e] \div plan.minNTile)
\* Mutant: the stable count is not capped by the aligned slots of the expert.
ParticipatingNThr_NoAlignCap(c, plan, e, team) ==
    IF ~UseCustom(c) /\ plan.stable[e] > 0 THEN AtMost(plan.stable[e], team)
    ELSE AtLeastOne(AtMost(team, c.N[e] \div plan.minNTile))
ParticipatingNThr(c, plan, e, team) ==
    IF ~UseCustom(c) /\ plan.stable[e] > 0
    THEN AtLeastOne(Min({plan.stable[e], AtLeastOne(c.N[e] \div AtLeastOne(NrAlign(c))), team}))
    ELSE AtLeastOne(AtMost(team, c.N[e] \div plan.minNTile))

\* One item of work, unless it is empty.
ItemOf(e, span) ==
    IF span[1] < span[2] THEN <<[e |-> e, lo |-> span[1], hi |-> span[2]]>> ELSE <<>>

\* Mutant: idle experts are not skipped.
TileOf_Idle(c, plan, s) ==
    LET n == ParticipatingNThr(c, plan, s.e, s.team)
    IN  IF s.local < n
        THEN ItemOf(s.e, AlignedNSplit(c.N[s.e], n, s.local, NrAlign(c))) ELSE <<>>
\* Thread local of a team's tile of expert e, and its rows in the separate
\* activation pass: no item, or one.
TileOf(c, plan, s) ==
    LET n == ParticipatingNThr(c, plan, s.e, s.team)
    IN  IF c.M[s.e] > 0 /\ s.local < n
        THEN ItemOf(s.e, AlignedNSplit(c.N[s.e], n, s.local, NrAlign(c))) ELSE <<>>
RowsOf(c, plan, s) ==
    LET n == ParticipatingNThr(c, plan, s.e, s.team)
    IN  IF c.M[s.e] > 0 /\ s.local < n
        THEN ItemOf(s.e, <<(c.M[s.e] * s.local) \div n, (c.M[s.e] * (s.local + 1)) \div n>>)
        ELSE <<>>

\* A seat is a thread's place in the team of one expert.
Seat(e, local, team) == [e |-> e, local |-> local, team |-> team]

DecodeDSeats(c, plan) ==
    <<[t \in 1 .. Ops(c) * plan.thrPerExpert |->
        <<Seat(1 + (t - 1) \div plan.thrPerExpert, (t - 1) % plan.thrPerExpert,
               plan.thrPerExpert)>>]>>

\* The active experts, heaviest first, dealt to the CCDs in turn; each CCD is
\* the team of its experts, and the last may be short of lanes.
DynamicSeats(c) ==
    LET desc == ByRowsDesc(c, Active(c))
        size == c.ccdSize
        dealt(ccd) == 1 + (Len(desc) - 1 - ccd) \div c.numCcds
    IN  <<[t \in 1 .. c.threads |->
            LET ccd == (t - 1) \div size
            IN  IF ccd >= Len(desc) THEN <<>>
                ELSE [i \in 1 .. dealt(ccd) |->
                        Seat(desc[1 + ccd + (i - 1) * c.numCcds], (t - 1) % size,
                             AtMost(size, c.threads - ccd * size))]]>>

\* One round: the batch's experts in order, each with its share of threads,
\* the same for all or each its own.
RoundSize(c, plan, first) == AtMost(Ops(c), first + plan.batch - 1) - first + 1
UniformThr(c, plan, size) ==
    IF plan.nThrFixed > 0 THEN plan.nThrFixed ELSE AtMost(c.threads \div size, plan.maxNThr)
EvenSeat(plan, first, size, thr, t) ==
    IF t <= size * thr
    THEN <<Seat(plan.order[first + (t - 1) \div thr], (t - 1) % thr, thr)>> ELSE <<>>
UnevenSeat(plan, first, size, t) ==
    LET expert(i) == plan.order[first + i - 1]
        slots == [i \in 1 .. size |-> plan.stable[expert(i)]]
        before(i) == Total(slots, 1 .. i - 1)
        mine == {i \in 1 .. size : before(i) < t /\ t <= before(i) + slots[i]}
    IN  IF mine = {} THEN <<>>
        ELSE LET i == Max(mine) IN <<Seat(expert(i), t - 1 - before(i), slots[i])>>
RoundSeats(c, plan, first) ==
    LET size == RoundSize(c, plan, first)
    IN  [t \in 1 .. c.threads |->
            IF plan.perExpert THEN UnevenSeat(plan, first, size, t)
            ELSE EvenSeat(plan, first, size, UniformThr(c, plan, size), t)]
RoundsSeats(c, plan) ==
    [r \in 1 .. CeilDiv(Ops(c), plan.batch) |-> RoundSeats(c, plan, 1 + (r - 1) * plan.batch)]

Seats(c, plan) ==
    CASE plan.strategy = "DecodeD" -> DecodeDSeats(c, plan)
      [] plan.strategy = "DecodeDynamic" -> DynamicSeats(c)
      [] OTHER -> RoundsSeats(c, plan)

\* The tiles or row slices of the seats, in the order each thread meets them.
WorkOf(seats, Item(_)) ==
    [r \in DOMAIN seats |-> [t \in DOMAIN seats[r] |->
        FlattenSeq([i \in DOMAIN seats[r][t] |-> Item(seats[r][t][i])])]]

\* execute_sequential: one expert after another, every column at once.
WholeExperts(c) ==
    <<[t \in 1 .. 1 |->
        LET act == Sorted(Active(c), LAMBDA e, f : e < f)
        IN  [i \in DOMAIN act |-> [e |-> act[i], lo |-> 0, hi |-> c.N[act[i]]]]]>>

\* prepack_for_algo_3's prediction of the columns the standard kernel asks
\* for.
WarmedTiles(c) ==
    IF StableFits(c)
    THEN UNION {LET n == AtLeastOne(AtMost(AoclStableNThr(c),
                                           AtLeastOne(c.N[e] \div AtLeastOne(NrAlign(c)))))
                IN  {LET cols == AlignedNSplit(c.N[e], n, t, NrAlign(c))
                     IN  [e |-> e, lo |-> cols[1], hi |-> cols[2]] : t \in 0 .. n - 1} :
                e \in Experts(c)}
    ELSE {[e |-> e, lo |-> 0, hi |-> c.N[e]] : e \in Experts(c)}

\* The schedule: the rounds' tiles and row slices, the barriers of the
\* executor, what can fail, and what the call's properties are stated with
\* (warmed holds the warmed tiles of a call on the strict-stable plan).
ScheduleOf(c, plan, seats) ==
    LET seq == plan.strategy = "Sequential"
        pass == Fused(c) /\ ~seq /\ ~UseCustom(c) /\ ~TightEpilogue(c)
    IN  [tiles |-> IF seq THEN WholeExperts(c)
                   ELSE WorkOf(seats, LAMBDA s : TileOf(c, plan, s)),
         rows |-> IF pass THEN WorkOf(seats, LAMBDA s : RowsOf(c, plan, s)) ELSE <<>>,
         activationPass |-> pass,
         endBarrier |-> plan.strategy \in {"FewExperts", "ManyExperts"},
         inTile |-> Fused(c) /\ ~pass,
         scratch |-> TightEpilogue(c) \/ (seq /\ Fused(c) /\ c.tight),
         stopsAtFailure |-> seq,
         custom |-> {e \in Experts(c) : UseCustom(c) /\ ~seq
                                         /\ ~(c.int8 /\ e \in c.badHoist)},
         M |-> c.M, N |-> c.N, fused |-> Fused(c), packNr |-> c.packNr,
         warmed |-> IF StrictStable(c) /\ c.packNr = 0 /\ plan = StablePlan(c)
                    THEN <<WarmedTiles(c)>> ELSE <<>>]
Planned(c, plan) == ScheduleOf(c, plan, Seats(c, plan))
Schedule(c) == Planned(c, Plan(c))
=============================================================================
