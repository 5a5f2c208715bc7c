------------------------------ MODULE TileTeam ------------------------------
(***************************************************************************)
(* The OpenMP team of the N-tile executors.  A schedule gives each thread  *)
(* of the team, for every round, the column tiles it multiplies and, when  *)
(* the activation is a pass of its own, the row slices it activates after  *)
(* a barrier; the rounds of execute_rounds end in a barrier.  A tile       *)
(* with a fused epilogue activates its columns itself, and may need a      *)
(* scratch buffer that cannot be allocated.  Each thread runs at its own   *)
(* pace between barriers; the call returns when the whole team is done.    *)
(***************************************************************************)
EXTENDS Integers, Sequences, FiniteSets

CONSTANTS
    Schedules,  \* the schedules a call can have
    MaxTeam     \* bound: threads of the largest team

VARIABLES
    sched,      \* the schedule of the call, never changed
    at,         \* [Threads -> round, stage and item the thread is at]
    multiplied, \* the tiles multiplied, with their round and thread
    activated,  \* the rectangles activated, with their thread
    allocFail,  \* alloc_fail
    returned    \* flat_n_tile has returned

vars == <<sched, at, multiplied, activated, allocFail, returned>>

Rounds == DOMAIN sched.tiles
Threads == DOMAIN sched.tiles[1]
LastRound == Len(sched.tiles)
ActiveExperts == {e \in DOMAIN sched.M : sched.M[e] > 0}

Place(r, stage, i) == [round |-> r, stage |-> stage, item |-> i]
Done == Place(LastRound, "done", 1)

AfterTiles(r) ==
    CASE sched.activationPass -> Place(r, "mid", 1)
      [] ~sched.activationPass /\ sched.endBarrier -> Place(r, "end", 1)
      [] OTHER -> Done
AfterRows(r) == IF sched.endBarrier THEN Place(r, "end", 1) ELSE Done

\* Where a thread is once the items of its stage have run out.
Settled(t, p) ==
    CASE p.stage = "tiles" /\ p.item > Len(sched.tiles[p.round][t]) -> AfterTiles(p.round)
      [] p.stage = "rows" /\ p.item > Len(sched.rows[p.round][t]) -> AfterRows(p.round)
      [] OTHER -> p

Init ==
    /\ sched \in Schedules
    /\ at = [t \in Threads |-> Settled(t, Place(1, "tiles", 1))]
    /\ multiplied = {}
    /\ activated = {}
    /\ allocFail = FALSE
    /\ returned = FALSE

Go(t, p) == at' = [at EXCEPT ![t] = Settled(t, p)]
NextItem(t) == Go(t, Place(at[t].round, at[t].stage, at[t].item + 1))

\* An activated rectangle: rows rlo .. rhi - 1 of columns clo .. chi - 1.
Rect(e, rlo, rhi, clo, chi, t) ==
    [e |-> e, rlo |-> rlo, rhi |-> rhi, clo |-> clo, chi |-> chi, by |-> t]

ThisTile(t) == sched.tiles[at[t].round][t][at[t].item]

\* do_tile
Multiply(t) ==
    LET x == ThisTile(t)
    IN  /\ multiplied' = multiplied \cup
                {[e |-> x.e, lo |-> x.lo, hi |-> x.hi, round |-> at[t].round, by |-> t]}
        /\ activated' = IF sched.inTile
                        THEN activated \cup {Rect(x.e, 0, sched.M[x.e], x.lo, x.hi, t)}
                        ELSE activated
        /\ NextItem(t)
        /\ UNCHANGED <<sched, allocFail, returned>>

\* Mutant: the failure is not told.
ScratchFails_Silent(t) ==
    /\ sched.scratch
    /\ IF sched.stopsAtFailure
       THEN Go(t, Place(at[t].round, "tiles", 1 + Len(sched.tiles[at[t].round][t])))
       ELSE NextItem(t)
    /\ UNCHANGED <<sched, multiplied, activated, allocFail, returned>>
\* grow_scratch fails: the tile is left undone and the flag set; the
\* sequential executor gives up the experts that follow as well.
ScratchFails(t) ==
    /\ sched.scratch
    /\ allocFail' = TRUE
    /\ IF sched.stopsAtFailure
       THEN Go(t, Place(at[t].round, "tiles", 1 + Len(sched.tiles[at[t].round][t])))
       ELSE NextItem(t)
    /\ UNCHANGED <<sched, multiplied, activated, returned>>

DoTile(t) == at[t].stage = "tiles" /\ (Multiply(t) \/ ScratchFails(t))

\* apply_swiglu_oai: the thread's rows of one expert, every column.
ApplyAct(t) ==
    /\ at[t].stage = "rows"
    /\ LET x == sched.rows[at[t].round][t][at[t].item]
       IN  activated' = activated \cup {Rect(x.e, x.lo, x.hi, 0, sched.N[x.e], t)}
    /\ NextItem(t)
    /\ UNCHANGED <<sched, multiplied, allocFail, returned>>

\* An OpenMP barrier lets a thread pass once all have reached it.
Rank(p) == 4 * p.round + (CASE p.stage = "tiles" -> 0 [] p.stage = "mid" -> 1
                            [] p.stage = "rows" -> 2 [] OTHER -> 3)
AllReached(t) == \A u \in Threads : Rank(at[u]) >= Rank(at[t])

\* Mutant: no barrier before the activation pass.
PassMid_NoBarrier(t) ==
    /\ at[t].stage = "mid"
    /\ Go(t, Place(at[t].round, "rows", 1))
    /\ UNCHANGED <<sched, multiplied, activated, allocFail, returned>>
PassMid(t) ==
    /\ at[t].stage = "mid" /\ AllReached(t)
    /\ Go(t, Place(at[t].round, "rows", 1))
    /\ UNCHANGED <<sched, multiplied, activated, allocFail, returned>>

PassEnd(t) ==
    /\ at[t].stage = "end" /\ AllReached(t)
    /\ IF at[t].round < LastRound THEN Go(t, Place(at[t].round + 1, "tiles", 1))
       ELSE Go(t, Done)
    /\ UNCHANGED <<sched, multiplied, activated, allocFail, returned>>

\* The end of the parallel region, and of flat_n_tile.
Return ==
    /\ ~returned
    /\ \A t \in Threads : at[t].stage = "done"
    /\ returned' = TRUE
    /\ UNCHANGED <<sched, at, multiplied, activated, allocFail>>

ThreadStep(t) == DoTile(t) \/ ApplyAct(t) \/ PassMid(t) \/ PassEnd(t)
Next == Return \/ \E t \in Threads : ThreadStep(t)

\* The operating system runs every thread of the team.
ASSUME TeamIsBounded == \A s \in Schedules : Len(s.tiles[1]) <= MaxTeam
Fairness ==
    /\ WF_vars(Return)
    /\ \A t \in 1 .. MaxTeam : WF_vars(t \in Threads /\ ThreadStep(t))
Spec == Init /\ [][Next]_vars /\ Fairness

---------------------------------------------------------------------------
(* What the planner owes the team *)

\* The items of rounds and threads are ranges of the rows or columns of
\* active experts; together they hold each once.
Holds(x, e, m) == x.e = e /\ x.lo <= m /\ m < x.hi
Apart(x, y) == x.e # y.e \/ x.hi <= y.lo \/ y.hi <= x.lo
Partitions(s, work, width) ==
    /\ DOMAIN work = DOMAIN s.tiles
    /\ \A r \in DOMAIN work :
        /\ DOMAIN work[r] = DOMAIN s.tiles[1]
        /\ \A t \in DOMAIN work[r] :
            /\ Len(work[r][t]) \in Nat /\ DOMAIN work[r][t] = 1 .. Len(work[r][t])
            /\ \A i \in DOMAIN work[r][t] :
                LET x == work[r][t][i]
                IN  /\ x.e \in DOMAIN s.M /\ s.M[x.e] > 0
                    /\ x.lo \in Nat /\ x.hi \in Nat /\ x.lo < x.hi /\ x.hi <= width[x.e]
    /\ \A r, q \in DOMAIN work : \A t, u \in DOMAIN s.tiles[1] :
        \A i \in DOMAIN work[r][t] : \A k \in DOMAIN work[q][u] :
            <<r, t, i>> # <<q, u, k>> => Apart(work[r][t][i], work[q][u][k])
    /\ \A e \in DOMAIN s.M : s.M[e] > 0 => \A m \in 0 .. width[e] - 1 :
        \E r \in DOMAIN work : \E t \in DOMAIN s.tiles[1] : \E i \in DOMAIN work[r][t] :
            Holds(work[r][t][i], e, m)

\* The rows of an expert are activated in the round of its last tile, or
\* later; only executors whose rounds end in a barrier have several.
IsSchedule(s) ==
    /\ {s.activationPass, s.endBarrier, s.inTile, s.scratch, s.stopsAtFailure, s.fused}
        \subseteq BOOLEAN
    /\ DOMAIN s.N = DOMAIN s.M
    /\ \A e \in DOMAIN s.M : s.M[e] \in Nat /\ s.N[e] \in Nat \ {0}
    /\ Len(s.tiles) \in Nat \ {0} /\ DOMAIN s.tiles = 1 .. Len(s.tiles)
    /\ Len(s.tiles) > 1 => s.endBarrier
    /\ s.fused = (s.activationPass \/ s.inTile) /\ ~(s.activationPass /\ s.inTile)
    /\ s.activationPass => ~s.scratch
    /\ Partitions(s, s.tiles, s.N)
    /\ s.activationPass =>
        /\ Partitions(s, s.rows, s.M)
        /\ \A r, q \in DOMAIN s.tiles : \A t, u \in DOMAIN s.tiles[1] :
            \A i \in DOMAIN s.tiles[r][t] : \A k \in DOMAIN s.rows[q][u] :
                s.tiles[r][t][i].e = s.rows[q][u][k].e => r <= q
SchedulesAreSound == \A s \in Schedules : IsSchedule(s)

---------------------------------------------------------------------------
(* Properties *)

Stages == {"tiles", "mid", "rows", "end", "done"}
MultipliedTile ==
    [e : ActiveExperts, lo : Nat, hi : Nat, round : Rounds, by : Threads]
ActivatedRect ==
    [e : ActiveExperts, rlo : Nat, rhi : Nat, clo : Nat, chi : Nat, by : Threads]

\* The call runs a schedule that holds every column, and every row of the
\* activation pass, once; every thread is at an item it was given, and only
\* active experts of the call are multiplied and activated.
TypeOK ==
    /\ IsSchedule(sched)
    /\ at \in [Threads -> [round : Rounds, stage : Stages, item : Nat \ {0}]]
    /\ \A t \in Threads :
        /\ at[t].stage = "tiles" => at[t].item \in DOMAIN sched.tiles[at[t].round][t]
        /\ at[t].stage = "rows" =>
            sched.activationPass /\ at[t].item \in DOMAIN sched.rows[at[t].round][t]
        /\ at[t].stage = "mid" => sched.activationPass
        /\ at[t].stage = "end" => sched.endBarrier
        /\ at[t].stage = "done" => at[t] = Done
    /\ multiplied \subseteq MultipliedTile /\ \A x \in multiplied : x.lo < x.hi
    /\ activated \subseteq ActivatedRect
    /\ allocFail \in BOOLEAN /\ returned \in BOOLEAN
    /\ allocFail => sched.scratch

TilesOf(e) == {x \in multiplied : x.e = e}
RectsOf(e) == {a \in activated : a.e = e}
Columns(e) == UNION {x.lo .. x.hi - 1 : x \in TilesOf(e)}
Elements(a) == (a.rlo .. a.rhi - 1) \X (a.clo .. a.chi - 1)

IsProduct(e) == Columns(e) = 0 .. sched.N[e] - 1
IsActivated(e) ==
    UNION {Elements(a) : a \in RectsOf(e)} = (0 .. sched.M[e] - 1) \X (0 .. sched.N[e] - 1)
IsFinal(e) == IsProduct(e) /\ (sched.fused => IsActivated(e))

\* Whatever the strategy and the split, no column of an expert's output is
\* multiplied by two threads or twice, and a call that returns without an
\* allocation failure has multiplied every column of every active expert.
\* (do_tile's coverage assertion; the executors' thread-to-expert arithmetic.)
EachColumnOnce ==
    /\ \A x, y \in multiplied : x # y => Apart(x, y)
    /\ returned /\ ~allocFail => \A e \in ActiveExperts : IsProduct(e)

\* The activation compacts a row in place, so a thread that activates a row
\* must find every column of it multiplied, whichever threads multiplied
\* them; and no element is activated twice or left out.
RectsApart(a, b) ==
    \/ a.e # b.e
    \/ a.rhi <= b.rlo \/ b.rhi <= a.rlo
    \/ a.chi <= b.clo \/ b.chi <= a.clo
ActivatedOnceAfterProduct ==
    /\ \A a \in activated : a.clo .. a.chi - 1 \subseteq Columns(a.e)
    /\ \A a, b \in activated : a # b => RectsApart(a, b)
    /\ returned /\ ~allocFail /\ sched.fused => \A e \in ActiveExperts : IsActivated(e)

---------------------------------------------------------------------------
\* The refinement: an expert's output is its product once its columns are
\* multiplied, and final once its elements are activated too.
OutputOf(e) ==
    CASE IsFinal(e) -> "final"
      [] ~IsFinal(e) /\ IsProduct(e) -> "product"
      [] OTHER -> "none"
Promise == INSTANCE GroupedCall WITH
    experts <- ActiveExperts,
    pass <- sched.activationPass,
    out <- [e \in ActiveExperts |-> OutputOf(e)],
    failed <- allocFail
\* The team's interleavings of tiles, barriers and row slices implement the
\* promise to the caller: no output changes after it is final or after the
\* call returns, and the call returns with every output final or a failure.
KeepsPromise == Promise!Spec
KeepsPromiseSafety == Promise!Init /\ [][Promise!Next]_(Promise!vars)
=============================================================================
