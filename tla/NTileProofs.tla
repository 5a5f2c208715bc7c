----------------------------- MODULE NTileProofs -----------------------------
(***************************************************************************)
(* Proofs about NTile.                                                     *)
(*                                                                         *)
(* The team, for every set of schedules that hold each column of each      *)
(* expert once, and teams of any size: no column is multiplied twice or    *)
(* left out, no element is activated before its row is complete, twice or  *)
(* not at all, and the team keeps the promise to the caller.  What was     *)
(* multiplied or activated are items of the schedule, so its items being   *)
(* apart keeps anything from being done twice; an item a thread has passed *)
(* was done, unless an allocation failed, so nothing is left out when      *)
(* every thread is done; and the barrier before the activation pass means  *)
(* that a thread at its rows finds every thread past the tiles of the      *)
(* round.                                                                  *)
(*                                                                         *)
(* What the planner of flat_n_tile owes the team, for calls of any shape:  *)
(* the column split holds every column once and honours the alignment it   *)
(* can, every order keeps every expert once, the schedules are ones that   *)
(* the theorems about the team assume, and their tiles are whole blocks of *)
(* their kernel and columns that prepack warmed.                           *)
(***************************************************************************)
EXTENDS NTile, GroupedProofs

\* What item i of thread t in round r leaves behind.
TileAt(r, t, i) ==
    [e |-> sched.tiles[r][t][i].e, lo |-> sched.tiles[r][t][i].lo,
     hi |-> sched.tiles[r][t][i].hi, round |-> r, by |-> t]
RowsAt(r, t, i) ==
    Rect(sched.rows[r][t][i].e, sched.rows[r][t][i].lo, sched.rows[r][t][i].hi,
         0, sched.N[sched.rows[r][t][i].e], t)
Whole(x) == Rect(x.e, 0, sched.M[x.e], x.lo, x.hi, x.by)

\* A thread has gone past the item.
TilePast(r, t, i) ==
    \/ at[t].round > r
    \/ at[t].round = r /\ (at[t].stage = "tiles" => at[t].item > i)
RowsPast(r, t, i) ==
    \/ at[t].round > r
    \/ /\ at[t].round = r /\ at[t].stage \notin {"tiles", "mid"}
       /\ at[t].stage = "rows" => at[t].item > i

\* What is multiplied is of the schedule, and what is past is multiplied.
TilesInv ==
    /\ \A x \in multiplied : \E i \in DOMAIN sched.tiles[x.round][x.by] :
        x = TileAt(x.round, x.by, i)
    /\ ~allocFail => \A r \in Rounds : \A t \in Threads : \A i \in DOMAIN sched.tiles[r][t] :
        TilePast(r, t, i) => TileAt(r, t, i) \in multiplied

\* The same of what is activated: with its tile, or by a pass of its own.
InTileInv ==
    /\ sched.inTile =>
        /\ \A x \in multiplied : Whole(x) \in activated
        /\ \A a \in activated : \E x \in multiplied : a = Whole(x)
    /\ ~sched.fused => activated = {}
PassInv == sched.activationPass =>
    /\ \A a \in activated : \E r \in Rounds : \E t \in Threads :
        \E i \in DOMAIN sched.rows[r][t] : a = RowsAt(r, t, i)
    /\ \A r \in Rounds : \A t \in Threads : \A i \in DOMAIN sched.rows[r][t] :
        RowsPast(r, t, i) => RowsAt(r, t, i) \in activated

\* A thread past the barrier of a round finds every thread past its tiles.
BarrierInv ==
    \A t, u \in Threads :
        sched.activationPass /\ at[t].stage \in {"rows", "end", "done"} =>
            /\ at[u].round >= at[t].round
            /\ at[u].round = at[t].round => at[u].stage # "tiles"

FoundProduct == \A a \in activated : a.clo .. a.chi - 1 \subseteq Columns(a.e)
ReturnInv == returned => \A t \in Threads : at[t].stage = "done"

IInv ==
    /\ TypeOK /\ TilesInv /\ InTileInv /\ PassInv /\ BarrierInv /\ FoundProduct /\ ReturnInv

----------------------------------------------------------------------------
(* The schedule of the call. *)

(* The rounds, and how the kinds of activation exclude each other.          *)
LEMMA RoundsAreNumbers ==
  ASSUME IsSchedule(sched)
  PROVE  /\ LastRound \in Nat \ {0} /\ Rounds = 1 .. LastRound
         /\ LastRound > 1 => sched.endBarrier
         /\ 1 \in Rounds /\ LastRound \in Rounds
         /\ sched.activationPass \in BOOLEAN /\ sched.endBarrier \in BOOLEAN
         /\ sched.inTile \in BOOLEAN /\ sched.scratch \in BOOLEAN /\ sched.fused \in BOOLEAN
         /\ sched.fused = (sched.activationPass \/ sched.inTile)
         /\ ~(sched.activationPass /\ sched.inTile)
         /\ sched.activationPass => ~sched.scratch
  BY DEF IsSchedule, LastRound, Rounds

(* An active expert has rows and columns.                                   *)
LEMMA ActiveExpertsHaveSize ==
  ASSUME IsSchedule(sched), NEW e \in ActiveExperts
  PROVE  e \in DOMAIN sched.M /\ sched.M[e] \in Nat \ {0} /\ sched.N[e] \in Nat \ {0}
  BY DEF IsSchedule, ActiveExperts

(* The items of a thread are ranges of columns, or of rows, of active       *)
(* experts.                                                                 *)
LEMMA TilesAreColumns ==
  ASSUME IsSchedule(sched), NEW r \in Rounds, NEW t \in Threads
  PROVE  /\ Len(sched.tiles[r][t]) \in Nat
         /\ DOMAIN sched.tiles[r][t] = 1 .. Len(sched.tiles[r][t])
         /\ \A i \in DOMAIN sched.tiles[r][t] :
              /\ sched.tiles[r][t][i].e \in ActiveExperts
              /\ sched.tiles[r][t][i].lo \in Nat /\ sched.tiles[r][t][i].hi \in Nat
              /\ sched.tiles[r][t][i].lo < sched.tiles[r][t][i].hi
              /\ sched.tiles[r][t][i].hi <= sched.N[sched.tiles[r][t][i].e]
<1>1. Partitions(sched, sched.tiles, sched.N)
  BY DEF IsSchedule
<1>2. t \in DOMAIN sched.tiles[r]
  BY <1>1 DEF Partitions, Rounds, Threads
<1> QED
  BY <1>1, <1>2 DEF Partitions, Rounds, ActiveExperts

(* The same of the activation pass.                                         *)
LEMMA RowsAreRows ==
  ASSUME IsSchedule(sched), sched.activationPass, NEW r \in Rounds, NEW t \in Threads
  PROVE  /\ Len(sched.rows[r][t]) \in Nat
         /\ DOMAIN sched.rows[r][t] = 1 .. Len(sched.rows[r][t])
         /\ \A i \in DOMAIN sched.rows[r][t] :
              /\ sched.rows[r][t][i].e \in ActiveExperts
              /\ sched.rows[r][t][i].lo \in Nat /\ sched.rows[r][t][i].hi \in Nat
              /\ sched.rows[r][t][i].lo < sched.rows[r][t][i].hi
              /\ sched.rows[r][t][i].hi <= sched.M[sched.rows[r][t][i].e]
<1>1. Partitions(sched, sched.rows, sched.M)
  BY DEF IsSchedule
<1>2. r \in DOMAIN sched.rows /\ t \in DOMAIN sched.rows[r]
  BY <1>1 DEF Partitions, Rounds, Threads
<1> QED
  BY <1>1, <1>2 DEF Partitions, ActiveExperts

(* No two items of the schedule share a column, or a row. *)
LEMMA TilesAreApart ==
  ASSUME IsSchedule(sched),
         NEW r \in Rounds, NEW q \in Rounds, NEW t \in Threads, NEW u \in Threads,
         NEW i \in DOMAIN sched.tiles[r][t], NEW k \in DOMAIN sched.tiles[q][u],
         <<r, t, i>> # <<q, u, k>>
  PROVE  Apart(sched.tiles[r][t][i], sched.tiles[q][u][k])
<1>1. Partitions(sched, sched.tiles, sched.N)
  BY DEF IsSchedule
<1> QED
  BY <1>1 DEF Partitions, Rounds, Threads

(* Nor do two slices of the activation pass share a row.                    *)
LEMMA RowsAreApart ==
  ASSUME IsSchedule(sched), sched.activationPass,
         NEW r \in Rounds, NEW q \in Rounds, NEW t \in Threads, NEW u \in Threads,
         NEW i \in DOMAIN sched.rows[r][t], NEW k \in DOMAIN sched.rows[q][u],
         <<r, t, i>> # <<q, u, k>>
  PROVE  Apart(sched.rows[r][t][i], sched.rows[q][u][k])
<1>1. Partitions(sched, sched.rows, sched.M)
  BY DEF IsSchedule
<1> QED
  BY <1>1 DEF Partitions, Rounds, Threads

(* Every column of an active expert is in a tile, and every row of it in a  *)
(* slice of the activation pass.                                            *)
LEMMA ColumnsAreCovered ==
  ASSUME IsSchedule(sched), NEW e \in ActiveExperts, NEW m \in 0 .. sched.N[e] - 1
  PROVE  \E r \in Rounds : \E t \in Threads : \E i \in DOMAIN sched.tiles[r][t] :
            Holds(sched.tiles[r][t][i], e, m)
<1>1. Partitions(sched, sched.tiles, sched.N)
  BY DEF IsSchedule
<1> QED
  BY <1>1 DEF Partitions, Rounds, Threads, ActiveExperts

(* Every row of an active expert is in a slice of the pass.                 *)
LEMMA RowsAreCovered ==
  ASSUME IsSchedule(sched), sched.activationPass,
         NEW e \in ActiveExperts, NEW m \in 0 .. sched.M[e] - 1
  PROVE  \E r \in Rounds : \E t \in Threads : \E i \in DOMAIN sched.rows[r][t] :
            Holds(sched.rows[r][t][i], e, m)
<1>1. Partitions(sched, sched.rows, sched.M) /\ DOMAIN sched.rows = Rounds
  BY DEF IsSchedule, Partitions, Rounds
<1> QED
  BY <1>1, SMTT(20) DEF Partitions, Threads, ActiveExperts

(* No expert is activated in a round before its last tile.                  *)
LEMMA RowsFollowTiles ==
  ASSUME IsSchedule(sched), sched.activationPass,
         NEW r \in Rounds, NEW q \in Rounds, NEW t \in Threads, NEW u \in Threads,
         NEW i \in DOMAIN sched.tiles[r][t], NEW k \in DOMAIN sched.rows[q][u],
         sched.tiles[r][t][i].e = sched.rows[q][u][k].e
  PROVE  r <= q
  BY DEF IsSchedule, Rounds, Threads

----------------------------------------------------------------------------
(* Where a thread goes. *)

PlaceSet == [round : Rounds, stage : Stages, item : Nat \ {0}]

\* A place thread t may be at.
IsPlaceOf(t, p) ==
    /\ p \in PlaceSet
    /\ p.stage = "tiles" => p.item \in DOMAIN sched.tiles[p.round][t]
    /\ p.stage = "rows" => sched.activationPass /\ p.item \in DOMAIN sched.rows[p.round][t]
    /\ p.stage = "mid" => sched.activationPass
    /\ p.stage = "end" => sched.endBarrier
    /\ p.stage = "done" => p = Done

(* A thread sent to a tile past its last goes on to what follows.           *)
LEMMA SettledAtTiles ==
  ASSUME IsSchedule(sched), NEW r \in Rounds, NEW t \in Threads, NEW i \in Nat \ {0},
         NEW p, p = Settled(t, Place(r, "tiles", i))
  PROVE  /\ IsPlaceOf(t, p) /\ p.round = r
         /\ \/ p.stage = "tiles" /\ p.item = i
            \/ p.stage \in {"mid", "end", "done"} /\ i > Len(sched.tiles[r][t])
         /\ p.stage \in {"end", "done"} => ~sched.activationPass
<1>1. /\ Len(sched.tiles[r][t]) \in Nat
      /\ DOMAIN sched.tiles[r][t] = 1 .. Len(sched.tiles[r][t])
  BY TilesAreColumns
<1>2. CASE i <= Len(sched.tiles[r][t])
  <2>1. p = Place(r, "tiles", i)
    BY <1>1, <1>2 DEF Settled, Place
  <2> QED
    BY <1>1, <1>2, <2>1 DEF Place, IsPlaceOf, PlaceSet, Stages
<1>3. CASE i > Len(sched.tiles[r][t])
  <2>1. p = AfterTiles(r)
    BY <1>1, <1>3 DEF Settled, Place
  <2>2. ~sched.endBarrier => LastRound = r
    BY RoundsAreNumbers
  <2>3. CASE sched.activationPass
    BY <1>3, <2>1, <2>3 DEF AfterTiles, Place, IsPlaceOf, PlaceSet, Stages
  <2>4. CASE ~sched.activationPass /\ sched.endBarrier
    BY <1>3, <2>1, <2>4 DEF AfterTiles, Place, IsPlaceOf, PlaceSet, Stages
  <2>5. CASE ~sched.activationPass /\ ~sched.endBarrier
    <3>1. p = Done
      BY <2>1, <2>5 DEF AfterTiles
    <3> QED
      BY <1>3, <2>2, <2>5, <3>1 DEF Done, Place, IsPlaceOf, PlaceSet, Stages
  <2> QED
    BY <2>3, <2>4, <2>5
<1> QED
  BY <1>1, <1>2, <1>3

(* A thread sent to a slice past its last goes on to what follows.          *)
LEMMA SettledAtRows ==
  ASSUME IsSchedule(sched), sched.activationPass,
         NEW r \in Rounds, NEW t \in Threads, NEW i \in Nat \ {0},
         NEW p, p = Settled(t, Place(r, "rows", i))
  PROVE  /\ IsPlaceOf(t, p) /\ p.round = r
         /\ \/ p.stage = "rows" /\ p.item = i
            \/ p.stage \in {"end", "done"} /\ i > Len(sched.rows[r][t])
<1>1. /\ Len(sched.rows[r][t]) \in Nat
      /\ DOMAIN sched.rows[r][t] = 1 .. Len(sched.rows[r][t])
  BY RowsAreRows
<1>2. CASE i <= Len(sched.rows[r][t])
  <2>1. p = Place(r, "rows", i)
    BY <1>1, <1>2 DEF Settled, Place
  <2> QED
    BY <1>1, <1>2, <2>1 DEF Place, IsPlaceOf, PlaceSet, Stages
<1>3. CASE i > Len(sched.rows[r][t])
  <2>1. p = AfterRows(r)
    BY <1>1, <1>3 DEF Settled, Place
  <2>2. ~sched.endBarrier => LastRound = r
    BY RoundsAreNumbers
  <2>3. CASE sched.endBarrier
    BY <1>3, <2>1, <2>3 DEF AfterRows, Place, IsPlaceOf, PlaceSet, Stages
  <2>4. CASE ~sched.endBarrier
    <3>1. p = Done
      BY <2>1, <2>4 DEF AfterRows
    <3> QED
      BY <1>3, <2>2, <2>4, <3>1 DEF Done, Place, IsPlaceOf, PlaceSet, Stages
  <2> QED
    BY <2>3, <2>4
<1> QED
  BY <1>1, <1>2, <1>3

(* A thread that is done stays where it is.                                 *)
LEMMA SettledWhenDone ==
  ASSUME IsSchedule(sched), NEW t \in Threads
  PROVE  Settled(t, Done) = Done /\ IsPlaceOf(t, Done)
         /\ Done.round = LastRound /\ Done.stage = "done"
<1>1. Settled(t, Done) = Done /\ Done.stage = "done" /\ Done.round = LastRound
  BY DEF Settled, Done, Place
<1>2. Done \in PlaceSet
  BY RoundsAreNumbers DEF Done, Place, PlaceSet, Stages
<1> QED
  BY <1>1, <1>2 DEF IsPlaceOf

(* How a thread moves on: only its own place changes, to another of its     *)
(* places.                                                                  *)
Moves(t, q) == IsPlaceOf(t, q) /\ at' = [at EXCEPT ![t] = q]

(* A thread is at a place of its own.                                       *)
LEMMA PlacesAreTheirs ==
  ASSUME TypeOK, NEW t \in Threads
  PROVE  IsPlaceOf(t, at[t])
  BY DEF TypeOK, IsPlaceOf, PlaceSet

(* After a tile comes the next, or the end of the tiles.                    *)
LEMMA TileMoves ==
  ASSUME TypeOK, NEW t \in Threads, at[t].stage = "tiles", NextItem(t)
  PROVE  \E q : /\ Moves(t, q) /\ q.round = at[t].round
                /\ \/ q.stage = "tiles" /\ q.item = at[t].item + 1
                   \/ /\ q.stage \in {"mid", "end", "done"}
                      /\ at[t].item + 1 > Len(sched.tiles[at[t].round][t])
                /\ q.stage \in {"end", "done"} => ~sched.activationPass
<1> DEFINE q == Settled(t, Place(at[t].round, "tiles", at[t].item + 1))
<1>1. IsSchedule(sched) /\ at[t].round \in Rounds /\ at[t].item + 1 \in Nat \ {0}
  BY PlacesAreTheirs DEF TypeOK, IsPlaceOf, PlaceSet
<1>2. at' = [at EXCEPT ![t] = q]
  BY DEF NextItem, Go
<1> HIDE DEF q
<1>3. /\ IsPlaceOf(t, q) /\ q.round = at[t].round
      /\ \/ q.stage = "tiles" /\ q.item = at[t].item + 1
         \/ /\ q.stage \in {"mid", "end", "done"}
            /\ at[t].item + 1 > Len(sched.tiles[at[t].round][t])
      /\ q.stage \in {"end", "done"} => ~sched.activationPass
  BY <1>1, SettledAtTiles DEF q
<1> QED
  BY <1>2, <1>3 DEF Moves

(* A failed allocation leaves the tile, or the round.                       *)
LEMMA FailureMoves ==
  ASSUME TypeOK, NEW t \in Threads, at[t].stage = "tiles", ScratchFails(t)
  PROVE  \E q : /\ Moves(t, q) /\ q.round = at[t].round /\ q.stage # "rows"
                /\ q.stage \in {"end", "done"} => ~sched.activationPass
<1>1. CASE NextItem(t)
  BY <1>1, TileMoves
<1>2. CASE Go(t, Place(at[t].round, "tiles", 1 + Len(sched.tiles[at[t].round][t])))
  <2> DEFINE q == Settled(t, Place(at[t].round, "tiles", 1 + Len(sched.tiles[at[t].round][t])))
  <2>1. IsSchedule(sched) /\ at[t].round \in Rounds
    BY PlacesAreTheirs DEF TypeOK, IsPlaceOf, PlaceSet
  <2>2. Len(sched.tiles[at[t].round][t]) \in Nat
    BY <2>1, TilesAreColumns
  <2>3. at' = [at EXCEPT ![t] = q]
    BY <1>2 DEF Go
  <2> HIDE DEF q
  <2>4. IsPlaceOf(t, q) /\ q.round = at[t].round /\ q.stage # "rows"
        /\ (q.stage \in {"end", "done"} => ~sched.activationPass)
    <3>1. \A n \in Nat : 1 + n \in Nat \ {0}
      OBVIOUS
    <3>2. 1 + Len(sched.tiles[at[t].round][t]) \in Nat \ {0}
      BY <2>2, <3>1, Zenon
    <3> QED
      BY <2>1, <3>2, SettledAtTiles DEF q
  <2> QED
    BY <2>3, <2>4 DEF Moves
<1> QED
  BY <1>1, <1>2 DEF ScratchFails

(* After a row slice comes the next, or the end of the slices.              *)
LEMMA RowsMove ==
  ASSUME TypeOK, NEW t \in Threads, at[t].stage = "rows", NextItem(t)
  PROVE  \E q : /\ Moves(t, q) /\ q.round = at[t].round
                /\ \/ q.stage = "rows" /\ q.item = at[t].item + 1
                   \/ /\ q.stage \in {"end", "done"}
                      /\ at[t].item + 1 > Len(sched.rows[at[t].round][t])
<1> DEFINE q == Settled(t, Place(at[t].round, "rows", at[t].item + 1))
<1>1. /\ IsSchedule(sched) /\ at[t].round \in Rounds /\ at[t].item + 1 \in Nat \ {0}
      /\ sched.activationPass
  BY PlacesAreTheirs DEF TypeOK, IsPlaceOf, PlaceSet
<1>2. at' = [at EXCEPT ![t] = q]
  BY DEF NextItem, Go
<1> HIDE DEF q
<1>3. /\ IsPlaceOf(t, q) /\ q.round = at[t].round
      /\ \/ q.stage = "rows" /\ q.item = at[t].item + 1
         \/ /\ q.stage \in {"end", "done"}
            /\ at[t].item + 1 > Len(sched.rows[at[t].round][t])
  BY <1>1, SettledAtRows DEF q
<1> QED
  BY <1>2, <1>3 DEF Moves

(* The barrier before the activation pass leads to the slices.              *)
LEMMA MidMoves ==
  ASSUME TypeOK, NEW t \in Threads, PassMid(t)
  PROVE  \E q : /\ Moves(t, q) /\ q.round = at[t].round
                /\ \/ q.stage = "rows" /\ q.item = 1
                   \/ q.stage \in {"end", "done"} /\ 1 > Len(sched.rows[at[t].round][t])
<1> DEFINE q == Settled(t, Place(at[t].round, "rows", 1))
<1>1. IsSchedule(sched) /\ at[t].round \in Rounds /\ sched.activationPass
  BY PlacesAreTheirs DEF TypeOK, IsPlaceOf, PlaceSet, PassMid
<1>2. at' = [at EXCEPT ![t] = q]
  BY DEF PassMid, Go
<1> HIDE DEF q
<1>3. /\ IsPlaceOf(t, q) /\ q.round = at[t].round
      /\ \/ q.stage = "rows" /\ q.item = 1
         \/ q.stage \in {"end", "done"} /\ 1 > Len(sched.rows[at[t].round][t])
  BY <1>1, SettledAtRows DEF q
<1> QED
  BY <1>2, <1>3 DEF Moves

(* The barrier after a round leads to the next, or to the end.              *)
LEMMA EndMoves ==
  ASSUME TypeOK, NEW t \in Threads, PassEnd(t)
  PROVE  \E q : /\ Moves(t, q)
                /\ \/ /\ q.round = at[t].round + 1
                      /\ \/ q.stage = "tiles" /\ q.item = 1
                         \/ /\ q.stage \in {"mid", "end", "done"}
                            /\ 1 > Len(sched.tiles[at[t].round + 1][t])
                      /\ q.stage \in {"end", "done"} => ~sched.activationPass
                   \/ q = Done /\ at[t].round = LastRound
<1>1. IsSchedule(sched) /\ at[t].round \in Rounds
  BY PlacesAreTheirs DEF TypeOK, IsPlaceOf, PlaceSet
<1>2. at[t].round \in 1 .. LastRound
  BY <1>1, RoundsAreNumbers
<1>3. CASE at[t].round < LastRound
  <2> DEFINE q == Settled(t, Place(at[t].round + 1, "tiles", 1))
  <2>1. at' = [at EXCEPT ![t] = q]
    BY <1>3 DEF PassEnd, Go
  <2>2. at[t].round + 1 \in Rounds
    BY <1>1, <1>2, <1>3, RoundsAreNumbers
  <2> HIDE DEF q
  <2>3. /\ IsPlaceOf(t, q) /\ q.round = at[t].round + 1
        /\ \/ q.stage = "tiles" /\ q.item = 1
           \/ /\ q.stage \in {"mid", "end", "done"}
              /\ 1 > Len(sched.tiles[at[t].round + 1][t])
        /\ q.stage \in {"end", "done"} => ~sched.activationPass
    BY <1>1, <2>2, SettledAtTiles DEF q
  <2> QED
    BY <2>1, <2>3 DEF Moves
<1>4. CASE at[t].round = LastRound
  <2>1. at' = [at EXCEPT ![t] = Done]
    BY <1>1, <1>2, <1>4, SettledWhenDone, RoundsAreNumbers DEF PassEnd, Go
  <2>2. IsPlaceOf(t, Done)
    BY <1>1, SettledWhenDone
  <2> QED
    BY <1>4, <2>1, <2>2 DEF Moves
<1> QED
  BY <1>1, <1>2, <1>3, <1>4, RoundsAreNumbers

(* What a thread's step can be. *)
LEMMA StepKinds ==
  ASSUME [Next]_vars
  PROVE  \/ UNCHANGED vars
         \/ Return
         \/ \E t \in Threads :
              \/ at[t].stage = "tiles" /\ Multiply(t)
              \/ at[t].stage = "tiles" /\ ScratchFails(t)
              \/ ApplyAct(t) \/ PassMid(t) \/ PassEnd(t)
  BY DEF Next, ThreadStep, DoTile

(* The schedule of a call never changes.                                    *)
LEMMA ScheduleIsFixed ==
  ASSUME [Next]_vars
  PROVE  sched' = sched
<1>1. CASE UNCHANGED vars
  BY <1>1 DEF vars
<1>2. CASE Return
  BY <1>2 DEF Return
<1>3. ASSUME NEW t \in Threads,
             Multiply(t) \/ ScratchFails(t) \/ ApplyAct(t) \/ PassMid(t) \/ PassEnd(t)
      PROVE  sched' = sched
  BY <1>3 DEF Multiply, ScratchFails, ApplyAct, PassMid, PassEnd
<1> QED
  BY <1>1, <1>2, <1>3, StepKinds

----------------------------------------------------------------------------
(* The type invariant. *)

PlacesOK == at \in [Threads -> PlaceSet] /\ \A t \in Threads : IsPlaceOf(t, at[t])
WorkOK ==
    /\ multiplied \subseteq MultipliedTile /\ \A x \in multiplied : x.lo < x.hi
    /\ activated \subseteq ActivatedRect

TypeParts ==
    /\ IsSchedule(sched) /\ PlacesOK /\ WorkOK
    /\ allocFail \in BOOLEAN /\ returned \in BOOLEAN
    /\ allocFail => sched.scratch

(* The type invariant in the parts the proofs use.                          *)
LEMMA TypeHasParts == TypeOK <=> TypeParts
<1>1. TypeOK => PlacesOK
  BY DEF TypeOK, PlacesOK, IsPlaceOf, PlaceSet
<1>2. PlacesOK =>
      /\ at \in [Threads -> [round : Rounds, stage : Stages, item : Nat \ {0}]]
      /\ \A t \in Threads :
          /\ at[t].stage = "tiles" => at[t].item \in DOMAIN sched.tiles[at[t].round][t]
          /\ at[t].stage = "rows" =>
              sched.activationPass /\ at[t].item \in DOMAIN sched.rows[at[t].round][t]
          /\ at[t].stage = "mid" => sched.activationPass
          /\ at[t].stage = "end" => sched.endBarrier
          /\ at[t].stage = "done" => at[t] = Done
  BY DEF PlacesOK, IsPlaceOf, PlaceSet
<1> QED
  BY <1>1, <1>2 DEF TypeOK, TypeParts, WorkOK

(* A thread that moves to a place of its own keeps the places in order.     *)
LEMMA PlacesStayOK ==
  ASSUME TypeOK, sched' = sched,
         at' = at \/ \E t \in Threads : \E q : Moves(t, q)
  PROVE  PlacesOK'
<1>1. PlacesOK
  BY TypeHasParts DEF TypeParts
<1>2. /\ Threads' = Threads /\ PlaceSet' = PlaceSet
      /\ \A t, p : IsPlaceOf(t, p)' <=> IsPlaceOf(t, p)
  BY DEF Threads, PlaceSet, Rounds, Stages, IsPlaceOf, Done, Place, LastRound
<1>3. CASE at' = at
  BY <1>1, <1>2, <1>3 DEF PlacesOK
<1>4. ASSUME NEW t \in Threads, NEW q, Moves(t, q) PROVE PlacesOK'
  <2>1. q \in PlaceSet /\ IsPlaceOf(t, q) /\ at' = [at EXCEPT ![t] = q]
    BY <1>4 DEF Moves, IsPlaceOf
  <2>2. at' \in [Threads -> PlaceSet] /\ \A u \in Threads : IsPlaceOf(u, at'[u])
    BY <1>1, <2>1 DEF PlacesOK
  <2> QED
    BY <1>2, <2>2 DEF PlacesOK
<1> QED
  BY <1>3, <1>4

(* What the two kinds of work leave behind. *)
LEMMA MultiplyAdds ==
  ASSUME TypeOK, NEW t \in Threads, at[t].stage = "tiles", Multiply(t),
         NEW r, NEW i, r = at[t].round, i = at[t].item
  PROVE  /\ r \in Rounds /\ i \in DOMAIN sched.tiles[r][t]
         /\ multiplied' = multiplied \cup {TileAt(r, t, i)}
         /\ TileAt(r, t, i) \in MultipliedTile /\ TileAt(r, t, i).lo < TileAt(r, t, i).hi
         /\ sched.inTile => activated' = activated \cup {Whole(TileAt(r, t, i))}
         /\ ~sched.inTile => activated' = activated
         /\ Whole(TileAt(r, t, i)) \in ActivatedRect
         /\ UNCHANGED <<sched, allocFail, returned>>
<1>1. IsSchedule(sched) /\ r \in Rounds /\ i \in DOMAIN sched.tiles[r][t]
  BY PlacesAreTheirs DEF TypeOK, IsPlaceOf, PlaceSet
<1>2. /\ sched.tiles[r][t][i].e \in ActiveExperts
      /\ sched.tiles[r][t][i].lo \in Nat /\ sched.tiles[r][t][i].hi \in Nat
      /\ sched.tiles[r][t][i].lo < sched.tiles[r][t][i].hi
  BY <1>1, TilesAreColumns
<1>3. sched.M[sched.tiles[r][t][i].e] \in Nat
  BY <1>1, <1>2, ActiveExpertsHaveSize
<1>4. TileAt(r, t, i) \in MultipliedTile /\ TileAt(r, t, i).lo < TileAt(r, t, i).hi
  BY <1>1, <1>2 DEF TileAt, MultipliedTile
<1>5. Whole(TileAt(r, t, i)) \in ActivatedRect
  BY <1>2, <1>3 DEF TileAt, Whole, Rect, ActivatedRect
<1>6. multiplied' = multiplied \cup {TileAt(r, t, i)}
  BY DEF Multiply, ThisTile, TileAt
<1>7. Whole(TileAt(r, t, i)) = Rect(ThisTile(t).e, 0, sched.M[ThisTile(t).e],
                                    ThisTile(t).lo, ThisTile(t).hi, t)
  BY DEF Whole, TileAt, ThisTile
<1> QED
  BY <1>1, <1>4, <1>5, <1>6, <1>7 DEF Multiply

(* Activating a slice adds its rectangle.                                   *)
LEMMA ApplyAdds ==
  ASSUME TypeOK, NEW t \in Threads, ApplyAct(t),
         NEW r, NEW i, r = at[t].round, i = at[t].item
  PROVE  /\ r \in Rounds /\ i \in DOMAIN sched.rows[r][t]
         /\ sched.activationPass /\ at[t].stage = "rows"
         /\ activated' = activated \cup {RowsAt(r, t, i)}
         /\ RowsAt(r, t, i) \in ActivatedRect
         /\ UNCHANGED <<sched, multiplied, allocFail, returned>>
<1>1. /\ IsSchedule(sched) /\ r \in Rounds /\ at[t].stage = "rows"
      /\ sched.activationPass /\ i \in DOMAIN sched.rows[r][t]
  BY PlacesAreTheirs DEF TypeOK, IsPlaceOf, PlaceSet, ApplyAct
<1>2. /\ sched.rows[r][t][i].e \in ActiveExperts
      /\ sched.rows[r][t][i].lo \in Nat /\ sched.rows[r][t][i].hi \in Nat
  BY <1>1, RowsAreRows
<1>3. sched.N[sched.rows[r][t][i].e] \in Nat
  BY <1>1, <1>2, ActiveExpertsHaveSize
<1>4. RowsAt(r, t, i) \in ActivatedRect
  BY <1>2, <1>3 DEF RowsAt, Rect, ActivatedRect
<1> QED
  BY <1>1, <1>4 DEF ApplyAct, RowsAt

(* The type invariant starts and stays. *)
LEMMA TypeInit == SchedulesAreSound /\ Init => TypeOK
<1> SUFFICES ASSUME SchedulesAreSound, Init PROVE TypeOK
  OBVIOUS
<1>1. IsSchedule(sched)
  BY DEF Init, SchedulesAreSound
<1>2. 1 \in Rounds
  BY <1>1, RoundsAreNumbers
<1>3. \A t \in Threads : IsPlaceOf(t, Settled(t, Place(1, "tiles", 1)))
  BY <1>1, <1>2, SettledAtTiles
<1>4. \A t \in Threads : Settled(t, Place(1, "tiles", 1)) \in PlaceSet
  BY <1>3 DEF IsPlaceOf
<1>5. at = [t \in Threads |-> Settled(t, Place(1, "tiles", 1))]
  BY DEF Init
<1>6. PlacesOK
  BY <1>3, <1>4, <1>5 DEF PlacesOK
<1> QED
  BY <1>1, <1>6, TypeHasParts DEF Init, WorkOK, TypeParts

LEMMA TypeStep == TypeOK /\ [Next]_vars => TypeOK'
<1> USE DEF TypeParts
<1>0. (TypeOK <=> TypeParts)'
  BY TypeHasParts, PTL
<1> SUFFICES ASSUME TypeOK, [Next]_vars PROVE TypeOK'
  OBVIOUS
<1>a. sched' = sched /\ IsSchedule(sched)
  BY ScheduleIsFixed, TypeHasParts
<1>1. sched' = sched /\ IsSchedule(sched') /\ MultipliedTile' = MultipliedTile
      /\ ActivatedRect' = ActivatedRect
  BY <1>a DEF MultipliedTile, ActivatedRect, ActiveExperts, Rounds, Threads
<1>2. WorkOK /\ allocFail \in BOOLEAN /\ returned \in BOOLEAN /\ (allocFail => sched.scratch)
  BY TypeHasParts
<1>3. CASE UNCHANGED vars
  <2>1. at' = at /\ UNCHANGED <<multiplied, activated, allocFail, returned>>
    BY <1>3 DEF vars
  <2> QED
    BY <1>1, <1>2, <2>1, PlacesStayOK, <1>0 DEF WorkOK
<1>4. CASE Return
  <2>1. /\ at' = at /\ UNCHANGED <<multiplied, activated, allocFail>>
        /\ returned' = TRUE
    BY <1>4 DEF Return
  <2> QED
    BY <1>1, <1>2, <2>1, PlacesStayOK, <1>0 DEF WorkOK
<1>5. ASSUME NEW t \in Threads, at[t].stage = "tiles", Multiply(t) PROVE TypeOK'
  <2>1. PlacesOK'
    BY <1>1, <1>5, PlacesStayOK, TileMoves DEF Multiply
  <2>2. WorkOK' /\ UNCHANGED <<allocFail, returned>>
    BY <1>1, <1>2, <1>5, MultiplyAdds DEF WorkOK
  <2> QED
    BY <1>1, <1>2, <2>1, <2>2, <1>0
<1>6. ASSUME NEW t \in Threads, at[t].stage = "tiles", ScratchFails(t) PROVE TypeOK'
  <2>1. PlacesOK'
    BY <1>1, <1>6, PlacesStayOK, FailureMoves
  <2>2. /\ UNCHANGED <<multiplied, activated, returned>>
        /\ allocFail' = TRUE /\ sched.scratch
    BY <1>6 DEF ScratchFails
  <2> QED
    BY <1>1, <1>2, <2>1, <2>2, <1>0 DEF WorkOK
<1>7. ASSUME NEW t \in Threads, ApplyAct(t) PROVE TypeOK'
  <2>1. PlacesOK'
    BY <1>1, <1>7, PlacesStayOK, RowsMove DEF ApplyAct
  <2>2. WorkOK' /\ UNCHANGED <<allocFail, returned>>
    BY <1>1, <1>2, <1>7, ApplyAdds DEF WorkOK
  <2> QED
    BY <1>1, <1>2, <2>1, <2>2, <1>0
<1>8. ASSUME NEW t \in Threads, PassMid(t) \/ PassEnd(t) PROVE TypeOK'
  <2>1. PlacesOK'
    BY <1>1, <1>8, PlacesStayOK, MidMoves, EndMoves
  <2>2. UNCHANGED <<multiplied, activated, allocFail, returned>>
    BY <1>8 DEF PassMid, PassEnd
  <2> QED
    BY <1>1, <1>2, <2>1, <2>2, <1>0 DEF WorkOK
<1> QED
  BY <1>3, <1>4, <1>5, <1>6, <1>7, <1>8, StepKinds

(* A thread is only ever at an item its schedule gave it, whatever tiles    *)
(* and row slices run out and whichever failures cut them short, and only   *)
(* active experts are multiplied and activated.                             *)
THEOREM TypeCorrect == ASSUME SchedulesAreSound PROVE Spec => []TypeOK
  BY TypeInit, TypeStep, PTL DEF Spec

----------------------------------------------------------------------------
(* What threads go past. *)

(* A move changes one thread's place.                                       *)
LEMMA MovesIn ==
  ASSUME TypeOK, NEW t \in Threads, NEW q, Moves(t, q)
  PROVE  at'[t] = q /\ \A u \in Threads : u # t => at'[u] = at[u]
<1>1. at \in [Threads -> PlaceSet]
  BY TypeHasParts DEF TypeParts, PlacesOK
<1> QED
  BY <1>1 DEF Moves

(* A thread goes past a tile by multiplying it, unless an allocation fails. *)
LEMMA TilesPassed ==
  ASSUME TypeOK, [Next]_vars, ~allocFail',
         NEW r \in Rounds, NEW u \in Threads, NEW i \in DOMAIN sched.tiles[r][u],
         TilePast(r, u, i)'
  PROVE  \/ TilePast(r, u, i)
         \/ at[u].stage = "tiles" /\ Multiply(u) /\ r = at[u].round /\ i = at[u].item
<1>1. /\ IsSchedule(sched) /\ r \in Nat /\ i \in Nat /\ i <= Len(sched.tiles[r][u])
      /\ Len(sched.tiles[r][u]) \in Nat
  BY TypeHasParts, RoundsAreNumbers, TilesAreColumns DEF TypeParts
<1>2. \A t \in Threads : at[t].round \in Nat /\ at[t].item \in Nat
  BY <1>1, PlacesAreTheirs, RoundsAreNumbers DEF IsPlaceOf, PlaceSet
<1>3. CASE at'[u] = at[u]
  BY <1>3 DEF TilePast
<1>4. CASE UNCHANGED vars \/ Return
  BY <1>3, <1>4 DEF vars, Return
<1>5. ASSUME NEW t \in Threads, t # u, at'[u] # at[u],
             \/ at[t].stage = "tiles" /\ Multiply(t)
             \/ at[t].stage = "tiles" /\ ScratchFails(t)
             \/ ApplyAct(t) \/ PassMid(t) \/ PassEnd(t)
      PROVE  FALSE
  <2>1. \E q : Moves(t, q)
    BY <1>5, TileMoves, FailureMoves, RowsMove, MidMoves, EndMoves DEF Multiply, ApplyAct
  <2> QED
    BY <1>5, <2>1, MovesIn
<1>6. CASE at[u].stage = "tiles" /\ Multiply(u)
  <2>1. PICK q : /\ Moves(u, q) /\ q.round = at[u].round
                 /\ \/ q.stage = "tiles" /\ q.item = at[u].item + 1
                    \/ /\ q.stage \in {"mid", "end", "done"}
                       /\ at[u].item + 1 > Len(sched.tiles[at[u].round][u])
    BY <1>6, TileMoves DEF Multiply
  <2>2. at'[u] = q
    BY <2>1, MovesIn
  <2> QED
    BY <1>1, <1>2, <1>6, <2>1, <2>2 DEF TilePast
<1>7. CASE at[u].stage = "tiles" /\ ScratchFails(u)
  BY <1>7 DEF ScratchFails
<1>8. CASE ApplyAct(u) \/ PassMid(u)
  <2>1. at[u].stage \in {"rows", "mid"}
    BY <1>8 DEF ApplyAct, PassMid
  <2>2. PICK q : Moves(u, q) /\ q.round = at[u].round
    BY <1>8, RowsMove, MidMoves DEF ApplyAct
  <2>3. at'[u] = q
    BY <2>2, MovesIn
  <2> QED
    BY <2>1, <2>2, <2>3 DEF TilePast
<1>9. CASE PassEnd(u)
  <2>1. PICK q : /\ Moves(u, q)
                 /\ \/ /\ q.round = at[u].round + 1
                       /\ \/ q.stage = "tiles" /\ q.item = 1
                          \/ /\ q.stage \in {"mid", "end", "done"}
                             /\ 1 > Len(sched.tiles[at[u].round + 1][u])
                    \/ q = Done /\ at[u].round = LastRound
    BY <1>9, EndMoves
  <2>2. at'[u] = q /\ at[u].stage = "end"
    BY <1>9, <2>1, MovesIn DEF PassEnd
  <2>3. CASE q = Done /\ at[u].round = LastRound
    BY <1>1, <2>2, <2>3, RoundsAreNumbers DEF TilePast, Done, Place
  <2>4. CASE /\ q.round = at[u].round + 1
             /\ \/ q.stage = "tiles" /\ q.item = 1
                \/ /\ q.stage \in {"mid", "end", "done"}
                   /\ 1 > Len(sched.tiles[at[u].round + 1][u])
    <3>1. CASE r = at[u].round + 1
      BY <1>1, <1>2, <2>2, <2>4, <3>1 DEF TilePast
    <3>2. CASE r # at[u].round + 1
      BY <1>1, <1>2, <2>2, <2>4, <3>2 DEF TilePast
    <3> QED
      BY <3>1, <3>2
  <2> QED
    BY <2>1, <2>3, <2>4
<1> QED
  BY <1>3, <1>4, <1>5, <1>6, <1>7, <1>8, <1>9, StepKinds

(* A thread goes past a row slice by activating it. *)
LEMMA RowsPassed ==
  ASSUME TypeOK, [Next]_vars, sched.activationPass,
         NEW r \in Rounds, NEW u \in Threads, NEW i \in DOMAIN sched.rows[r][u],
         RowsPast(r, u, i)'
  PROVE  \/ RowsPast(r, u, i)
         \/ ApplyAct(u) /\ r = at[u].round /\ i = at[u].item
<1>1. /\ IsSchedule(sched) /\ r \in Nat /\ i \in Nat \ {0} /\ i <= Len(sched.rows[r][u])
      /\ Len(sched.rows[r][u]) \in Nat
  BY TypeHasParts, RoundsAreNumbers, RowsAreRows DEF TypeParts
<1>2. \A t \in Threads : at[t].round \in Nat /\ at[t].item \in Nat
  BY <1>1, PlacesAreTheirs, RoundsAreNumbers DEF IsPlaceOf, PlaceSet
<1>3. CASE at'[u] = at[u]
  BY <1>3 DEF RowsPast
<1>4. CASE UNCHANGED vars \/ Return
  BY <1>3, <1>4 DEF vars, Return
<1>5. ASSUME NEW t \in Threads, t # u, at'[u] # at[u],
             \/ at[t].stage = "tiles" /\ Multiply(t)
             \/ at[t].stage = "tiles" /\ ScratchFails(t)
             \/ ApplyAct(t) \/ PassMid(t) \/ PassEnd(t)
      PROVE  FALSE
  <2>1. \E q : Moves(t, q)
    BY <1>5, TileMoves, FailureMoves, RowsMove, MidMoves, EndMoves DEF Multiply, ApplyAct
  <2> QED
    BY <1>5, <2>1, MovesIn
<1>6. CASE at[u].stage = "tiles" /\ (Multiply(u) \/ ScratchFails(u))
  <2>1. PICK q : Moves(u, q) /\ q.round = at[u].round /\ q.stage \notin {"end", "done"}
                 /\ (q.stage = "tiles" \/ q.stage = "mid")
    <3>1. \E q : Moves(u, q) /\ q.round = at[u].round
                 /\ (q.stage \in {"end", "done"} => ~sched.activationPass)
                 /\ q.stage # "rows"
      BY <1>6, TileMoves, FailureMoves DEF Multiply
    <3> QED
      BY <3>1 DEF Moves, IsPlaceOf, PlaceSet, Stages
  <2>2. at'[u] = q
    BY <2>1, MovesIn
  <2> QED
    BY <1>1, <1>2, <2>1, <2>2 DEF RowsPast
<1>7. CASE ApplyAct(u)
  <2>1. PICK q : /\ Moves(u, q) /\ q.round = at[u].round
                 /\ \/ q.stage = "rows" /\ q.item = at[u].item + 1
                    \/ /\ q.stage \in {"end", "done"}
                       /\ at[u].item + 1 > Len(sched.rows[at[u].round][u])
    BY <1>7, RowsMove DEF ApplyAct
  <2>2. at'[u] = q /\ at[u].stage = "rows"
    BY <1>7, <2>1, MovesIn DEF ApplyAct
  <2> QED
    BY <1>1, <1>2, <1>7, <2>1, <2>2 DEF RowsPast
<1>8. CASE PassMid(u)
  <2>1. PICK q : /\ Moves(u, q) /\ q.round = at[u].round
                 /\ \/ q.stage = "rows" /\ q.item = 1
                    \/ q.stage \in {"end", "done"} /\ 1 > Len(sched.rows[at[u].round][u])
    BY <1>8, MidMoves
  <2>2. at'[u] = q /\ at[u].stage = "mid"
    BY <1>8, <2>1, MovesIn DEF PassMid
  <2> QED
    BY <1>1, <1>2, <2>1, <2>2 DEF RowsPast
<1>9. CASE PassEnd(u)
  <2>1. PICK q : /\ Moves(u, q)
                 /\ \/ q.round = at[u].round + 1 /\ q.stage \in {"tiles", "mid"}
                    \/ q = Done /\ at[u].round = LastRound
    BY <1>9, EndMoves
  <2>2. at'[u] = q /\ at[u].stage = "end"
    BY <1>9, <2>1, MovesIn DEF PassEnd
  <2>3. CASE q = Done /\ at[u].round = LastRound
    BY <1>1, <2>2, <2>3, RoundsAreNumbers DEF RowsPast, Done, Place
  <2>4. CASE q.round = at[u].round + 1 /\ q.stage \in {"tiles", "mid"}
    BY <1>1, <1>2, <2>2, <2>4 DEF RowsPast
  <2> QED
    BY <2>1, <2>3, <2>4
<1> QED
  BY <1>3, <1>4, <1>5, <1>6, <1>7, <1>8, <1>9, StepKinds

(* The moves of a team with an activation pass, between its barriers. *)
LEMMA PassMoves ==
  ASSUME TypeOK, [Next]_vars, sched.activationPass
  PROVE  \/ at' = at
         \/ \E t \in Threads : \E q :
              /\ Moves(t, q)
              /\ \/ /\ q.round = at[t].round
                    /\ \/ at[t].stage = "tiles" /\ q.stage \in {"tiles", "mid"}
                       \/ at[t].stage = "rows" /\ q.stage \in {"rows", "end", "done"}
                       \/ /\ at[t].stage = "mid" /\ AllReached(t)
                          /\ q.stage \in {"rows", "end", "done"}
                 \/ /\ at[t].stage = "end" /\ q.round = at[t].round + 1
                    /\ q.stage \in {"tiles", "mid"}
                 \/ at[t].stage = "end" /\ q = Done /\ at[t].round = LastRound
<1>1. CASE UNCHANGED vars \/ Return
  BY <1>1 DEF vars, Return
<1>2. ASSUME NEW t \in Threads, at[t].stage = "tiles", Multiply(t) \/ ScratchFails(t)
      PROVE  \E q : /\ Moves(t, q) /\ q.round = at[t].round
                    /\ q.stage \in {"tiles", "mid"}
  <2>1. PICK q : /\ Moves(t, q) /\ q.round = at[t].round /\ q.stage # "rows"
                 /\ q.stage \notin {"end", "done"}
    BY <1>2, TileMoves, FailureMoves DEF Multiply
  <2>2. q.stage \in {"tiles", "mid"}
    BY <2>1 DEF Moves, IsPlaceOf, PlaceSet, Stages
  <2> QED
    BY <2>1, <2>2
<1>3. ASSUME NEW t \in Threads, ApplyAct(t)
      PROVE  at[t].stage = "rows" /\ \E q : /\ Moves(t, q) /\ q.round = at[t].round
                                           /\ q.stage \in {"rows", "end", "done"}
  BY <1>3, RowsMove DEF ApplyAct
<1>4. ASSUME NEW t \in Threads, PassMid(t)
      PROVE  /\ at[t].stage = "mid" /\ AllReached(t)
             /\ \E q : /\ Moves(t, q) /\ q.round = at[t].round
                       /\ q.stage \in {"rows", "end", "done"}
  BY <1>4, MidMoves DEF PassMid
<1>5. ASSUME NEW t \in Threads, PassEnd(t)
      PROVE  /\ at[t].stage = "end"
             /\ \E q : /\ Moves(t, q)
                       /\ \/ q.round = at[t].round + 1 /\ q.stage \in {"tiles", "mid"}
                          \/ q = Done /\ at[t].round = LastRound
  BY <1>5, EndMoves DEF PassEnd
<1>6. CASE \E t \in Threads : at[t].stage = "tiles" /\ (Multiply(t) \/ ScratchFails(t))
  BY <1>2, <1>6
<1>7. CASE \E t \in Threads : ApplyAct(t)
  BY <1>3, <1>7
<1>8. CASE \E t \in Threads : PassMid(t)
  BY <1>4, <1>8
<1>9. CASE \E t \in Threads : PassEnd(t)
  BY <1>5, <1>9
<1> QED
  BY <1>1, <1>6, <1>7, <1>8, <1>9, StepKinds

(* A thread that a barrier lets go from the end of its tiles finds every    *)
(* thread there, or further.                                                *)
LEMMA ReachedMid ==
  ASSUME TypeOK, NEW t \in Threads, NEW u \in Threads, at[t].stage = "mid", AllReached(t)
  PROVE  at[u].round >= at[t].round /\ (at[u].round = at[t].round => at[u].stage # "tiles")
<1>1. /\ at[t].round \in Nat /\ at[u].round \in Nat /\ at[u].stage \in Stages
  BY TypeHasParts, PlacesAreTheirs, RoundsAreNumbers DEF TypeParts, IsPlaceOf, PlaceSet
<1>2. Rank(at[t]) = 4 * at[t].round + 1
  BY DEF Rank
<1>3. Rank(at[u]) >= Rank(at[t])
  BY DEF AllReached
<1>4. /\ at[u].stage = "tiles" => Rank(at[u]) = 4 * at[u].round
      /\ at[u].stage = "mid" => Rank(at[u]) = 4 * at[u].round + 1
      /\ at[u].stage = "rows" => Rank(at[u]) = 4 * at[u].round + 2
      /\ at[u].stage \in {"end", "done"} => Rank(at[u]) = 4 * at[u].round + 3
  BY <1>1 DEF Rank
<1>5. at[u].stage = "tiles" => 4 * at[u].round >= 4 * at[t].round + 1
  BY <1>2, <1>3, <1>4
<1>6. 4 * at[u].round + 3 >= 4 * at[t].round + 1
  BY <1>1, <1>2, <1>3, <1>4 DEF Stages
<1> QED
  BY <1>1, <1>5, <1>6

(* The step lemmas of the invariant's other parts. *)
LEMMA BarrierStep == TypeOK /\ BarrierInv /\ [Next]_vars => BarrierInv'
<1> SUFFICES ASSUME TypeOK, BarrierInv, [Next]_vars PROVE BarrierInv'
  OBVIOUS
<1>0. sched' = sched /\ Threads' = Threads
  BY ScheduleIsFixed DEF Threads
<1> SUFFICES ASSUME sched.activationPass, NEW v \in Threads, NEW u \in Threads,
                    at'[v].stage \in {"rows", "end", "done"}
             PROVE  /\ at'[u].round >= at'[v].round
                    /\ at'[u].round = at'[v].round => at'[u].stage # "tiles"
  BY <1>0 DEF BarrierInv
<1>1. \A w \in Threads : at[w].round \in Nat
  BY TypeHasParts, PlacesAreTheirs, RoundsAreNumbers DEF TypeParts, IsPlaceOf, PlaceSet
<1>2. at[v].stage \in {"rows", "end", "done"} =>
        at[u].round >= at[v].round /\ (at[u].round = at[v].round => at[u].stage # "tiles")
  BY DEF BarrierInv
<1>3. CASE at' = at
  BY <1>2, <1>3
<1>4. ASSUME NEW t \in Threads, NEW q, Moves(t, q),
             \/ /\ q.round = at[t].round
                /\ \/ at[t].stage = "tiles" /\ q.stage \in {"tiles", "mid"}
                   \/ at[t].stage = "rows" /\ q.stage \in {"rows", "end", "done"}
                   \/ /\ at[t].stage = "mid" /\ AllReached(t)
                      /\ q.stage \in {"rows", "end", "done"}
             \/ /\ at[t].stage = "end" /\ q.round = at[t].round + 1
                /\ q.stage \in {"tiles", "mid"}
             \/ at[t].stage = "end" /\ q = Done /\ at[t].round = LastRound
      PROVE  /\ at'[u].round >= at'[v].round
             /\ at'[u].round = at'[v].round => at'[u].stage # "tiles"
  <2>1. at'[t] = q /\ \A w \in Threads : w # t => at'[w] = at[w]
    BY <1>4, MovesIn
  <2>2. Done.round = LastRound /\ Done.stage = "done"
    BY DEF Done, Place
  <2>3. CASE u = v
    BY <1>1, <1>4, <2>1, <2>2, <2>3
  <2>4. CASE u # v /\ t = u
    BY <1>1, <1>2, <1>4, <2>1, <2>2, <2>4
  <2>5. CASE u # v /\ t = v
    BY <1>1, <1>2, <1>4, <2>1, <2>2, <2>5, ReachedMid
  <2>6. CASE t # u /\ t # v
    BY <1>2, <2>1, <2>6
  <2> QED
    BY <2>3, <2>4, <2>5, <2>6
<1> QED
  BY <1>3, <1>4, PassMoves

(* Nothing that was done is undone, and a failure is not forgotten. *)
LEMMA WorkStays ==
  ASSUME [Next]_vars
  PROVE  /\ multiplied \subseteq multiplied' /\ activated \subseteq activated'
         /\ allocFail => allocFail'
<1>1. CASE UNCHANGED vars
  BY <1>1 DEF vars
<1>2. CASE Return
  BY <1>2 DEF Return
<1>3. ASSUME NEW t \in Threads, Multiply(t)
      PROVE  /\ multiplied \subseteq multiplied' /\ activated \subseteq activated'
             /\ allocFail' = allocFail
  BY <1>3 DEF Multiply
<1>4. ASSUME NEW t \in Threads, ScratchFails(t)
      PROVE  multiplied' = multiplied /\ activated' = activated /\ allocFail' = TRUE
  BY <1>4 DEF ScratchFails
<1>5. ASSUME NEW t \in Threads, ApplyAct(t)
      PROVE  /\ multiplied' = multiplied /\ activated \subseteq activated'
             /\ allocFail' = allocFail
  BY <1>5 DEF ApplyAct
<1>6. ASSUME NEW t \in Threads, PassMid(t) \/ PassEnd(t)
      PROVE  UNCHANGED <<multiplied, activated, allocFail>>
  BY <1>6 DEF PassMid, PassEnd
<1> QED
  BY <1>1, <1>2, <1>3, <1>4, <1>5, <1>6, StepKinds

LEMMA TilesStep == TypeOK /\ TilesInv /\ [Next]_vars => TilesInv'
<1> SUFFICES ASSUME TypeOK, TilesInv, [Next]_vars PROVE TilesInv'
  OBVIOUS
<1>1. sched' = sched /\ Rounds' = Rounds /\ Threads' = Threads
  BY ScheduleIsFixed DEF Rounds, Threads
<1>2. \A r, t, i : TileAt(r, t, i)' = TileAt(r, t, i)
  BY <1>1 DEF TileAt
<1>3. \/ multiplied' = multiplied
      \/ \E t \in Threads : at[t].stage = "tiles" /\ Multiply(t)
  BY StepKinds DEF vars, Return, ScratchFails, ApplyAct, PassMid, PassEnd
<1>4. \A x \in multiplied' : \E i \in DOMAIN sched.tiles[x.round][x.by] :
        x = TileAt(x.round, x.by, i)
  <2>1. \A x \in multiplied : \E i \in DOMAIN sched.tiles[x.round][x.by] :
          x = TileAt(x.round, x.by, i)
    BY DEF TilesInv
  <2>2. CASE multiplied' = multiplied
    BY <2>1, <2>2
  <2>3. ASSUME NEW t \in Threads, at[t].stage = "tiles", Multiply(t),
               NEW x \in multiplied', x \notin multiplied
        PROVE  \E i \in DOMAIN sched.tiles[x.round][x.by] : x = TileAt(x.round, x.by, i)
    <3>1. /\ x = TileAt(at[t].round, t, at[t].item)
          /\ at[t].item \in DOMAIN sched.tiles[at[t].round][t]
      BY <2>3, MultiplyAdds
    <3>2. x.round = at[t].round /\ x.by = t
      BY <3>1 DEF TileAt
    <3> QED
      BY <3>1, <3>2
  <2> QED
    BY <1>3, <2>1, <2>2, <2>3
<1>5. ASSUME ~allocFail', NEW r \in Rounds, NEW t \in Threads,
             NEW i \in DOMAIN sched.tiles[r][t], TilePast(r, t, i)'
      PROVE  TileAt(r, t, i) \in multiplied'
  <2>1. ~allocFail /\ multiplied \subseteq multiplied'
    BY <1>5, WorkStays
  <2>2. CASE TilePast(r, t, i)
    BY <2>1, <2>2 DEF TilesInv
  <2>3. CASE at[t].stage = "tiles" /\ Multiply(t) /\ r = at[t].round /\ i = at[t].item
    BY <2>3, MultiplyAdds
  <2> QED
    BY <1>5, <2>2, <2>3, TilesPassed
<1> QED
  BY <1>1, <1>2, <1>4, <1>5 DEF TilesInv

LEMMA InTileStep == TypeOK /\ InTileInv /\ [Next]_vars => InTileInv'
<1> SUFFICES ASSUME TypeOK, InTileInv, [Next]_vars PROVE InTileInv'
  OBVIOUS
<1>1. sched' = sched /\ \A x : Whole(x)' = Whole(x)
  BY ScheduleIsFixed DEF Whole, Rect
<1>2. CASE multiplied' = multiplied /\ activated' = activated
  BY <1>1, <1>2 DEF InTileInv
<1>3. ASSUME NEW t \in Threads, at[t].stage = "tiles", Multiply(t) PROVE InTileInv'
  <2>1. /\ multiplied' = multiplied \cup {TileAt(at[t].round, t, at[t].item)}
        /\ sched.inTile =>
            activated' = activated \cup {Whole(TileAt(at[t].round, t, at[t].item))}
        /\ ~sched.inTile => activated' = activated
    BY <1>3, MultiplyAdds
  <2>2. CASE sched.inTile
    <3>1. sched.fused
      BY <2>2, TypeHasParts, RoundsAreNumbers DEF TypeParts
    <3>2. \A x \in multiplied' : Whole(x) \in activated'
      BY <2>1, <2>2 DEF InTileInv
    <3>3. \A a \in activated' : \E x \in multiplied' : a = Whole(x)
      BY <2>1, <2>2 DEF InTileInv
    <3> QED
      BY <1>1, <3>1, <3>2, <3>3 DEF InTileInv
  <2>3. CASE ~sched.inTile
    BY <1>1, <2>1, <2>3 DEF InTileInv
  <2> QED
    BY <2>2, <2>3
<1>4. ASSUME NEW t \in Threads, ApplyAct(t) PROVE InTileInv'
  <2>1. sched.activationPass /\ sched.fused /\ ~sched.inTile
    BY <1>4, TypeHasParts, ApplyAdds, RoundsAreNumbers DEF TypeParts
  <2> QED
    BY <1>1, <2>1 DEF InTileInv
<1>5. \/ multiplied' = multiplied /\ activated' = activated
      \/ \E t \in Threads : (at[t].stage = "tiles" /\ Multiply(t)) \/ ApplyAct(t)
  BY StepKinds DEF vars, Return, ScratchFails, PassMid, PassEnd
<1> QED
  BY <1>2, <1>3, <1>4, <1>5

LEMMA PassStep == TypeOK /\ PassInv /\ [Next]_vars => PassInv'
<1> SUFFICES ASSUME TypeOK, PassInv, [Next]_vars, sched.activationPass PROVE PassInv'
  BY ScheduleIsFixed DEF PassInv
<1>1. sched' = sched /\ Rounds' = Rounds /\ Threads' = Threads
  BY ScheduleIsFixed DEF Rounds, Threads
<1>2. \A r, t, i : RowsAt(r, t, i)' = RowsAt(r, t, i)
  BY <1>1 DEF RowsAt, Rect
<1>3. ~sched.inTile
  BY TypeHasParts, RoundsAreNumbers DEF TypeParts
<1>4. \/ activated' = activated
      \/ \E t \in Threads : ApplyAct(t)
  BY <1>3, StepKinds DEF vars, Return, Multiply, ScratchFails, PassMid, PassEnd
<1>5. \A a \in activated' : \E r \in Rounds : \E t \in Threads :
        \E i \in DOMAIN sched.rows[r][t] : a = RowsAt(r, t, i)
  <2>1. \A a \in activated : \E r \in Rounds : \E t \in Threads :
          \E i \in DOMAIN sched.rows[r][t] : a = RowsAt(r, t, i)
    BY DEF PassInv
  <2>2. ASSUME NEW t \in Threads, ApplyAct(t), NEW a \in activated', a \notin activated
        PROVE  \E r \in Rounds : \E u \in Threads : \E i \in DOMAIN sched.rows[r][u] :
                  a = RowsAt(r, u, i)
    BY <2>2, ApplyAdds
  <2> QED
    BY <1>4, <2>1, <2>2
<1>6. ASSUME NEW r \in Rounds, NEW t \in Threads, NEW i \in DOMAIN sched.rows[r][t],
             RowsPast(r, t, i)'
      PROVE  RowsAt(r, t, i) \in activated'
  <2>1. activated \subseteq activated'
    BY <1>4, ApplyAdds
  <2>2. CASE RowsPast(r, t, i)
    BY <2>1, <2>2 DEF PassInv
  <2>3. CASE ApplyAct(t) /\ r = at[t].round /\ i = at[t].item
    BY <2>3, ApplyAdds
  <2> QED
    BY <1>6, <2>2, <2>3, RowsPassed
<1> QED
  BY <1>1, <1>2, <1>5, <1>6 DEF PassInv

----------------------------------------------------------------------------
(* The columns that are multiplied. *)

(* A column is multiplied when a tile holds it.                             *)
LEMMA ColumnIsInTile ==
  ASSUME NEW e, NEW m
  PROVE  m \in Columns(e) <=> \E x \in multiplied : x.e = e /\ m \in x.lo .. x.hi - 1
  BY DEF Columns, TilesOf

(* A column that is multiplied stays so.                                    *)
LEMMA ColumnsGrow ==
  ASSUME [Next]_vars, NEW e
  PROVE  Columns(e) \subseteq Columns(e)'
<1>1. multiplied \subseteq multiplied'
  BY WorkStays
<1> QED
  BY <1>1 DEF Columns, TilesOf

(* Only columns the expert has are multiplied. *)
LEMMA ColumnsAreTheExperts ==
  ASSUME TypeOK, TilesInv, NEW e \in ActiveExperts
  PROVE  Columns(e) \subseteq 0 .. sched.N[e] - 1
<1> SUFFICES ASSUME NEW m \in Columns(e) PROVE m \in 0 .. sched.N[e] - 1
  OBVIOUS
<1>1. PICK x \in multiplied : x.e = e /\ m \in x.lo .. x.hi - 1
  BY ColumnIsInTile
<1>2. x.round \in Rounds /\ x.by \in Threads /\ x.lo \in Nat /\ x.hi \in Nat
  BY <1>1, TypeHasParts DEF TypeParts, WorkOK, MultipliedTile
<1>3. PICK i \in DOMAIN sched.tiles[x.round][x.by] : x = TileAt(x.round, x.by, i)
  BY <1>1 DEF TilesInv
<1>4. x.hi <= sched.N[e]
  <2>1. sched.tiles[x.round][x.by][i].hi <= sched.N[sched.tiles[x.round][x.by][i].e]
    BY <1>2, <1>3, TypeHasParts, TilesAreColumns DEF TypeParts
  <2>2. /\ sched.tiles[x.round][x.by][i].e = x.e
        /\ sched.tiles[x.round][x.by][i].hi = x.hi
    BY <1>3 DEF TileAt
  <2> QED
    BY <1>1, <2>1, <2>2
<1>5. sched.N[e] \in Nat
  BY TypeHasParts, ActiveExpertsHaveSize DEF TypeParts
<1> QED
  BY <1>1, <1>2, <1>4, <1>5

(* An expert whose tiles every thread is past is multiplied. *)
LEMMA PastMakesProduct ==
  ASSUME TypeOK, TilesInv, ~allocFail, NEW e \in ActiveExperts,
         \A r \in Rounds : \A t \in Threads : \A i \in DOMAIN sched.tiles[r][t] :
            sched.tiles[r][t][i].e = e => TilePast(r, t, i)
  PROVE  IsProduct(e)
<1>1. Columns(e) \subseteq 0 .. sched.N[e] - 1
  BY ColumnsAreTheExperts
<1>2. ASSUME NEW m \in 0 .. sched.N[e] - 1 PROVE m \in Columns(e)
  <2>1. PICK r \in Rounds, t \in Threads : \E i \in DOMAIN sched.tiles[r][t] :
           Holds(sched.tiles[r][t][i], e, m)
    BY TypeHasParts, ColumnsAreCovered DEF TypeParts
  <2>2. PICK i \in DOMAIN sched.tiles[r][t] : Holds(sched.tiles[r][t][i], e, m)
    BY <2>1
  <2>3. TilePast(r, t, i)
    BY <2>2 DEF Holds
  <2>4. TileAt(r, t, i) \in multiplied
    BY <2>3 DEF TilesInv
  <2>5. TileAt(r, t, i).lo \in Nat /\ TileAt(r, t, i).hi \in Nat
    BY <2>4, TypeHasParts DEF TypeParts, WorkOK, MultipliedTile
  <2>6. /\ TileAt(r, t, i).e = e
        /\ TileAt(r, t, i).lo <= m /\ m < TileAt(r, t, i).hi
    BY <2>2 DEF TileAt, Holds
  <2>7. m \in TileAt(r, t, i).lo .. TileAt(r, t, i).hi - 1
    BY <1>2, <2>5, <2>6, TypeHasParts, ActiveExpertsHaveSize DEF TypeParts
  <2> QED
    BY <2>4, <2>6, <2>7, ColumnIsInTile
<1> QED
  BY <1>1, <1>2 DEF IsProduct

(* A thread at its rows finds their expert multiplied, whoever multiplied   *)
(* it.                                                                      *)
LEMMA RowsFindProduct ==
  ASSUME TypeOK, TilesInv, BarrierInv, NEW t \in Threads, ApplyAct(t)
  PROVE  /\ sched.rows[at[t].round][t][at[t].item].e \in ActiveExperts
         /\ IsProduct(sched.rows[at[t].round][t][at[t].item].e)
<1> DEFINE r == at[t].round
           e == sched.rows[r][t][at[t].item].e
<1>1. /\ IsSchedule(sched) /\ sched.activationPass /\ r \in Rounds /\ at[t].stage = "rows"
      /\ at[t].item \in DOMAIN sched.rows[r][t]
  BY TypeHasParts, ApplyAdds DEF TypeParts
<1>2. e \in ActiveExperts
  BY <1>1, RowsAreRows
<1>3. ~allocFail
  BY <1>1, TypeHasParts, RoundsAreNumbers DEF TypeParts
<1>4. ASSUME NEW q \in Rounds, NEW u \in Threads, NEW i \in DOMAIN sched.tiles[q][u],
             sched.tiles[q][u][i].e = e
      PROVE  TilePast(q, u, i)
  <2>1. q <= r
    BY <1>1, <1>4, RowsFollowTiles
  <2>2. at[u].round >= r /\ (at[u].round = r => at[u].stage # "tiles")
    BY <1>1 DEF BarrierInv
  <2>3. q \in Nat /\ r \in Nat /\ at[u].round \in Nat
    BY <1>1, PlacesAreTheirs, RoundsAreNumbers DEF IsPlaceOf, PlaceSet
  <2> QED
    BY <2>1, <2>2, <2>3 DEF TilePast
<1> QED
  BY <1>2, <1>3, <1>4, PastMakesProduct

(* A rectangle is added only where its columns are multiplied.              *)
LEMMA FoundStep ==
  TypeOK /\ TilesInv /\ BarrierInv /\ FoundProduct /\ [Next]_vars => FoundProduct'
<1> SUFFICES ASSUME TypeOK, TilesInv, BarrierInv, FoundProduct, [Next]_vars,
                    NEW a \in activated'
             PROVE  a.clo .. a.chi - 1 \subseteq Columns(a.e)'
  BY DEF FoundProduct
<1>1. CASE a \in activated
  BY <1>1, ColumnsGrow DEF FoundProduct
<1>2. ASSUME NEW t \in Threads, at[t].stage = "tiles", Multiply(t), a \notin activated
      PROVE  a.clo .. a.chi - 1 \subseteq Columns(a.e)'
  <2> DEFINE x == TileAt(at[t].round, t, at[t].item)
  <2>1. multiplied' = multiplied \cup {x} /\ a = Whole(x)
    BY <1>2, MultiplyAdds
  <2> HIDE DEF x
  <2>2. a.e = x.e /\ a.clo = x.lo /\ a.chi = x.hi
    BY <2>1 DEF Whole, Rect
  <2> QED
    BY <2>1, <2>2 DEF Columns, TilesOf
<1>3. ASSUME NEW t \in Threads, ApplyAct(t), a \notin activated
      PROVE  a.clo .. a.chi - 1 \subseteq Columns(a.e)'
  <2>1. a = RowsAt(at[t].round, t, at[t].item)
    BY <1>3, ApplyAdds
  <2>2. a.e = sched.rows[at[t].round][t][at[t].item].e /\ a.clo = 0 /\ a.chi = sched.N[a.e]
    BY <2>1 DEF RowsAt, Rect
  <2>3. IsProduct(a.e)
    BY <1>3, <2>2, RowsFindProduct
  <2> QED
    BY <2>2, <2>3, ColumnsGrow DEF IsProduct
<1>4. \/ activated' = activated
      \/ \E t \in Threads : (at[t].stage = "tiles" /\ Multiply(t)) \/ ApplyAct(t)
  BY StepKinds DEF vars, Return, ScratchFails, PassMid, PassEnd
<1> QED
  BY <1>1, <1>2, <1>3, <1>4

(* Nobody moves after the return.                                           *)
LEMMA ReturnStep == TypeOK /\ ReturnInv /\ [Next]_vars => ReturnInv'
<1> SUFFICES ASSUME TypeOK, ReturnInv, [Next]_vars, returned'
             PROVE  \A t \in Threads : at'[t].stage = "done"
  BY ScheduleIsFixed DEF ReturnInv, Threads
<1>1. CASE UNCHANGED vars
  BY <1>1 DEF vars, ReturnInv
<1>2. CASE Return
  BY <1>2 DEF Return
<1>3. ASSUME NEW t \in Threads,
             \/ at[t].stage = "tiles" /\ (Multiply(t) \/ ScratchFails(t))
             \/ ApplyAct(t) \/ PassMid(t) \/ PassEnd(t)
      PROVE  FALSE
  <2>1. returned' = returned /\ at[t].stage # "done"
    BY <1>3 DEF Multiply, ScratchFails, ApplyAct, PassMid, PassEnd
  <2> QED
    BY <2>1 DEF ReturnInv
<1> QED
  BY <1>1, <1>2, <1>3, StepKinds

(* The invariant starts and stays.                                          *)
LEMMA InvInit == SchedulesAreSound /\ Init => IInv
<1> SUFFICES ASSUME SchedulesAreSound, Init PROVE IInv
  OBVIOUS
<1>1. TypeOK /\ IsSchedule(sched) /\ 1 \in Rounds
  BY TypeInit, TypeHasParts, RoundsAreNumbers DEF TypeParts
<1>2. multiplied = {} /\ activated = {} /\ ~returned
  BY DEF Init
<1>3. ASSUME NEW t \in Threads
      PROVE  /\ at[t].round = 1
             /\ sched.activationPass => at[t].stage \in {"tiles", "mid"}
             /\ (at[t].stage = "tiles" /\ at[t].item = 1) \/ 1 > Len(sched.tiles[1][t])
  <2>1. at[t] = Settled(t, Place(1, "tiles", 1))
    BY DEF Init
  <2>2. /\ IsPlaceOf(t, at[t]) /\ at[t].round = 1
        /\ \/ at[t].stage = "tiles" /\ at[t].item = 1
           \/ at[t].stage \in {"mid", "end", "done"} /\ 1 > Len(sched.tiles[1][t])
        /\ at[t].stage \in {"end", "done"} => ~sched.activationPass
    BY <1>1, <2>1, SettledAtTiles
  <2> QED
    BY <2>2
<1>4. ASSUME NEW r \in Rounds, NEW t \in Threads, NEW i \in DOMAIN sched.tiles[r][t]
      PROVE  ~TilePast(r, t, i)
  BY <1>1, <1>3, RoundsAreNumbers, TilesAreColumns DEF TilePast
<1>5. ASSUME sched.activationPass, NEW r \in Rounds, NEW t \in Threads,
             NEW i \in DOMAIN sched.rows[r][t]
      PROVE  ~RowsPast(r, t, i)
  BY <1>1, <1>3, <1>5, RoundsAreNumbers DEF RowsPast
<1>6. TilesInv
  BY <1>2, <1>4 DEF TilesInv
<1>7. InTileInv /\ FoundProduct /\ ReturnInv
  BY <1>2 DEF InTileInv, FoundProduct, ReturnInv
<1>8. PassInv
  BY <1>2, <1>5 DEF PassInv
<1>9. BarrierInv
  BY <1>3 DEF BarrierInv
<1> QED
  BY <1>1, <1>6, <1>7, <1>8, <1>9 DEF IInv

LEMMA InvStep == IInv /\ [Next]_vars => IInv'
  BY TypeStep, TilesStep, InTileStep, PassStep, BarrierStep, FoundStep, ReturnStep DEF IInv

(* The invariant of every step of every call. *)
THEOREM TeamInvariant == ASSUME SchedulesAreSound PROVE Spec => []IInv
  BY InvInit, InvStep, PTL DEF Spec

----------------------------------------------------------------------------
(* The columns and the elements of a call. *)

(* Tiles are apart, and past ones are multiplied.                           *)
LEMMA OnceFromInv == IInv => EachColumnOnce
<1> SUFFICES ASSUME IInv PROVE EachColumnOnce
  OBVIOUS
<1>1. TypeOK /\ TilesInv /\ ReturnInv /\ IsSchedule(sched)
  BY TypeHasParts DEF IInv, TypeParts
<1>2. ASSUME NEW x \in multiplied, NEW y \in multiplied, x # y PROVE Apart(x, y)
  <2>1. /\ x.round \in Rounds /\ x.by \in Threads
        /\ y.round \in Rounds /\ y.by \in Threads
    BY <1>1, TypeHasParts DEF TypeParts, WorkOK, MultipliedTile
  <2>2. PICK i \in DOMAIN sched.tiles[x.round][x.by] : x = TileAt(x.round, x.by, i)
    BY <1>1 DEF TilesInv
  <2>3. PICK k \in DOMAIN sched.tiles[y.round][y.by] : y = TileAt(y.round, y.by, k)
    BY <1>1 DEF TilesInv
  <2>4. <<x.round, x.by, i>> # <<y.round, y.by, k>>
    BY <1>2, <2>2, <2>3
  <2>5. Apart(sched.tiles[x.round][x.by][i], sched.tiles[y.round][y.by][k])
    BY <1>1, <2>1, <2>4, TilesAreApart
  <2>6. /\ x.e = sched.tiles[x.round][x.by][i].e
        /\ x.lo = sched.tiles[x.round][x.by][i].lo /\ x.hi = sched.tiles[x.round][x.by][i].hi
    BY <2>2 DEF TileAt
  <2>7. /\ y.e = sched.tiles[y.round][y.by][k].e
        /\ y.lo = sched.tiles[y.round][y.by][k].lo /\ y.hi = sched.tiles[y.round][y.by][k].hi
    BY <2>3 DEF TileAt
  <2> QED
    BY <2>5, <2>6, <2>7 DEF Apart
<1>3. ASSUME returned, ~allocFail, NEW e \in ActiveExperts PROVE IsProduct(e)
  <2>1. ASSUME NEW r \in Rounds, NEW t \in Threads, NEW i \in DOMAIN sched.tiles[r][t]
        PROVE  TilePast(r, t, i)
    <3>1. at[t] = Done
      BY <1>1, <1>3, PlacesAreTheirs DEF ReturnInv, IsPlaceOf
    <3> QED
      BY <1>1, <3>1, RoundsAreNumbers DEF TilePast, Done, Place
  <2> QED
    BY <1>1, <1>3, <2>1, PastMakesProduct
<1> QED
  BY <1>2, <1>3 DEF EachColumnOnce

(* An element is activated when a rectangle holds it. *)
LEMMA ElementIsInRect ==
  ASSUME NEW e, NEW m, NEW n
  PROVE  <<m, n>> \in UNION {Elements(a) : a \in RectsOf(e)}
            <=> \E a \in activated : /\ a.e = e /\ m \in a.rlo .. a.rhi - 1
                                     /\ n \in a.clo .. a.chi - 1
  BY DEF Elements, RectsOf

(* Only elements the expert has are activated. *)
LEMMA ElementsAreTheExperts ==
  ASSUME IInv, NEW e \in ActiveExperts
  PROVE  UNION {Elements(a) : a \in RectsOf(e)}
            \subseteq (0 .. sched.M[e] - 1) \X (0 .. sched.N[e] - 1)
<1>1. /\ TypeOK /\ TilesInv /\ InTileInv /\ PassInv /\ FoundProduct /\ IsSchedule(sched)
      /\ sched.M[e] \in Nat
  BY TypeHasParts, ActiveExpertsHaveSize DEF IInv, TypeParts
<1>2. ASSUME NEW a \in activated, a.e = e
      PROVE  /\ a.clo .. a.chi - 1 \subseteq 0 .. sched.N[e] - 1
             /\ a.rlo .. a.rhi - 1 \subseteq 0 .. sched.M[e] - 1
  <2>1. a.clo .. a.chi - 1 \subseteq 0 .. sched.N[e] - 1
    BY <1>1, <1>2, ColumnsAreTheExperts DEF FoundProduct
  <2>2. CASE sched.inTile
    <3>1. PICK x \in multiplied : a = Whole(x)
      BY <1>1, <2>2 DEF InTileInv
    <3>2. a.rlo = 0 /\ a.rhi = sched.M[e]
      BY <1>2, <3>1 DEF Whole, Rect
    <3> QED
      BY <2>1, <3>2
  <2>3. CASE sched.activationPass
    <3>1. PICK r \in Rounds, t \in Threads : \E i \in DOMAIN sched.rows[r][t] :
             a = RowsAt(r, t, i)
      BY <1>1, <2>3 DEF PassInv
    <3>2. PICK i \in DOMAIN sched.rows[r][t] : a = RowsAt(r, t, i)
      BY <3>1
    <3>3. /\ sched.rows[r][t][i].lo \in Nat /\ sched.rows[r][t][i].hi \in Nat
          /\ sched.rows[r][t][i].hi <= sched.M[sched.rows[r][t][i].e]
      BY <1>1, <2>3, RowsAreRows
    <3>4. /\ a.e = sched.rows[r][t][i].e
          /\ a.rlo = sched.rows[r][t][i].lo /\ a.rhi = sched.rows[r][t][i].hi
      BY <3>2 DEF RowsAt, Rect
    <3>5. a.rlo \in Nat /\ a.rhi \in Nat /\ a.rhi <= sched.M[e]
      BY <1>2, <3>3, <3>4
    <3> QED
      BY <1>1, <2>1, <3>5
  <2>4. sched.inTile \/ sched.activationPass
    BY <1>1, RoundsAreNumbers DEF InTileInv
  <2> QED
    BY <2>2, <2>3, <2>4
<1> QED
  BY <1>2 DEF Elements, RectsOf

(* With a fused epilogue an expert is activated as its columns are          *)
(* multiplied.                                                              *)
LEMMA TilesActivate ==
  ASSUME IInv, sched.inTile, NEW e \in ActiveExperts, IsProduct(e)
  PROVE  IsActivated(e)
<1>1. /\ TypeOK /\ InTileInv /\ sched.M[e] \in Nat
  BY TypeHasParts, ActiveExpertsHaveSize DEF IInv, TypeParts
<1>2. ASSUME NEW m \in 0 .. sched.M[e] - 1, NEW n \in 0 .. sched.N[e] - 1
      PROVE  <<m, n>> \in UNION {Elements(a) : a \in RectsOf(e)}
  <2>1. PICK x \in multiplied : x.e = e /\ n \in x.lo .. x.hi - 1
    BY ColumnIsInTile DEF IsProduct
  <2>2. Whole(x) \in activated
    BY <1>1 DEF InTileInv
  <2>3. /\ Whole(x).e = e /\ m \in Whole(x).rlo .. Whole(x).rhi - 1
        /\ n \in Whole(x).clo .. Whole(x).chi - 1
    BY <2>1 DEF Whole, Rect
  <2> QED
    BY <2>2, <2>3, ElementIsInRect
<1> QED
  BY <1>2, ElementsAreTheExperts DEF IsActivated

(* An expert whose row slices every thread is past is activated. *)
LEMMA PastActivates ==
  ASSUME IInv, sched.activationPass, NEW e \in ActiveExperts,
         \A r \in Rounds : \A t \in Threads : \A i \in DOMAIN sched.rows[r][t] :
            RowsPast(r, t, i)
  PROVE  IsActivated(e)
<1>1. TypeOK /\ PassInv /\ IsSchedule(sched) /\ sched.N[e] \in Nat /\ sched.M[e] \in Nat
  BY TypeHasParts, ActiveExpertsHaveSize DEF IInv, TypeParts
<1>2. ASSUME NEW m \in 0 .. sched.M[e] - 1, NEW n \in 0 .. sched.N[e] - 1
      PROVE  <<m, n>> \in UNION {Elements(a) : a \in RectsOf(e)}
  <2>1. PICK r \in Rounds, t \in Threads : \E i \in DOMAIN sched.rows[r][t] :
           Holds(sched.rows[r][t][i], e, m)
    BY <1>1, RowsAreCovered
  <2>2. PICK i \in DOMAIN sched.rows[r][t] : Holds(sched.rows[r][t][i], e, m)
    BY <2>1
  <2>3. RowsAt(r, t, i) \in activated
    BY <1>1 DEF PassInv
  <2>4. sched.rows[r][t][i].lo \in Nat /\ sched.rows[r][t][i].hi \in Nat
    BY <1>1, RowsAreRows
  <2>5. /\ RowsAt(r, t, i).e = e /\ m \in RowsAt(r, t, i).rlo .. RowsAt(r, t, i).rhi - 1
        /\ n \in RowsAt(r, t, i).clo .. RowsAt(r, t, i).chi - 1
    BY <1>1, <1>2, <2>2, <2>4 DEF RowsAt, Rect, Holds
  <2> QED
    BY <2>3, <2>5, ElementIsInRect
<1> QED
  BY <1>2, ElementsAreTheExperts DEF IsActivated

(* Rectangles are apart, and past slices are activated.                     *)
LEMMA ActivatedFromInv == IInv => ActivatedOnceAfterProduct
<1> SUFFICES ASSUME IInv PROVE ActivatedOnceAfterProduct
  OBVIOUS
<1>1. /\ TypeOK /\ TilesInv /\ InTileInv /\ PassInv /\ FoundProduct /\ ReturnInv
      /\ IsSchedule(sched) /\ EachColumnOnce
  BY TypeHasParts, OnceFromInv DEF IInv, TypeParts
<1>2. /\ sched.fused = (sched.activationPass \/ sched.inTile)
      /\ sched.activationPass \in BOOLEAN /\ sched.inTile \in BOOLEAN
  BY <1>1, RoundsAreNumbers
<1>3. ASSUME NEW a \in activated, NEW b \in activated, a # b PROVE RectsApart(a, b)
  <2>1. CASE sched.inTile
    <3>1. PICK x \in multiplied : a = Whole(x)
      BY <1>1, <2>1 DEF InTileInv
    <3>2. PICK y \in multiplied : b = Whole(y)
      BY <1>1, <2>1 DEF InTileInv
    <3>3. Apart(x, y)
      BY <1>1, <1>3, <3>1, <3>2 DEF EachColumnOnce
    <3> QED
      BY <3>1, <3>2, <3>3 DEF Apart, RectsApart, Whole, Rect
  <2>2. CASE sched.activationPass
    <3>1. PICK r \in Rounds, t \in Threads : \E i \in DOMAIN sched.rows[r][t] :
             a = RowsAt(r, t, i)
      BY <1>1, <2>2 DEF PassInv
    <3>2. PICK i \in DOMAIN sched.rows[r][t] : a = RowsAt(r, t, i)
      BY <3>1
    <3>3. PICK q \in Rounds, u \in Threads : \E k \in DOMAIN sched.rows[q][u] :
             b = RowsAt(q, u, k)
      BY <1>1, <2>2 DEF PassInv
    <3>4. PICK k \in DOMAIN sched.rows[q][u] : b = RowsAt(q, u, k)
      BY <3>3
    <3>5. <<r, t, i>> # <<q, u, k>>
      BY <1>3, <3>2, <3>4
    <3>6. Apart(sched.rows[r][t][i], sched.rows[q][u][k])
      BY <1>1, <2>2, <3>5, RowsAreApart
    <3> QED
      BY <3>2, <3>4, <3>6 DEF Apart, RectsApart, RowsAt, Rect
  <2>3. sched.inTile \/ sched.activationPass
    BY <1>1, <1>2 DEF InTileInv
  <2> QED
    BY <2>1, <2>2, <2>3
<1>4. ASSUME returned, ~allocFail, sched.fused, NEW e \in ActiveExperts PROVE IsActivated(e)
  <2>1. CASE sched.inTile
    BY <1>1, <1>4, <2>1, TilesActivate DEF EachColumnOnce
  <2>2. CASE sched.activationPass
    <3>1. ASSUME NEW r \in Rounds, NEW t \in Threads, NEW i \in DOMAIN sched.rows[r][t]
          PROVE  RowsPast(r, t, i)
      <4>1. at[t] = Done
        BY <1>1, <1>4, PlacesAreTheirs DEF ReturnInv, IsPlaceOf
      <4> QED
        BY <1>1, <4>1, RoundsAreNumbers DEF RowsPast, Done, Place
    <3> QED
      BY <2>2, <3>1, PastActivates
  <2> QED
    BY <1>2, <1>4, <2>1, <2>2
<1> QED
  BY <1>1, <1>3, <1>4 DEF ActivatedOnceAfterProduct, FoundProduct

(* No column is multiplied twice, by two threads or in two rounds, and a    *)
(* call that returns without an allocation failure has left none out.       *)
THEOREM ColumnsOnce == ASSUME SchedulesAreSound PROVE Spec => []EachColumnOnce
  BY TeamInvariant, OnceFromInv, PTL

(* A row is activated only when all its columns are multiplied, whichever   *)
(* threads multiplied them, and no element is activated twice or left out:  *)
(* the barrier before the pass suffices, also when the rounds of one call   *)
(* overlap.                                                                 *)
THEOREM ElementsOnceAfterProduct ==
  ASSUME SchedulesAreSound PROVE Spec => []ActivatedOnceAfterProduct
  BY TeamInvariant, ActivatedFromInv, PTL

----------------------------------------------------------------------------
(* The team implements GroupedCall.                                         *)

(* What the mapping makes of an output.                                     *)
LEMMA OutputCases ==
  ASSUME NEW e
  PROVE  /\ IsFinal(e) => OutputOf(e) = "final"
         /\ ~IsFinal(e) /\ IsProduct(e) => OutputOf(e) = "product"
         /\ ~IsProduct(e) => OutputOf(e) = "none"
  BY DEF OutputOf, IsFinal

(* An expert is not activated before it is multiplied. *)
LEMMA ActivatedIsProduct ==
  ASSUME IInv, NEW e \in ActiveExperts, IsActivated(e)
  PROVE  IsProduct(e)
<1>1. /\ TypeOK /\ TilesInv /\ FoundProduct
      /\ sched.M[e] \in Nat \ {0} /\ sched.N[e] \in Nat
  BY TypeHasParts, ActiveExpertsHaveSize DEF IInv, TypeParts
<1>2. ASSUME NEW n \in 0 .. sched.N[e] - 1 PROVE n \in Columns(e)
  <2>1. 0 \in 0 .. sched.M[e] - 1
    BY <1>1
  <2>2. <<0, n>> \in UNION {Elements(a) : a \in RectsOf(e)}
    BY <2>1 DEF IsActivated
  <2>3. PICK a \in activated : a.e = e /\ n \in a.clo .. a.chi - 1
    BY <2>2, ElementIsInRect
  <2> QED
    BY <1>1, <2>3 DEF FoundProduct
<1> QED
  BY <1>1, <1>2, ColumnsAreTheExperts DEF IsProduct

\* What is done is within the experts' outputs.
WithinTheOutput == \A e \in ActiveExperts :
    /\ Columns(e) \subseteq 0 .. sched.N[e] - 1
    /\ UNION {Elements(a) : a \in RectsOf(e)}
            \subseteq (0 .. sched.M[e] - 1) \X (0 .. sched.N[e] - 1)

(* No step goes beyond an output.                                           *)
LEMMA WithinStep == IInv /\ [Next]_vars => WithinTheOutput'
<1>1. IInv => WithinTheOutput
  BY ColumnsAreTheExperts, ElementsAreTheExperts DEF IInv, WithinTheOutput
<1> QED
  BY <1>1, InvStep, PTL

(* An output that is complete stays so. *)
LEMMA OutputsStay ==
  ASSUME IInv, [Next]_vars, NEW e \in ActiveExperts
  PROVE  /\ sched' = sched /\ ActiveExperts' = ActiveExperts
         /\ IsProduct(e) => IsProduct(e)'
         /\ IsActivated(e) => IsActivated(e)'
<1>1. sched' = sched /\ ActiveExperts' = ActiveExperts
  BY ScheduleIsFixed DEF ActiveExperts
<1>2. /\ Columns(e)' \subseteq 0 .. sched.N[e] - 1
      /\ UNION {Elements(a) : a \in RectsOf(e)}'
            \subseteq (0 .. sched.M[e] - 1) \X (0 .. sched.N[e] - 1)
  BY <1>1, WithinStep DEF WithinTheOutput
<1>3. Columns(e) \subseteq Columns(e)'
  BY ColumnsGrow
<1>4. UNION {Elements(a) : a \in RectsOf(e)} \subseteq UNION {Elements(a) : a \in RectsOf(e)}'
  <2>1. activated \subseteq activated'
    BY WorkStays
  <2> QED
    BY <2>1 DEF RectsOf, Elements
<1>5. IsProduct(e) => IsProduct(e)'
  BY <1>1, <1>2, <1>3 DEF IsProduct
<1>6. IsActivated(e) => IsActivated(e)'
  BY <1>1, <1>2, <1>4 DEF IsActivated
<1> QED
  BY <1>1, <1>5, <1>6

(* What is done for one expert changes no other's output. *)
LEMMA OtherOutputs ==
  ASSUME IInv, [Next]_vars, NEW e,
         {x \in multiplied' : x.e = e} = {x \in multiplied : x.e = e},
         {a \in activated' : a.e = e} = {a \in activated : a.e = e}
  PROVE  /\ IsProduct(e)' = IsProduct(e) /\ IsActivated(e)' = IsActivated(e)
         /\ OutputOf(e)' = OutputOf(e)
<1>1. sched' = sched
  BY ScheduleIsFixed
<1>2. IsProduct(e)' = IsProduct(e)
  BY <1>1 DEF IsProduct, Columns, TilesOf
<1>3. IsActivated(e)' = IsActivated(e)
  BY <1>1 DEF IsActivated, RectsOf, Elements
<1> QED
  BY <1>1, <1>2, <1>3 DEF OutputOf, IsFinal

(* Without a pass of its own the activation makes no difference. *)
FinalIsProduct ==
    ~sched.activationPass => \A e \in ActiveExperts : IsFinal(e) <=> IsProduct(e)

(* The fused epilogue activates as it multiplies.                           *)
LEMMA FinalIsProductFromInv == IInv => FinalIsProduct
<1> SUFFICES ASSUME IInv, ~sched.activationPass, NEW e \in ActiveExperts, IsProduct(e)
             PROVE  IsFinal(e)
  BY DEF FinalIsProduct, IsFinal
<1>1. sched.fused = (sched.activationPass \/ sched.inTile) /\ sched.inTile \in BOOLEAN
  BY TypeHasParts, RoundsAreNumbers DEF IInv, TypeParts
<1>2. sched.fused => IsActivated(e)
  BY <1>1, TilesActivate
<1> QED
  BY <1>2 DEF IsFinal

LEMMA FinalIsProductStep == IInv /\ [Next]_vars => FinalIsProduct /\ FinalIsProduct'
  BY FinalIsProductFromInv, InvStep, PTL

(* Before the first tile every output is untouched.                         *)
LEMMA PromiseInit == SchedulesAreSound /\ Init => Promise!Init
<1> SUFFICES ASSUME SchedulesAreSound, Init PROVE Promise!Init
  OBVIOUS
<1>1. IsSchedule(sched) /\ multiplied = {} /\ ~allocFail /\ ~returned
  BY DEF Init, SchedulesAreSound
<1>2. ASSUME NEW e \in ActiveExperts PROVE OutputOf(e) = "none"
  <2>1. 0 \in 0 .. sched.N[e] - 1
    BY <1>1, ActiveExpertsHaveSize
  <2>2. 0 \notin Columns(e)
    BY <1>1, ColumnIsInTile
  <2> QED
    BY <2>1, <2>2, OutputCases DEF IsProduct
<1>3. [e \in ActiveExperts |-> OutputOf(e)] = [e \in ActiveExperts |-> "none"]
  BY <1>2
<1>4. sched.activationPass \in BOOLEAN
  BY <1>1, RoundsAreNumbers
<1> QED
  BY <1>1, <1>3, <1>4 DEF Promise!Init

(* A tile moves its expert on to its product, and with no pass to follow to *)
(* its final form.                                                          *)
LEMMA MultiplyKeepsPromise ==
  ASSUME IInv, [Next]_vars, NEW t \in Threads, at[t].stage = "tiles", Multiply(t)
  PROVE  [Promise!Next]_(Promise!vars)
<1>0. PICK x : x = TileAt(at[t].round, t, at[t].item)
  OBVIOUS
<1>1. /\ TypeOK /\ ReturnInv /\ IsSchedule(sched)
  BY TypeHasParts DEF IInv, TypeParts
<1>2. /\ x \in MultipliedTile /\ multiplied' = multiplied \cup {x}
      /\ sched.inTile => activated' = activated \cup {Whole(x)}
      /\ ~sched.inTile => activated' = activated
      /\ UNCHANGED <<sched, allocFail, returned>>
  BY <1>0, <1>1, MultiplyAdds
<1>3. ~returned /\ x.e \in ActiveExperts
  BY <1>1, <1>2 DEF ReturnInv, MultipliedTile
<1>4. sched' = sched /\ ActiveExperts' = ActiveExperts
  BY <1>2 DEF ActiveExperts
<1>5. Whole(x).e = x.e
  BY DEF Whole, Rect
<1>6. \A e \in ActiveExperts : e # x.e => OutputOf(e)' = OutputOf(e)
  BY <1>2, <1>5, OtherOutputs
<1>7. IsProduct(x.e) => IsProduct(x.e)'
  BY <1>3, OutputsStay
<1>8. CASE OutputOf(x.e)' = OutputOf(x.e)
  BY <1>2, <1>4, <1>6, <1>8 DEF Promise!vars
<1>9. CASE OutputOf(x.e)' # OutputOf(x.e) /\ sched.activationPass
  <2>1. /\ sched.fused /\ activated' = activated
    BY <1>1, <1>2, <1>9, RoundsAreNumbers
  <2>2. IsActivated(x.e)' = IsActivated(x.e)
    BY <1>4, <2>1 DEF IsActivated, RectsOf, Elements
  <2>3. ~IsProduct(x.e) /\ IsProduct(x.e)'
    BY <1>4, <1>7, <1>9, <2>2 DEF OutputOf, IsFinal
  <2>4. ~IsActivated(x.e)
    BY <1>3, <2>3, ActivatedIsProduct
  <2>5. OutputOf(x.e) = "none" /\ OutputOf(x.e)' = "product"
    BY <1>4, <2>1, <2>2, <2>3, <2>4 DEF OutputOf, IsFinal
  <2> QED
    BY <1>2, <1>3, <1>4, <1>6, <1>9, <2>5 DEF Promise!Next, Promise!Multiplied, Promise!Call
<1>10. CASE OutputOf(x.e)' # OutputOf(x.e) /\ ~sched.activationPass
  <2>1. /\ IsFinal(x.e) <=> IsProduct(x.e)
        /\ IsFinal(x.e)' <=> IsProduct(x.e)'
    BY <1>3, <1>4, <1>10, FinalIsProductStep DEF FinalIsProduct
  <2>2. OutputOf(x.e) = "none" /\ OutputOf(x.e)' = "final"
    BY <1>7, <1>10, <2>1 DEF OutputOf
  <2> QED
    BY <1>2, <1>3, <1>4, <1>6, <1>10, <2>2 DEF Promise!Next, Promise!Finished, Promise!Call
<1>11. sched.activationPass \in BOOLEAN
  BY <1>1, RoundsAreNumbers
<1> QED
  BY <1>8, <1>9, <1>10, <1>11

(* A row slice moves its expert from its product to its final form. *)
LEMMA ApplyKeepsPromise ==
  ASSUME IInv, [Next]_vars, NEW t \in Threads, ApplyAct(t)
  PROVE  [Promise!Next]_(Promise!vars)
<1>0. PICK a : a = RowsAt(at[t].round, t, at[t].item)
  OBVIOUS
<1>1. /\ TypeOK /\ TilesInv /\ BarrierInv /\ ReturnInv /\ IsSchedule(sched)
  BY TypeHasParts DEF IInv, TypeParts
<1>2. /\ sched.activationPass /\ at[t].stage = "rows"
      /\ activated' = activated \cup {a}
      /\ UNCHANGED <<sched, multiplied, allocFail, returned>>
  BY <1>0, <1>1, ApplyAdds
<1>3. a.e = sched.rows[at[t].round][t][at[t].item].e
  BY <1>0 DEF RowsAt, Rect
<1>4. ~returned /\ sched' = sched /\ ActiveExperts' = ActiveExperts
  BY <1>1, <1>2 DEF ReturnInv, ActiveExperts
<1>5. a.e \in ActiveExperts /\ IsProduct(a.e)
  BY <1>1, <1>3, RowsFindProduct
<1>6. \A e \in ActiveExperts : e # a.e => OutputOf(e)' = OutputOf(e)
  BY <1>2, OtherOutputs
<1>7. IsProduct(a.e)' /\ (IsActivated(a.e) => IsActivated(a.e)')
  BY <1>5, OutputsStay
<1>8. sched.fused
  BY <1>1, <1>2, RoundsAreNumbers
<1>9. CASE OutputOf(a.e)' = OutputOf(a.e)
  BY <1>2, <1>4, <1>6, <1>9 DEF Promise!vars
<1>10. CASE OutputOf(a.e)' # OutputOf(a.e)
  <2>1. OutputOf(a.e) = "product" /\ OutputOf(a.e)' = "final"
    BY <1>4, <1>5, <1>7, <1>8, <1>10 DEF OutputOf, IsFinal
  <2> QED
    BY <1>2, <1>4, <1>5, <1>6, <2>1 DEF Promise!Next, Promise!Finished, Promise!Call
<1> QED
  BY <1>9, <1>10

(* The two safety properties hold after a step as before it.                *)
LEMMA NextIsOnce == IInv /\ [Next]_vars => (EachColumnOnce /\ ActivatedOnceAfterProduct)'
  BY OnceFromInv, ActivatedFromInv, InvStep, PTL

(* Every step of the team is a step of the promise or leaves it as it is. *)
LEMMA PromiseStep ==
  ASSUME IInv, [Next]_vars
  PROVE  [Promise!Next]_(Promise!vars)
<1>1. /\ TypeOK /\ ReturnInv /\ sched' = sched /\ ActiveExperts' = ActiveExperts
  BY ScheduleIsFixed DEF IInv, ActiveExperts
<1>2. multiplied' = multiplied /\ activated' = activated =>
        \A e \in ActiveExperts : OutputOf(e)' = OutputOf(e)
  BY OtherOutputs
<1>3. ASSUME UNCHANGED <<multiplied, activated, allocFail, returned>>
      PROVE  [Promise!Next]_(Promise!vars)
  BY <1>1, <1>2, <1>3 DEF Promise!vars
<1>4. CASE UNCHANGED vars
  BY <1>3, <1>4 DEF vars
<1>5. CASE Return
  <2>1. /\ ~returned /\ returned' = TRUE
        /\ UNCHANGED <<multiplied, activated, allocFail>>
    BY <1>5 DEF Return
  <2>2. (EachColumnOnce /\ ActivatedOnceAfterProduct)'
    BY NextIsOnce
  <2>3. ASSUME ~allocFail, NEW e \in ActiveExperts PROVE OutputOf(e) = "final"
    <3>1. IsProduct(e)' /\ (sched.fused => IsActivated(e)')
      BY <1>1, <2>1, <2>2, <2>3 DEF EachColumnOnce, ActivatedOnceAfterProduct
    <3>2. IsProduct(e) /\ (sched.fused => IsActivated(e))
      BY <2>1, <3>1, OtherOutputs
    <3> QED
      BY <3>2 DEF OutputOf, IsFinal
  <2> QED
    BY <1>1, <1>2, <2>1, <2>3 DEF Promise!Next, Promise!Return, Promise!Call
<1>6. ASSUME NEW t \in Threads, at[t].stage = "tiles", ScratchFails(t)
      PROVE  [Promise!Next]_(Promise!vars)
  <2>1. /\ ~returned /\ allocFail' = TRUE
        /\ UNCHANGED <<multiplied, activated, returned>>
    BY <1>1, <1>6 DEF ScratchFails, ReturnInv
  <2>2. CASE allocFail
    <3>1. allocFail' = allocFail
      BY <1>1, <2>1, <2>2 DEF TypeOK
    <3> QED
      BY <1>3, <2>1, <3>1
  <2>3. CASE ~allocFail
    BY <1>1, <1>2, <2>1, <2>3 DEF Promise!Next, Promise!Fail, Promise!Call
  <2> QED
    BY <2>2, <2>3
<1>7. ASSUME NEW t \in Threads, PassMid(t) \/ PassEnd(t)
      PROVE  [Promise!Next]_(Promise!vars)
  BY <1>3, <1>7 DEF PassMid, PassEnd
<1> QED
  BY <1>4, <1>5, <1>6, <1>7, MultiplyKeepsPromise, ApplyKeepsPromise, StepKinds

(* The tiles, barriers and row slices of the team implement the promise to  *)
(* the caller step by step: an output changes to its product and then to    *)
(* its final form, never back and never after the return, and a call that   *)
(* has not failed returns with every output final.                          *)
THEOREM ImplementsPromise ==
  ASSUME SchedulesAreSound
  PROVE  Spec => KeepsPromiseSafety
  BY PromiseInit, PromiseStep, TeamInvariant, PTL DEF Spec, KeepsPromiseSafety

(***************************************************************************)
(* The loop that hands out threads                                         *)
(***************************************************************************)

MoreRowsFill(c, alloc, cap, S, n) ==
  WaterFill(alloc, cap, S, n, LAMBDA a, e, f : MoreRowsPerThread(c, a, e, f))

LEMMA MoreRowsFills ==
  ASSUME NEW E, IsFiniteSet(E), NEW alloc \in [E -> Nat], NEW n \in Nat,
         NEW c, NEW cap, NEW S
  PROVE  MoreRowsFill(c, alloc, cap, S, n) \in Filled(alloc, E, n)
<1> DEFINE open(a) == {e \in S : a[e] < cap[e]}
<1> DEFINE best(a) == CHOOSE e \in open(a) : \A f \in open(a) \ {e} : MoreRowsPerThread(c, a, e, f)
<1> DEFINE Give(a, i) == IF open(a) = {} THEN a ELSE [a EXCEPT ![best(a)] = @ + 1]
<1> DEFINE res == MoreRowsFill(c, alloc, cap, S, n)
<1> DEFINE seq == [i \in 1 .. n |-> i]
<1> DEFINE IsLoop(g) == g = [s \in SUBSET DOMAIN seq |->
                IF s = {} THEN alloc ELSE Give(g[s \ {Max(s)}], seq[Max(s)])]
<1>1. res = (CHOOSE g : IsLoop(g))[DOMAIN seq]
  BY DEF MoreRowsFill, WaterFill, FoldLeft, MapThenFoldSet
<1>2. \A a, i : Give(a, i) = a \/ \E b : Give(a, i) = OneMore(a, b) BY DEF OneMore
<1> HIDE DEF open, best, Give, res
<1>3. /\ DOMAIN seq = 1 .. n
      /\ \A s \in SUBSET (1 .. n) : s # {} =>
            /\ Max(s) \in 1 .. n /\ seq[Max(s)] = Max(s)
            /\ s \ {Max(s)} \in SUBSET (1 .. n)
  <2>1. \A s \in SUBSET (1 .. n) : s # {} => Max(s) \in s
    <3>1. \A s \in SUBSET (1 .. n) : s \in SUBSET (1 .. n + 1) OBVIOUS
    <3> QED BY <3>1, LastOfPlaces
  <2> QED BY <2>1
<1>4. \A g : IsLoop(g) <=> g = [s \in SUBSET (1 .. n) |->
                                 IF s = {} THEN alloc ELSE Give(g[s \ {Max(s)}], Max(s))]
  BY <1>3
<1> HIDE DEF IsLoop, seq
<1>5. \E g : IsLoop(g)
  <2>1. PICK G : G = [p \in [E -> Nat] \X (1 .. n) |-> Give(p[1], p[2])] OBVIOUS
  <2>2. \A a \in [E -> Nat] : \A i \in 1 .. n : G[<<a, i>>] = Give(a, i) BY <2>1
  <2>3. PICK h : FoldRec(h, G, alloc, n) BY FoldDefined
  <2>4. \A s \in SUBSET (1 .. n) : h[s] \in [E -> Nat]
    <3>1. \A a \in [E -> Nat] : \A i \in 1 .. n :
            G[<<a, i>>] = a \/ \E b : G[<<a, i>>] = OneMore(a, b)
      <4> SUFFICES ASSUME NEW a \in [E -> Nat], NEW i \in 1 .. n
                   PROVE  G[<<a, i>>] = a \/ \E b : G[<<a, i>>] = OneMore(a, b)
        OBVIOUS
      <4>1. PICK d : d = Give(a, i) OBVIOUS
      <4>2. G[<<a, i>>] = d BY <2>2, <4>1
      <4>3. d = a \/ \E b : d = OneMore(a, b) BY <1>2, <4>1
      <4> QED BY <4>2, <4>3
    <3>2. \A s \in SUBSET (1 .. n) : h[s] \in Filled(alloc, E, n)
      BY <2>3, <3>1, WaterFills
    <3> QED BY <3>2 DEF Filled
  <2>5. h = [s \in SUBSET (1 .. n) |->
               IF s = {} THEN alloc ELSE Give(h[s \ {Max(s)}], Max(s))]
    <3>1. \A s \in SUBSET (1 .. n) : s # {} =>
            G[<<h[s \ {Max(s)}], Max(s)>>] = Give(h[s \ {Max(s)}], Max(s))
      BY <1>3, <2>2, <2>4
    <3> QED BY <2>3, <3>1 DEF FoldRec
  <2> QED BY <1>4, <2>5
<1>6. PICK g : IsLoop(g) /\ res = g[1 .. n] BY <1>1, <1>3, <1>5
<1>7. PICK D : D = [E -> Nat] \cup {g[s] : s \in SUBSET (1 .. n)} OBVIOUS
<1>8. PICK G : G = [p \in D \X (1 .. n) |-> Give(p[1], p[2])] OBVIOUS
<1>9. \A a \in D : \A i \in 1 .. n : G[<<a, i>>] = Give(a, i) BY <1>8
<1>10. FoldRec(g, G, alloc, n)
  <2>1. \A s \in SUBSET (1 .. n) : s # {} =>
          G[<<g[s \ {Max(s)}], Max(s)>>] = Give(g[s \ {Max(s)}], Max(s))
    BY <1>3, <1>7, <1>9
  <2> QED BY <1>4, <1>6, <2>1 DEF FoldRec
<1>11. \A a \in [E -> Nat] : \A i \in 1 .. n :
         G[<<a, i>>] = a \/ \E b : G[<<a, i>>] = OneMore(a, b)
  <2> SUFFICES ASSUME NEW a \in [E -> Nat], NEW i \in 1 .. n
               PROVE  G[<<a, i>>] = a \/ \E b : G[<<a, i>>] = OneMore(a, b)
    OBVIOUS
  <2>1. PICK d : d = Give(a, i) OBVIOUS
  <2>2. G[<<a, i>>] = d BY <1>7, <1>9, <2>1
  <2>3. d = a \/ \E b : d = OneMore(a, b) BY <1>2, <2>1
  <2> QED BY <2>2, <2>3
<1>12. \A s \in SUBSET (1 .. n) : g[s] \in Filled(alloc, E, n) BY <1>10, <1>11, WaterFills
<1>13. res \in Filled(alloc, E, n) BY <1>6, <1>12
<1> QED BY <1>13 DEF res

LEMMA DeficitFills ==
  ASSUME NEW c, NEW E, E = Experts(c), IsFiniteSet(E), NEW n \in Nat, n = ExtrasBudget(c),
         NEW alloc \in [E -> Nat], alloc = [e \in E |-> IF c.M[e] > 0 THEN 1 ELSE 0]
  PROVE  ProportionalSplit(c) \in Filled(alloc, E, n)
<1> DEFINE rows == Total(c.M, Active(c))
<1> DEFINE deficit(a, e) == c.threads * c.M[e] - rows * a[e]
<1> DEFINE open(a) == {e \in Active(c) : a[e] < [f \in Experts(c) |-> TileCap(c, f)][e]}
<1> DEFINE best(a) == CHOOSE e \in open(a) : \A f \in open(a) \ {e} :
                        \/ deficit(a, e) > deficit(a, f)
                        \/ deficit(a, e) = deficit(a, f) /\ e < f
<1> DEFINE Give(a, i) == IF open(a) = {} THEN a ELSE [a EXCEPT ![best(a)] = @ + 1]
<1> DEFINE res == ProportionalSplit(c)
<1> DEFINE seq == [i \in 1 .. n |-> i]
<1> DEFINE IsLoop(g) == g = [s \in SUBSET DOMAIN seq |->
                IF s = {} THEN alloc ELSE Give(g[s \ {Max(s)}], seq[Max(s)])]
<1>1. res = (CHOOSE g : IsLoop(g))[DOMAIN seq]
  BY DEF ProportionalSplit, WaterFill, FoldLeft, MapThenFoldSet
<1>2. \A a, i : Give(a, i) = a \/ \E b : Give(a, i) = OneMore(a, b) BY DEF OneMore
<1> HIDE DEF rows, deficit, open, best, Give, res
<1>3. /\ DOMAIN seq = 1 .. n
      /\ \A s \in SUBSET (1 .. n) : s # {} =>
            /\ Max(s) \in 1 .. n /\ seq[Max(s)] = Max(s)
            /\ s \ {Max(s)} \in SUBSET (1 .. n)
  <2>1. \A s \in SUBSET (1 .. n) : s # {} => Max(s) \in s
    <3>1. \A s \in SUBSET (1 .. n) : s \in SUBSET (1 .. n + 1) OBVIOUS
    <3> QED BY <3>1, LastOfPlaces
  <2> QED BY <2>1
<1>4. \A g : IsLoop(g) <=> g = [s \in SUBSET (1 .. n) |->
                                 IF s = {} THEN alloc ELSE Give(g[s \ {Max(s)}], Max(s))]
  BY <1>3
<1> HIDE DEF IsLoop, seq
<1>5. \E g : IsLoop(g)
  <2>1. PICK G : G = [p \in [E -> Nat] \X (1 .. n) |-> Give(p[1], p[2])] OBVIOUS
  <2>2. \A a \in [E -> Nat] : \A i \in 1 .. n : G[<<a, i>>] = Give(a, i) BY <2>1
  <2>3. PICK h : FoldRec(h, G, alloc, n) BY FoldDefined
  <2>4. \A s \in SUBSET (1 .. n) : h[s] \in [E -> Nat]
    <3>1. \A a \in [E -> Nat] : \A i \in 1 .. n :
            G[<<a, i>>] = a \/ \E b : G[<<a, i>>] = OneMore(a, b)
      <4> SUFFICES ASSUME NEW a \in [E -> Nat], NEW i \in 1 .. n
                   PROVE  G[<<a, i>>] = a \/ \E b : G[<<a, i>>] = OneMore(a, b)
        OBVIOUS
      <4>1. PICK d : d = Give(a, i) OBVIOUS
      <4>2. G[<<a, i>>] = d BY <2>2, <4>1
      <4>3. d = a \/ \E b : d = OneMore(a, b) BY <1>2, <4>1
      <4> QED BY <4>2, <4>3
    <3>2. \A s \in SUBSET (1 .. n) : h[s] \in Filled(alloc, E, n)
      BY <2>3, <3>1, WaterFills
    <3> QED BY <3>2 DEF Filled
  <2>5. h = [s \in SUBSET (1 .. n) |->
               IF s = {} THEN alloc ELSE Give(h[s \ {Max(s)}], Max(s))]
    <3>1. \A s \in SUBSET (1 .. n) : s # {} =>
            G[<<h[s \ {Max(s)}], Max(s)>>] = Give(h[s \ {Max(s)}], Max(s))
      BY <1>3, <2>2, <2>4
    <3> QED BY <2>3, <3>1 DEF FoldRec
  <2> QED BY <1>4, <2>5
<1>6. PICK g : IsLoop(g) /\ res = g[1 .. n] BY <1>1, <1>3, <1>5
<1>7. PICK D : D = [E -> Nat] \cup {g[s] : s \in SUBSET (1 .. n)} OBVIOUS
<1>8. PICK G : G = [p \in D \X (1 .. n) |-> Give(p[1], p[2])] OBVIOUS
<1>9. \A a \in D : \A i \in 1 .. n : G[<<a, i>>] = Give(a, i) BY <1>8
<1>10. FoldRec(g, G, alloc, n)
  <2>1. \A s \in SUBSET (1 .. n) : s # {} =>
          G[<<g[s \ {Max(s)}], Max(s)>>] = Give(g[s \ {Max(s)}], Max(s))
    BY <1>3, <1>7, <1>9
  <2> QED BY <1>4, <1>6, <2>1 DEF FoldRec
<1>11. \A a \in [E -> Nat] : \A i \in 1 .. n :
         G[<<a, i>>] = a \/ \E b : G[<<a, i>>] = OneMore(a, b)
  <2> SUFFICES ASSUME NEW a \in [E -> Nat], NEW i \in 1 .. n
               PROVE  G[<<a, i>>] = a \/ \E b : G[<<a, i>>] = OneMore(a, b)
    OBVIOUS
  <2>1. PICK d : d = Give(a, i) OBVIOUS
  <2>2. G[<<a, i>>] = d BY <1>7, <1>9, <2>1
  <2>3. d = a \/ \E b : d = OneMore(a, b) BY <1>2, <2>1
  <2> QED BY <2>2, <2>3
<1>12. \A s \in SUBSET (1 .. n) : g[s] \in Filled(alloc, E, n) BY <1>10, <1>11, WaterFills
<1>13. res \in Filled(alloc, E, n) BY <1>6, <1>12
<1> QED BY <1>13 DEF res

(***************************************************************************)
(* The column split                                                        *)
(***************************************************************************)
WideSpans(N, n, w) ==
  [t \in 0 .. n - 1 |-> <<w * t, IF t < n - 1 THEN w * (t + 1) ELSE N>>]

\* So is a split into slices of w columns that leaves some for the last
\* thread.
LEMMA WideSplit ==
  ASSUME NEW N \in Nat, NEW n \in Nat \ {0}, NEW w \in Nat \ {0}, w * (n - 1) < N
  PROVE  IsSplit(N, n, WideSpans(N, n, w))
<1> DEFINE hi(t) == IF t < n - 1 THEN w * (t + 1) ELSE N
<1>1. \A t \in 0 .. n - 1 : t \in Nat /\ t + 1 \in Nat /\ t <= n - 1 OBVIOUS
<1>2. \A t, u \in Nat : t <= u => w * t <= w * u /\ w * t \in Nat
  BY TimesMonotone
<1>3. \A t \in 0 .. n - 1 : w * t \in Nat /\ w * t < N
  <2> SUFFICES ASSUME NEW t \in 0 .. n - 1 PROVE w * t \in Nat /\ w * t < N OBVIOUS
  <2>1. n - 1 \in Nat /\ w * (n - 1) \in Nat OBVIOUS
  <2>2. w * t <= w * (n - 1) /\ w * t \in Nat BY <1>1, <1>2, <2>1
  <2> QED BY <2>1, <2>2
<1>4. \A t \in 0 .. n - 1 : hi(t) \in Nat /\ w * t <= hi(t) /\ hi(t) <= N
  <2> SUFFICES ASSUME NEW t \in 0 .. n - 1
               PROVE hi(t) \in Nat /\ w * t <= hi(t) /\ hi(t) <= N
      OBVIOUS
  <2>1. CASE t < n - 1
    <3>1. t + 1 \in 0 .. n - 1 BY <2>1
    <3>2. w * (t + 1) \in Nat /\ w * (t + 1) < N BY <1>3, <3>1
    <3>3. w * t <= w * (t + 1) BY <1>1, <1>2
    <3> QED BY <2>1, <3>2, <3>3
  <2>2. CASE ~(t < n - 1) BY <1>3, <2>2
  <2> QED BY <2>1, <2>2
<1>5. \A t, u \in 0 .. n - 1 : t < u => hi(t) <= w * u
  <2> SUFFICES ASSUME NEW t \in 0 .. n - 1, NEW u \in 0 .. n - 1, t < u
               PROVE hi(t) <= w * u
      OBVIOUS
  <2>1. t < n - 1 /\ t + 1 <= u /\ t + 1 \in Nat /\ u \in Nat OBVIOUS
  <2> QED BY <1>2, <2>1
<1>6. \A x \in 0 .. N - 1 : \E t \in 0 .. n - 1 : w * t <= x /\ x < hi(t)
  <2> SUFFICES ASSUME NEW x \in 0 .. N - 1
               PROVE \E t \in 0 .. n - 1 : w * t <= x /\ x < hi(t)
      OBVIOUS
  <2>1. x \in Nat /\ x < N OBVIOUS
  <2>2. PICK q \in Nat : q = x \div w /\ w * q <= x /\ x < w * (q + 1)
        BY <2>1, DivBounds
  <2>3. CASE q < n - 1
    <3>1. q \in 0 .. n - 1 BY <2>3
    <3> QED BY <2>2, <2>3, <3>1
  <2>4. CASE n - 1 <= q
    <3>1. n - 1 \in 0 .. n - 1 /\ n - 1 \in Nat OBVIOUS
    <3>2. w * (n - 1) <= w * q BY <1>2, <2>4, <3>1
    <3>3. w * (n - 1) \in Nat /\ w * q \in Nat BY <3>1
    <3>4. w * (n - 1) <= x BY <2>1, <2>2, <3>2, <3>3
    <3> QED BY <2>1, <3>1, <3>4
  <2> QED BY <2>3, <2>4
<1> DEFINE s == WideSpans(N, n, w)
<1>7. \A t \in 0 .. n - 1 : s[t][1] = w * t /\ s[t][2] = hi(t) BY DEF WideSpans
<1> HIDE DEF hi, s
<1>8. IsSplit(N, n, s) BY <1>3, <1>4, <1>5, <1>6, <1>7 DEF IsSplit
<1> QED BY <1>8 DEF s

\* The slices AlignedNSplit gives n threads.
Spans(N, n, align) == [t \in 0 .. n - 1 |-> AlignedNSplit(N, n, t, align)]

\* The multiples of align wide enough for the last of n threads to keep half
\* a slice, and no wider than the even share.
Widths(N, n, align) ==
  {w \in {align * k : k \in 1 .. CeilDiv(CeilDiv(N, n), align)} :
      N - w * (n - 1) > 0 /\ 2 * (N - w * (n - 1)) >= w}

LEMMA SpansByCase ==
  ASSUME NEW N \in Nat, NEW n \in Nat \ {0}, NEW align \in Nat
  PROVE  Spans(N, n, align) =
           IF align <= 1 \/ n <= 1 \/ Widths(N, n, align) = {}
           THEN EvenSpans(N, n) ELSE WideSpans(N, n, Max(Widths(N, n, align)))
BY DEF Spans, AlignedNSplit, Widths, EvenSpans, WideSpans

\* The width taken is one of them, and the widest.
LEMMA WidestFits ==
  ASSUME NEW N \in Nat, NEW n \in Nat \ {0}, NEW align \in Nat,
         align > 1, n > 1, Widths(N, n, align) # {}
  PROVE  LET w == Max(Widths(N, n, align))
         IN  /\ w \in Widths(N, n, align) /\ \A v \in Widths(N, n, align) : v <= w
             /\ w \in Nat \ {0} /\ w * (n - 1) < N
<1> DEFINE W == Widths(N, n, align)
<1>1. \A w \in W : w \in Nat \ {0} /\ w * (n - 1) < N /\ w <= N
  <2> SUFFICES ASSUME NEW w \in W PROVE w \in Nat \ {0} /\ w * (n - 1) < N /\ w <= N
      OBVIOUS
  <2>1. CeilDiv(CeilDiv(N, n), align) \in Nat
    <3>1. N + n - 1 \in Nat OBVIOUS
    <3>2. CeilDiv(N, n) \in Nat BY <3>1, DivBounds DEF CeilDiv
    <3>3. CeilDiv(N, n) + align - 1 \in Nat BY <3>2
    <3> QED BY <3>3, DivBounds DEF CeilDiv
  <2>2. PICK k \in 1 .. CeilDiv(CeilDiv(N, n), align) :
           w = align * k /\ N - w * (n - 1) > 0
        BY DEF Widths
  <2>3. k \in Nat /\ k >= 1 BY <2>1, <2>2
  <2>4. align * 1 <= align * k /\ align * k \in Nat BY <2>3, TimesMonotone
  <2>5. w \in Nat \ {0} BY <2>2, <2>4
  <2>6. n - 1 \in Nat /\ 1 <= n - 1 OBVIOUS
  <2>7. w * 1 <= w * (n - 1) /\ w * (n - 1) \in Nat BY <2>5, <2>6, TimesMonotone
  <2> QED BY <2>2, <2>5, <2>7
<1>2. W \subseteq Nat /\ W # {} BY <1>1
<1> HIDE DEF W
<1>3. Max(W) \in W /\ \A v \in W : v <= Max(W) BY <1>1, <1>2, MaxOfBounded
<1>4. Max(W) \in Nat \ {0} /\ Max(W) * (n - 1) < N BY <1>1, <1>3
<1> QED BY <1>3, <1>4 DEF W

\* Whatever the width of an expert, the threads of its team and the alignment
\* asked for, AlignedNSplit gives each column to exactly one thread, in
\* ordered ranges: with alignment the slices are consecutive multiples and
\* the last thread takes what is left, and some is.
THEOREM SplitHoldsEachColumn ==
  ASSUME NEW N \in Nat, NEW n \in Nat \ {0}, NEW align \in Nat
  PROVE  IsSplit(N, n, Spans(N, n, align))
<1>1. CASE align <= 1 \/ n <= 1 \/ Widths(N, n, align) = {}
  BY <1>1, SpansByCase, EvenSplit
<1>2. CASE ~(align <= 1 \/ n <= 1 \/ Widths(N, n, align) = {})
  <2>1. align > 1 /\ n > 1 /\ Widths(N, n, align) # {} BY <1>2
  <2>2. PICK w : w = Max(Widths(N, n, align)) OBVIOUS
  <2>3. w \in Nat \ {0} /\ w * (n - 1) < N BY <2>1, <2>2, WidestFits
  <2>4. IsSplit(N, n, WideSpans(N, n, w)) BY <2>3, WideSplit
  <2> QED BY <1>2, <2>2, <2>4, SpansByCase
<1> QED BY <1>1, <1>2

\* Every slice starts at a multiple of align, and all but the last thread's
\* end at one; the last is never less than half of any other.
IsAlignedSplit(N, n, align, s) ==
  /\ \A t \in 0 .. n - 1 : \E k \in Nat : s[t][1] = align * k
  /\ \A t \in 0 .. n - 2 : \E k \in Nat : s[t][2] = align * k
  /\ s[n - 1][2] = N
  /\ \A t \in 0 .. n - 1 : 2 * (s[n - 1][2] - s[n - 1][1]) >= s[t][2] - s[t][1]

\* When a multiple of align fits, AlignedNSplit gives every thread whole
\* multiples, but for the end of the last.
THEOREM SplitIsAligned ==
  ASSUME NEW N \in Nat, NEW n \in Nat \ {0}, NEW align \in Nat,
         align > 1, n > 1, Widths(N, n, align) # {},
         NEW s, s = Spans(N, n, align)
  PROVE  IsAlignedSplit(N, n, align, s)
<1>1. PICK w \in Nat \ {0} : /\ w = Max(Widths(N, n, align))
                             /\ w \in Widths(N, n, align) /\ w * (n - 1) < N
      BY WidestFits
<1>2. PICK k \in Nat : w = align * k /\ 2 * (N - w * (n - 1)) >= w
  <2>1. PICK k \in 1 .. CeilDiv(CeilDiv(N, n), align) :
           w = align * k /\ 2 * (N - w * (n - 1)) >= w
        BY <1>1 DEF Widths
  <2>2. CeilDiv(CeilDiv(N, n), align) \in Nat
    <3>1. N + n - 1 \in Nat OBVIOUS
    <3>2. CeilDiv(N, n) \in Nat BY <3>1, DivBounds DEF CeilDiv
    <3>3. CeilDiv(N, n) + align - 1 \in Nat BY <3>2
    <3> QED BY <3>3, DivBounds DEF CeilDiv
  <2> QED BY <2>1, <2>2
<1>3. \A t \in 0 .. n - 1 :
        s[t][1] = w * t /\ s[t][2] = IF t < n - 1 THEN w * (t + 1) ELSE N
  <2>1. s = WideSpans(N, n, w) BY <1>1, SpansByCase
  <2> QED BY <2>1 DEF WideSpans
<1>4. \A t \in Nat : w * t = align * (k * t) /\ k * t \in Nat BY <1>2
<1>5. \A t \in Nat : w * (t + 1) = w * t + w /\ w * t \in Nat OBVIOUS
<1>6. n - 1 \in 0 .. n - 1 OBVIOUS
<1>7. ASSUME NEW t \in 0 .. n - 1 PROVE \E l \in Nat : s[t][1] = align * l
  <2>1. t \in Nat OBVIOUS
  <2>2. s[t][1] = align * (k * t) /\ k * t \in Nat BY <1>3, <1>4, <2>1
  <2>3. PICK l \in Nat : l = k * t BY <2>2
  <2> QED BY <2>2, <2>3
<1>8. ASSUME NEW t \in 0 .. n - 2 PROVE \E l \in Nat : s[t][2] = align * l
  <2>1. t \in 0 .. n - 1 /\ t < n - 1 /\ t + 1 \in Nat OBVIOUS
  <2>2. s[t][2] = w * (t + 1) BY <1>3, <2>1
  <2>3. w * (t + 1) = align * (k * (t + 1)) /\ k * (t + 1) \in Nat BY <1>4, <2>1
  <2>4. PICK l \in Nat : l = k * (t + 1) BY <2>3
  <2> QED BY <2>2, <2>3, <2>4
<1>9. s[n - 1][2] = N /\ s[n - 1][1] = w * (n - 1) BY <1>3, <1>6
<1>10. ASSUME NEW t \in 0 .. n - 1
       PROVE 2 * (s[n - 1][2] - s[n - 1][1]) >= s[t][2] - s[t][1]
  <2>1. CASE t < n - 1
    <3>1. s[t][2] - s[t][1] = w BY <1>3, <1>5, <2>1
    <3> QED BY <1>2, <1>9, <3>1
  <2>2. CASE t = n - 1
    <3>1. w * (n - 1) \in Nat BY <1>6
    <3> QED BY <1>1, <1>9, <2>2, <3>1
  <2> QED BY <2>1, <2>2
<1> QED BY <1>7, <1>8, <1>9, <1>10 DEF IsAlignedSplit

-----------------------------------------------------------------------------
(* Calls *)

\* A summarised call, as far as the planner reads it.
IsSummary(c) ==
  /\ c.threads \in Nat \ {0}
  /\ c.M \in Seq(Nat) /\ c.N \in Seq(Nat \ {0}) /\ Len(c.N) = Len(c.M) /\ Len(c.M) > 0
  /\ c.K \in Nat \ {0} /\ c.packNr \in Nat /\ c.backendAlign \in Nat
  /\ c.tight \in BOOLEAN /\ c.int8 \in BOOLEAN /\ c.env \in Tunings
  /\ c.maxN \in Nat \ {0} /\ c.maxM = MaxM(c)
  /\ c.ccdSize = CcdSize(c) /\ c.numCcds = NumCcds(c)

LEMMA ExpertsAreFinite ==
  ASSUME NEW c, IsSummary(c)
  PROVE  /\ IsFiniteSet(Experts(c)) /\ Cardinality(Experts(c)) = Len(c.M)
         /\ Ops(c) = Len(c.M) /\ Len(c.M) \in Nat /\ Experts(c) = 1 .. Len(c.M)
         /\ DOMAIN c.M = 1 .. Len(c.M)
         /\ \A e \in Experts(c) : e \in Nat /\ c.M[e] \in Nat /\ c.N[e] \in Nat \ {0}
         /\ Active(c) \subseteq Experts(c) /\ IsFiniteSet(Active(c))
<1>1. c.M \in Seq(Nat) /\ c.N \in Seq(Nat \ {0}) /\ Len(c.N) = Len(c.M) BY DEF IsSummary
<1>2. \A R, q : q \in Seq(R) =>
        Len(q) \in Nat /\ DOMAIN q = 1 .. Len(q) /\ \A e \in DOMAIN q : q[e] \in R
  OBVIOUS
<1>3. Len(c.M) \in Nat /\ DOMAIN c.M = 1 .. Len(c.M) /\ \A e \in DOMAIN c.M : c.M[e] \in Nat
  BY <1>1, <1>2, Zenon
<1>4. DOMAIN c.N = 1 .. Len(c.N) /\ \A e \in DOMAIN c.N : c.N[e] \in Nat \ {0}
  BY <1>1, <1>2, Zenon
<1>5. Experts(c) = 1 .. Len(c.M) /\ Ops(c) = Len(c.M) BY DEF Experts, Ops
<1>6. IsFiniteSet(1 .. Len(c.M)) /\ Cardinality(1 .. Len(c.M)) = Len(c.M)
  <2>1. PICK m \in Nat : m = Len(c.M) BY <1>3
  <2>2. (IF 1 > m THEN 0 ELSE m - 1 + 1) = m OBVIOUS
  <2> QED BY <2>1, <2>2, FS_Interval
<1>7. Active(c) \subseteq Experts(c) BY DEF Active
<1>8. IsFiniteSet(Active(c)) BY <1>5, <1>6, <1>7, FS_Subset
<1>9. \A e \in 1 .. Len(c.M) : e \in Nat BY <1>3
<1> QED BY <1>1, <1>3, <1>4, <1>5, <1>6, <1>7, <1>8, <1>9

\* A call has at least one expert.
LEMMA OpsIsPositive ==
  ASSUME NEW c, IsSummary(c)
  PROVE  Ops(c) \in Nat \ {0}
<1>1. PICK n \in Nat : n = Ops(c) /\ n = Len(c.M) BY ExpertsAreFinite
<1>2. Len(c.M) > 0 BY DEF IsSummary
<1> QED BY <1>1, <1>2

LEMMA AlignIsNat == ASSUME NEW c, IsSummary(c) PROVE NrAlign(c) \in Nat
<1>1. PICK p \in Nat : p = IF Fused(c) /\ c.tight /\ ~UseCustomAtGuard(c) THEN 2 ELSE 1
  OBVIOUS
<1> DEFINE S == {c.backendAlign, c.packNr, p}
<1>2. S \in SUBSET Nat /\ S # {} BY DEF IsSummary
<1>3. c.backendAlign + c.packNr + p \in Nat
      /\ \A x \in S : x <= c.backendAlign + c.packNr + p
  BY SMTT(20) DEF IsSummary
<1>4. Max(S) \in S BY <1>2, <1>3, MaxOfBounded
<1>5. NrAlign(c) = Max(S) BY <1>1 DEF NrAlign
<1> QED BY <1>2, <1>4, <1>5

LEMMA SummaryOfCall == ASSUME NEW c, IsCall(c) PROVE IsSummary(Summarised(c))
<1>1. PICK d : d = Summarised(c) OBVIOUS
<1>2. /\ c.threads \in Nat \ {0} /\ c.M \in Seq(Nat) /\ c.N \in Seq(Nat \ {0})
      /\ c.K \in Nat \ {0} /\ c.packNr \in Nat /\ c.backendAlign \in Nat
      /\ c.tight \in BOOLEAN /\ c.int8 \in BOOLEAN /\ c.env \in Tunings
      /\ Len(c.M) > 0 /\ Len(c.N) = Len(c.M)
  BY DEF IsCall
<1> DEFINE W == {c.N[e] : e \in Experts(c)}
<1>3. /\ d.threads = c.threads /\ d.M = c.M /\ d.N = c.N /\ d.K = c.K
      /\ d.packNr = c.packNr /\ d.backendAlign = c.backendAlign /\ d.tight = c.tight
      /\ d.int8 = c.int8 /\ d.env = c.env /\ d.maxN = Max(W) /\ d.maxM = MaxM(c)
      /\ d.ccdSize = CcdSize(c) /\ d.numCcds = NumCcds(c)
  BY <1>1 DEF Summarised
<1>4. CcdSize(d) = CcdSize(c) /\ NumCcds(d) = NumCcds(c) /\ MaxM(d) = MaxM(c)
  BY <1>3 DEF CcdSize, NumCcds, MaxM, Experts, Ops
<1>5. Max(W) \in Nat \ {0}
  <2>1. PICK q : q = c.N /\ q \in Seq(Nat \ {0}) BY <1>2
  <2>2. q \in Seq(Nat) /\ Len(q) \in Nat /\ DOMAIN q = 1 .. Len(q)
        /\ \A i \in DOMAIN q : q[i] \in Nat \ {0}
    BY <2>1
  <2>3. PICK b \in Nat : \A i \in DOMAIN q : q[i] <= b BY <2>2, SeqIsBounded
  <2>4. Experts(c) = DOMAIN q BY <1>2, <2>1, <2>2 DEF Experts, Ops
  <2>5. W \in SUBSET (Nat \ {0}) /\ \A x \in W : x <= b BY <2>1, <2>2, <2>3, <2>4
  <2>6. 1 \in DOMAIN q BY <1>2, <2>1, <2>2
  <2>7. W # {} BY <2>1, <2>4, <2>6
  <2> HIDE DEF W
  <2> QED BY <2>5, <2>7, MaxOfBounded
<1> HIDE DEF W
<1>6. IsSummary(d)
  BY <1>2, <1>3, <1>4, <1>5 DEF IsSummary
<1> QED BY <1>1, <1>6

-----------------------------------------------------------------------------
(* Seats and work lists *)

\* Flattening lists of at most one item keeps the items: place k of the
\* result is the item of list p[k], and no other list's.
FlattenedBy(w, p, L, m, T) ==
  /\ w \in Seq(T)
  /\ p \in [1 .. Len(w) -> 1 .. m] /\ \A k \in 1 .. Len(w) : L[p[k]] = <<w[k]>>
  /\ \A k, l \in 1 .. Len(w) : p[k] = p[l] => k = l
  /\ \A i \in 1 .. m : L[i] # <<>> => \E k \in 1 .. Len(w) : p[k] = i

ShortLists(L, m, T) == \A i \in 1 .. m : L[i] = <<>> \/ \E x \in T : L[i] = <<x>>

LEMMA FlattenOneMore ==
  ASSUME NEW L, NEW T, NEW m \in Nat, NEW w, NEW p, FlattenedBy(w, p, L, m, T),
         ShortLists(L, m + 1, T)
  PROVE  \E q : FlattenedBy(w \o L[m + 1], q, L, m + 1, T)
<1>1. PICK n \in Nat : n = Len(w) /\ w \in Seq(T) /\ p \in [1 .. n -> 1 .. m]
  <2>1. \A R, q : q \in Seq(R) => Len(q) \in Nat OBVIOUS
  <2>2. w \in Seq(T) /\ p \in [1 .. Len(w) -> 1 .. m] BY DEF FlattenedBy
  <2>3. Len(w) \in Nat BY <2>1, <2>2, Zenon
  <2> QED BY <2>2, <2>3
<1>2. L[m + 1] = <<>> \/ \E x \in T : L[m + 1] = <<x>>
  BY DEF ShortLists
<1>3. CASE L[m + 1] = <<>>
  <2>1. PICK v : v = w \o <<>> OBVIOUS
  <2>2. v = w BY <1>1, <2>1
  <2>3. p \in [1 .. n -> 1 .. m + 1] BY <1>1
  <2>4. \A i \in 1 .. m + 1 : i \in 1 .. m \/ i = m + 1 OBVIOUS
  <2>5. FlattenedBy(v, p, L, m + 1, T) BY <1>1, <1>3, <2>2, <2>3, <2>4 DEF FlattenedBy
  <2> QED BY <1>3, <2>1, <2>5
<1>4. ASSUME NEW x \in T, L[m + 1] = <<x>>
      PROVE  \E q : FlattenedBy(w \o L[m + 1], q, L, m + 1, T)
  <2>1. PICK v : v = w \o <<x>> OBVIOUS
  <2>2. /\ v \in Seq(T) /\ Len(v) = n + 1 /\ v[n + 1] = x
        /\ \A k \in 1 .. n : v[k] = w[k]
    BY <1>1, <2>1
  <2>3. PICK q : q = [k \in 1 .. n + 1 |-> IF k = n + 1 THEN m + 1 ELSE p[k]] OBVIOUS
  <2>4. /\ \A k \in 1 .. n + 1 : k \in 1 .. n \/ k = n + 1
        /\ \A i \in 1 .. m + 1 : i \in 1 .. m \/ i = m + 1
        /\ m + 1 \notin 1 .. m /\ n + 1 \in 1 .. n + 1 /\ 1 .. n \subseteq 1 .. n + 1
    <3> USE n \in Nat, m \in Nat
    <3>1. \A j \in Nat : \A k \in 1 .. j + 1 : k \in 1 .. j \/ k = j + 1 OBVIOUS
    <3>2. \A j \in Nat : j + 1 \in 1 .. j + 1 /\ j + 1 \notin 1 .. j OBVIOUS
    <3>3. \A j \in Nat : 1 .. j \subseteq 1 .. j + 1 OBVIOUS
    <3> QED BY <3>1, <3>2, <3>3, Zenon
  <2>5. /\ q \in [1 .. n + 1 -> 1 .. m + 1] /\ q[n + 1] = m + 1
        /\ \A k \in 1 .. n : q[k] = p[k] /\ q[k] \in 1 .. m
    <3>1. \A k \in 1 .. n : p[k] \in 1 .. m BY <1>1
    <3>2. n + 1 \notin 1 .. n OBVIOUS
    <3>3. \A k \in 1 .. n : q[k] = p[k] BY <2>3, <2>4, <3>2
    <3>4. q[n + 1] = m + 1 BY <2>3, <2>4
    <3>5. 1 .. m \subseteq 1 .. m + 1 /\ m + 1 \in 1 .. m + 1 OBVIOUS
    <3>6. \A k \in 1 .. n + 1 : q[k] \in 1 .. m + 1
      BY <2>4, <3>1, <3>3, <3>4, <3>5, Zenon
    <3>7. DOMAIN q = 1 .. n + 1 /\ q = [k \in 1 .. n + 1 |-> q[k]] BY <2>3, Zenon
    <3>8. q \in [1 .. n + 1 -> 1 .. m + 1] BY <3>6, <3>7, Zenon
    <3> QED BY <3>1, <3>3, <3>4, <3>8, Zenon
  <2>6. \A k \in 1 .. n + 1 : L[q[k]] = <<v[k]>>
    BY <1>1, <1>4, <2>2, <2>4, <2>5 DEF FlattenedBy
  <2>7. \A k, l \in 1 .. n + 1 : q[k] = q[l] => k = l
    BY <1>1, <2>4, <2>5 DEF FlattenedBy
  <2>8. \A i \in 1 .. m + 1 : L[i] # <<>> => \E k \in 1 .. n + 1 : q[k] = i
    BY <1>1, <2>4, <2>5 DEF FlattenedBy
  <2>9. FlattenedBy(v, q, L, m + 1, T)
    BY <2>2, <2>5, <2>6, <2>7, <2>8 DEF FlattenedBy
  <2> QED BY <1>4, <2>1, <2>9
<1> QED BY <1>2, <1>3, <1>4

\* FlattenSeq's recursion is one that a function satisfies.
FlattenRec(g, L, m) ==
  g = [i \in 1 .. m |-> IF i = 1 THEN L[i] ELSE g[i - 1] \o L[i]]

LEMMA FlattenDefined ==
  ASSUME NEW L PROVE \A m \in Nat : \E g : FlattenRec(g, L, m)
<1> DEFINE S == {m \in Nat : \E g : FlattenRec(g, L, m)}
<1>1. 0 \in S
  <2>1. PICK g : g = [i \in 1 .. 0 |-> L[i]] OBVIOUS
  <2>2. FlattenRec(g, L, 0) BY <2>1 DEF FlattenRec
  <2> QED BY <2>2
<1>2. ASSUME NEW m \in Nat, m \in S PROVE m + 1 \in S
  <2>1. PICK g : FlattenRec(g, L, m) BY <1>2
  <2>2. PICK h : h = [i \in 1 .. m + 1 |->
                        IF i = m + 1 THEN (IF i = 1 THEN L[i] ELSE g[m] \o L[i]) ELSE g[i]]
        OBVIOUS
  <2>3. \A i \in 1 .. m + 1 : h[i] = IF i = 1 THEN L[i] ELSE h[i - 1] \o L[i]
    <3> SUFFICES ASSUME NEW i \in 1 .. m + 1
                 PROVE  h[i] = IF i = 1 THEN L[i] ELSE h[i - 1] \o L[i]
        OBVIOUS
    <3>1. CASE i = m + 1
      <4>1. i # 1 => m \in 1 .. m + 1 /\ m # m + 1 /\ i - 1 = m BY <3>1
      <4>2. i # 1 => h[m] = g[m] BY <2>2, <4>1
      <4> QED BY <2>2, <3>1, <4>1, <4>2
    <3>2. CASE i # m + 1
      <4>1. i \in 1 .. m BY <3>2
      <4>2. g[i] = IF i = 1 THEN L[i] ELSE g[i - 1] \o L[i] BY <2>1, <4>1 DEF FlattenRec
      <4>3. h[i] = g[i] BY <2>2, <3>2
      <4>4. i # 1 => i - 1 \in 1 .. m + 1 /\ i - 1 # m + 1 BY <4>1
      <4>5. i # 1 => h[i - 1] = g[i - 1] BY <2>2, <4>4
      <4> QED BY <4>2, <4>3, <4>5
    <3> QED BY <3>1, <3>2
  <2>4. h = [i \in 1 .. m + 1 |-> h[i]] BY <2>2
  <2>5. FlattenRec(h, L, m + 1) BY <2>3, <2>4 DEF FlattenRec
  <2>6. m + 1 \in Nat OBVIOUS
  <2> QED BY <2>5, <2>6
<1> HIDE DEF S
<1>3. \A m \in Nat : m \in S BY <1>1, <1>2, SetInduction
<1> QED BY <1>3 DEF S

IsList(L, m) == L = [i \in 1 .. m |-> L[i]]

LEMMA FlattenKeepsItems ==
  ASSUME NEW T, NEW L, NEW m \in Nat, IsList(L, m), ShortLists(L, m, T)
  PROVE  \E p : FlattenedBy(FlattenSeq(L), p, L, m, T)
<1>a. DOMAIN L = 1 .. m /\ Len(L) = m
  <2>1. PICK g : g = [i \in 1 .. m |-> L[i]] OBVIOUS
  <2>2. DOMAIN g = 1 .. m /\ Len(g) = m BY <2>1
  <2>3. L = g BY <2>1 DEF IsList
  <2> QED BY <2>2, <2>3
<1>b. CASE m = 0
  <2>1. L = <<>> /\ Len(L) = 0
    <3>1. PICK g : g = [i \in 1 .. 0 |-> L[i]] OBVIOUS
    <3>2. g = <<>> BY <3>1
    <3>3. L = g BY <1>b, <3>1 DEF IsList
    <3> QED BY <1>a, <1>b, <3>2, <3>3
  <2>2. FlattenSeq(L) = L BY <2>1 DEF FlattenSeq
  <2>3. PICK p : p = [k \in 1 .. 0 |-> 1] OBVIOUS
  <2>4. L \in Seq(T)
    <3>1. <<>> \in Seq(T) OBVIOUS
    <3> QED BY <2>1, <3>1, Zenon
  <2>5. FlattenedBy(L, p, L, m, T) BY <1>b, <2>1, <2>3, <2>4 DEF FlattenedBy
  <2> QED BY <2>2, <2>5
<1> SUFFICES ASSUME m # 0 PROVE \E p : FlattenedBy(FlattenSeq(L), p, L, m, T) BY <1>b
<1>1. FlattenSeq(L) = (CHOOSE g : FlattenRec(g, L, m))[m] BY <1>a DEF FlattenSeq, FlattenRec
<1>2. PICK g : FlattenRec(g, L, m) /\ FlattenSeq(L) = g[m] BY <1>1, FlattenDefined
<1>3. \A i \in 1 .. m : g[i] = IF i = 1 THEN L[i] ELSE g[i - 1] \o L[i]
  BY <1>2 DEF FlattenRec
<1> DEFINE S == {k \in Nat : k + 1 <= m => \E p : FlattenedBy(g[k + 1], p, L, k + 1, T)}
<1>4. 0 \in S
  <2>1. PICK p : p = [k \in 1 .. 0 |-> 1] OBVIOUS
  <2>2. PICK e : e = <<>> /\ e \in Seq(T) /\ Len(e) = 0
    <3>1. <<>> \in Seq(T) /\ Len(<<>>) = 0 OBVIOUS
    <3> QED BY <3>1, Zenon
  <2>3. FlattenedBy(e, p, L, 0, T) BY <2>1, <2>2 DEF FlattenedBy
  <2>4. ShortLists(L, 1, T) BY DEF ShortLists
  <2>5. \E q : FlattenedBy(e \o L[0 + 1], q, L, 0 + 1, T)
    <3>1. ShortLists(L, 0 + 1, T) BY <2>4
    <3> QED BY <2>3, <3>1, FlattenOneMore
  <2>6. g[1] = L[1] BY <1>3
  <2>7. e \o L[1] = L[1]
    <3>1. L[1] = <<>> \/ \E x \in T : L[1] = <<x>> BY DEF ShortLists
    <3>2. \A x : <<>> \o <<x>> = <<x>> OBVIOUS
    <3>3. <<>> \o <<>> = <<>> OBVIOUS
    <3> QED BY <2>2, <3>1, <3>2, <3>3, Zenon
  <2>8. \E q : FlattenedBy(g[1], q, L, 1, T)
    <3>1. 0 + 1 = 1 OBVIOUS
    <3>2. PICK q : FlattenedBy(e \o L[1], q, L, 1, T) BY <2>5, <3>1
    <3> QED BY <2>6, <2>7, <3>2
  <2> QED BY <2>8
<1>5. ASSUME NEW k \in Nat, k \in S PROVE k + 1 \in S
  <2> SUFFICES ASSUME k + 2 <= m PROVE \E p : FlattenedBy(g[k + 2], p, L, k + 2, T) OBVIOUS
  <2>1. PICK p : FlattenedBy(g[k + 1], p, L, k + 1, T) BY <1>5
  <2>2. ShortLists(L, k + 2, T) BY DEF ShortLists
  <2>3. (k + 1) + 1 = k + 2 /\ k + 1 \in Nat OBVIOUS
  <2>4. \E q : FlattenedBy(g[k + 1] \o L[k + 2], q, L, k + 2, T)
    BY <2>1, <2>2, <2>3, FlattenOneMore
  <2>5. g[k + 2] = g[k + 1] \o L[k + 2]
    <3>1. k + 2 \in 1 .. m /\ k + 2 # 1 /\ (k + 2) - 1 = k + 1 OBVIOUS
    <3> QED BY <1>3, <3>1
  <2> QED BY <2>4, <2>5
<1> HIDE DEF S
<1>6. \A k \in Nat : k \in S BY <1>4, <1>5, SetInduction
<1>7. m - 1 \in Nat /\ (m - 1) + 1 = m OBVIOUS
<1> QED BY <1>2, <1>6, <1>7 DEF S

\* The place of seat x's expert in a round's work: the slice of thread
\* x.local, for an active expert whose n[x.e] threads include it.
Slice(span, x) ==
  [e |-> x.e, lo |-> span[x.e][x.local][1], hi |-> span[x.e][x.local][2]]
Works(M, n, span, x) ==
  /\ M[x.e] > 0 /\ x.local < n[x.e]
  /\ span[x.e][x.local][1] < span[x.e][x.local][2]
Piece(M, n, span, x) == IF Works(M, n, span, x) THEN <<Slice(span, x)>> ELSE <<>>
WorkFrom(S, M, n, span) ==
  [r \in DOMAIN S |-> [t \in DOMAIN S[r] |->
      FlattenSeq([i \in DOMAIN S[r][t] |-> Piece(M, n, span, S[r][t][i])])]]

\* S seats, in round home[e], a thread at each of the team[e] places of every
\* active expert e, and no two threads, nor one thread twice, at one place.
SeatsAreExperts(S, E, team, home) ==
  /\ team \in [E -> Nat \ {0}] /\ Len(S) \in Nat \ {0} /\ DOMAIN S = 1 .. Len(S)
  /\ \A r \in DOMAIN S : DOMAIN S[r] = DOMAIN S[1]
  /\ \A r \in DOMAIN S : \A t \in DOMAIN S[1] :
        /\ Len(S[r][t]) \in Nat /\ DOMAIN S[r][t] = 1 .. Len(S[r][t])
        /\ \A i \in DOMAIN S[r][t] :
              /\ S[r][t][i].e \in E /\ S[r][t][i].local \in Nat
              /\ S[r][t][i].team = team[S[r][t][i].e] /\ home[S[r][t][i].e] = r
SeatsAreApart(S) ==
  \A r, q \in DOMAIN S : \A t, u \in DOMAIN S[1] :
    \A i \in DOMAIN S[r][t] : \A k \in DOMAIN S[q][u] :
      S[r][t][i].e = S[q][u][k].e /\ S[r][t][i].local = S[q][u][k].local
        => r = q /\ t = u /\ i = k
SeatsAreTaken(S, A, team) ==
  \A e \in A : \A l \in 0 .. team[e] - 1 :
    \E r \in DOMAIN S : \E t \in DOMAIN S[1] : \E i \in DOMAIN S[r][t] :
      S[r][t][i].e = e /\ S[r][t][i].local = l
SeatsFit(c, S, team, home) ==
  /\ SeatsAreExperts(S, Experts(c), team, home)
  /\ SeatsAreApart(S)
  /\ SeatsAreTaken(S, Active(c), team)

SpansFit(c, n, width, span) ==
  \A e \in Experts(c) :
    width[e] \in Nat /\ n[e] \in Nat /\ IsSplit(width[e], n[e], span[e])
Shaped(s, c, S) ==
  s.M = c.M /\ DOMAIN s.tiles = DOMAIN S /\ DOMAIN s.tiles[1] = DOMAIN S[1]
InHome(S, work, home) ==
  \A r \in DOMAIN work : \A t \in DOMAIN S[1] : \A k \in DOMAIN work[r][t] :
    home[work[r][t][k].e] = r
TeamsHold(c, n, team) == \A e \in Experts(c) : n[e] <= team[e]

\* w is the slices of those of the seats b that have some: item k is seat
\* p[k]'s.
WorkedBy(M, n, span, b, w, p) ==
  /\ p \in [DOMAIN w -> DOMAIN b]
  /\ \A k \in DOMAIN w : Works(M, n, span, b[p[k]]) /\ w[k] = Slice(span, b[p[k]])
  /\ \A k, l \in DOMAIN w : p[k] = p[l] => k = l
  /\ \A i \in DOMAIN b : Works(M, n, span, b[i]) => \E k \in DOMAIN w : p[k] = i

\* A thread's work in a round is the slices of those of its seats that have
\* some, each once.
LEMMA WorkOfThread ==
  ASSUME NEW c, IsSummary(c), NEW S, NEW team, NEW home, SeatsFit(c, S, team, home),
         NEW n, NEW width, NEW span,
         SpansFit(c, n, width, span),
         NEW r \in DOMAIN S, NEW t \in DOMAIN S[1],
         NEW w, w = WorkFrom(S, c.M, n, span)[r][t]
  PROVE  /\ Len(w) \in Nat /\ DOMAIN w = 1 .. Len(w)
         /\ \E p : WorkedBy(c.M, n, span, S[r][t], w, p)
<1>1. PICK b, m : b = S[r][t] /\ m \in Nat /\ m = Len(b) /\ DOMAIN b = 1 .. m
  BY DEF SeatsFit, SeatsAreExperts
<1>2. \A i \in 1 .. m : b[i].e \in Experts(c) /\ b[i].local \in Nat
  BY <1>1 DEF SeatsFit, SeatsAreExperts
<1>3. PICK L : L = [i \in 1 .. m |-> Piece(c.M, n, span, b[i])] OBVIOUS
<1>4. w = FlattenSeq(L)
  <2>1. DOMAIN S[r] = DOMAIN S[1] BY DEF SeatsFit, SeatsAreExperts
  <2> QED BY <1>1, <1>3, <2>1 DEF WorkFrom
<1> DEFINE T == [e : Experts(c), lo : Nat, hi : Nat]
<1>5. ASSUME NEW i \in 1 .. m
      PROVE  \/ Works(c.M, n, span, b[i]) /\ L[i] = <<Slice(span, b[i])>>
                /\ Slice(span, b[i]) \in T
             \/ ~Works(c.M, n, span, b[i]) /\ L[i] = <<>>
  <2>1. CASE Works(c.M, n, span, b[i])
    <3>1. L[i] = <<Slice(span, b[i])>> BY <1>3, <2>1 DEF Piece
    <3>2. PICK e \in Experts(c), l \in Nat : e = b[i].e /\ l = b[i].local BY <1>2
    <3>3. l \in 0 .. n[e] - 1 BY <2>1, <3>2 DEF Works, SpansFit
    <3>4. span[e][l][1] \in Nat /\ span[e][l][2] \in Nat BY <3>2, <3>3 DEF IsSplit, SpansFit
    <3>5. Slice(span, b[i]) \in T BY <3>2, <3>4 DEF Slice
    <3> QED BY <2>1, <3>1, <3>5
  <2>2. CASE ~Works(c.M, n, span, b[i]) BY <1>3, <2>2 DEF Piece
  <2> QED BY <2>1, <2>2
<1> HIDE DEF T
<1>6. IsList(L, m)
  <2>1. \A i \in 1 .. m : L[i] = Piece(c.M, n, span, b[i]) BY <1>3
  <2> QED BY <1>3, <2>1 DEF IsList
<1>7. ShortLists(L, m, T) BY <1>5 DEF ShortLists
<1>8. PICK p : FlattenedBy(w, p, L, m, T) BY <1>1, <1>4, <1>6, <1>7, FlattenKeepsItems
<1>9. Len(w) \in Nat /\ DOMAIN w = 1 .. Len(w)
  <2>1. \A R, q : q \in Seq(R) => Len(q) \in Nat /\ DOMAIN q = 1 .. Len(q) OBVIOUS
  <2>2. w \in Seq(T) BY <1>8 DEF FlattenedBy
  <2> QED BY <2>1, <2>2, Zenon
<1>10. \A x : <<x>> # <<>> OBVIOUS
<1>11. \A x, y : <<x>> = <<y>> => x = y OBVIOUS
<1>12. p \in [DOMAIN w -> DOMAIN b] BY <1>1, <1>8, <1>9 DEF FlattenedBy
<1>13. ASSUME NEW k \in DOMAIN w
       PROVE  Works(c.M, n, span, b[p[k]]) /\ w[k] = Slice(span, b[p[k]])
  <2>1. p[k] \in 1 .. m /\ L[p[k]] = <<w[k]>> BY <1>8, <1>9 DEF FlattenedBy
  <2>2. L[p[k]] # <<>> BY <1>10, <2>1
  <2>3. Works(c.M, n, span, b[p[k]]) /\ L[p[k]] = <<Slice(span, b[p[k]])>>
        BY <1>5, <2>1, <2>2
  <2> QED BY <1>11, <2>1, <2>3
<1>14. \A k, l \in DOMAIN w : p[k] = p[l] => k = l BY <1>8, <1>9 DEF FlattenedBy
<1>15. ASSUME NEW i \in DOMAIN b, Works(c.M, n, span, b[i])
       PROVE \E k \in DOMAIN w : p[k] = i
  <2>1. i \in 1 .. m BY <1>1
  <2>2. L[i] # <<>> BY <1>5, <1>10, <1>15, <2>1
  <2> QED BY <1>8, <1>9, <2>1, <2>2 DEF FlattenedBy
<1>16. WorkedBy(c.M, n, span, b, w, p) BY <1>12, <1>13, <1>14, <1>15 DEF WorkedBy
<1> QED BY <1>1, <1>9, <1>16

\* A slice that works is a range of an active expert, and those of different
\* places are apart.
LEMMA SlicesWork ==
  ASSUME NEW c, IsSummary(c), NEW n, NEW width, NEW span,
         SpansFit(c, n, width, span),
         NEW x, x.e \in Experts(c), x.local \in Nat, Works(c.M, n, span, x),
         NEW v, v = Slice(span, x)
  PROVE  /\ v.e = x.e /\ v.e \in DOMAIN c.M /\ c.M[v.e] > 0
         /\ v.lo \in Nat /\ v.hi \in Nat /\ v.lo < v.hi /\ v.hi <= width[v.e]
         /\ \A y : y.e \in Experts(c) /\ y.local \in Nat /\ Works(c.M, n, span, y)
                  /\ ~(x.e = y.e /\ x.local = y.local) => Apart(v, Slice(span, y))
<1>1. PICK e, l : e \in Experts(c) /\ l \in Nat /\ e = x.e /\ l = x.local OBVIOUS
<1>2. IsSplit(width[e], n[e], span[e]) /\ n[e] \in Nat BY <1>1 DEF SpansFit
<1>3. c.M[e] > 0 /\ l < n[e] /\ span[e][l][1] < span[e][l][2] BY <1>1 DEF Works
<1>4. l \in 0 .. n[e] - 1 BY <1>1, <1>2, <1>3
<1>5. span[e][l][1] \in Nat /\ span[e][l][2] \in Nat /\ span[e][l][2] <= width[e]
  BY <1>2, <1>4 DEF IsSplit
<1>6. DOMAIN c.M = Experts(c) BY ExpertsAreFinite
<1>7. v.e = e /\ v.lo = span[e][l][1] /\ v.hi = span[e][l][2] BY <1>1 DEF Slice
<1>8. ASSUME NEW y, y.e \in Experts(c), y.local \in Nat, Works(c.M, n, span, y),
             ~(x.e = y.e /\ x.local = y.local)
      PROVE  Apart(v, Slice(span, y))
  <2>0. PICK u : u = Slice(span, y) OBVIOUS
  <2>1. u.e = y.e /\ u.lo = span[y.e][y.local][1] /\ u.hi = span[y.e][y.local][2]
        BY <2>0 DEF Slice
  <2>2. CASE y.e # e BY <1>7, <2>0, <2>1, <2>2 DEF Apart
  <2>3. CASE y.e = e
    <3>1. PICK k \in Nat : k = y.local /\ k # l /\ k < n[e]
          BY <1>1, <1>8, <2>3 DEF Works
    <3>2. k \in 0 .. n[e] - 1 BY <1>2, <3>1
    <3>3. u.lo = span[e][k][1] /\ u.hi = span[e][k][2] BY <2>1, <2>3, <3>1
    <3>4. k < l \/ l < k BY <1>1, <3>1
    <3>5. span[e][k][2] <= span[e][l][1] \/ span[e][l][2] <= span[e][k][1]
      BY <1>2, <1>4, <3>2, <3>4 DEF IsSplit
    <3> QED BY <1>7, <2>0, <2>1, <3>3, <3>5 DEF Apart
  <2> QED BY <2>2, <2>3
<1>9. /\ v.e = x.e /\ v.e \in DOMAIN c.M /\ c.M[v.e] > 0
      /\ v.lo \in Nat /\ v.hi \in Nat /\ v.lo < v.hi /\ v.hi <= width[v.e]
  BY <1>1, <1>3, <1>5, <1>6, <1>7
<1> QED BY <1>8, <1>9

\* So when the seats fit, the work made of them holds each column, or each
\* row, of every active expert once, and an expert's in one round.
LEMMA SeatedPartitions ==
  ASSUME NEW c, IsSummary(c), NEW S, NEW team, NEW home, SeatsFit(c, S, team, home),
         NEW n, NEW width, NEW span,
         SpansFit(c, n, width, span), TeamsHold(c, n, team),
         NEW s, Shaped(s, c, S), NEW work, work = WorkFrom(S, c.M, n, span)
  PROVE  Partitions(s, work, width) /\ InHome(S, work, home)
<1> USE DEF Shaped, InHome
<1>1. /\ DOMAIN work = DOMAIN S
      /\ \A r \in DOMAIN S : DOMAIN S[r] = DOMAIN S[1] /\ DOMAIN work[r] = DOMAIN S[1]
      /\ 1 \in DOMAIN S
  <2>1. /\ \A r \in DOMAIN S : DOMAIN S[r] = DOMAIN S[1]
        /\ Len(S) \in Nat \ {0} /\ DOMAIN S = 1 .. Len(S)
    BY DEF SeatsFit, SeatsAreExperts
  <2> QED BY <2>1 DEF WorkFrom
<1> DEFINE At(r, t) == work[r][t]
<1>2. ASSUME NEW r \in DOMAIN S, NEW t \in DOMAIN S[1]
      PROVE  /\ Len(At(r, t)) \in Nat /\ DOMAIN At(r, t) = 1 .. Len(At(r, t))
             /\ \E p : WorkedBy(c.M, n, span, S[r][t], At(r, t), p)
  <2>1. PICK w : w = WorkFrom(S, c.M, n, span)[r][t] OBVIOUS
  <2>2. /\ Len(w) \in Nat /\ DOMAIN w = 1 .. Len(w)
        /\ \E p : WorkedBy(c.M, n, span, S[r][t], w, p)
    BY <2>1, WorkOfThread
  <2> QED BY <2>1, <2>2
<1> HIDE DEF At
<1>3. \A r \in DOMAIN S, t \in DOMAIN S[1] : \A i \in DOMAIN S[r][t] :
        /\ S[r][t][i].e \in Experts(c) /\ S[r][t][i].local \in Nat
        /\ home[S[r][t][i].e] = r
  BY DEF SeatsFit, SeatsAreExperts
<1>4. ASSUME NEW r \in DOMAIN S, NEW t \in DOMAIN S[1], NEW k \in DOMAIN At(r, t)
      PROVE  /\ At(r, t)[k].e \in DOMAIN s.M /\ s.M[At(r, t)[k].e] > 0
             /\ At(r, t)[k].lo \in Nat /\ At(r, t)[k].hi \in Nat
             /\ At(r, t)[k].lo < At(r, t)[k].hi
             /\ At(r, t)[k].hi <= width[At(r, t)[k].e]
             /\ home[At(r, t)[k].e] = r
  <2>0. PICK p : WorkedBy(c.M, n, span, S[r][t], At(r, t), p) BY <1>2
  <2>1. PICK i \in DOMAIN S[r][t] : Works(c.M, n, span, S[r][t][i])
                                    /\ At(r, t)[k] = Slice(span, S[r][t][i])
        BY <2>0 DEF WorkedBy
  <2>2. PICK x : x = S[r][t][i] /\ x.e \in Experts(c) /\ x.local \in Nat /\ home[x.e] = r
        BY <1>3
  <2>3. Works(c.M, n, span, x) /\ At(r, t)[k] = Slice(span, x) BY <2>1, <2>2
  <2>4. PICK v : v = Slice(span, x) OBVIOUS
  <2>5. /\ v.e = x.e /\ v.e \in DOMAIN c.M /\ c.M[v.e] > 0
        /\ v.lo \in Nat /\ v.hi \in Nat /\ v.lo < v.hi /\ v.hi <= width[v.e]
    BY <2>2, <2>3, <2>4, SlicesWork
  <2> QED BY <2>2, <2>3, <2>4, <2>5
<1>5. ASSUME NEW r \in DOMAIN S, NEW q \in DOMAIN S, NEW t \in DOMAIN S[1],
             NEW u \in DOMAIN S[1], NEW k \in DOMAIN At(r, t), NEW l \in DOMAIN At(q, u),
             <<r, t, k>> # <<q, u, l>>
      PROVE  Apart(At(r, t)[k], At(q, u)[l])
  <2>1. \E i \in DOMAIN S[r][t], j \in DOMAIN S[q][u] :
          /\ Works(c.M, n, span, S[r][t][i]) /\ At(r, t)[k] = Slice(span, S[r][t][i])
          /\ Works(c.M, n, span, S[q][u][j]) /\ At(q, u)[l] = Slice(span, S[q][u][j])
          /\ ~(r = q /\ t = u /\ i = j)
    <3>1. CASE r = q /\ t = u
      <4>1. PICK p : WorkedBy(c.M, n, span, S[r][t], At(r, t), p) BY <1>2
      <4>2. l \in DOMAIN At(r, t) /\ k # l BY <1>5, <3>1
      <4>3. p[k] # p[l] /\ p[k] \in DOMAIN S[r][t] /\ p[l] \in DOMAIN S[r][t] BY <4>1, <4>2 DEF WorkedBy
      <4> QED BY <3>1, <4>1, <4>2, <4>3 DEF WorkedBy
    <3>2. CASE ~(r = q /\ t = u)
      <4>1. PICK i \in DOMAIN S[r][t] :
               Works(c.M, n, span, S[r][t][i]) /\ At(r, t)[k] = Slice(span, S[r][t][i])
        <5>1. PICK p : WorkedBy(c.M, n, span, S[r][t], At(r, t), p) BY <1>2
        <5> QED BY <5>1 DEF WorkedBy
      <4>2. PICK j \in DOMAIN S[q][u] :
               Works(c.M, n, span, S[q][u][j]) /\ At(q, u)[l] = Slice(span, S[q][u][j])
        <5>1. PICK p : WorkedBy(c.M, n, span, S[q][u], At(q, u), p) BY <1>2
        <5> QED BY <5>1 DEF WorkedBy
      <4> QED BY <3>2, <4>1, <4>2
    <3> QED BY <3>1, <3>2
  <2>2. PICK i \in DOMAIN S[r][t], j \in DOMAIN S[q][u] :
          /\ Works(c.M, n, span, S[r][t][i]) /\ At(r, t)[k] = Slice(span, S[r][t][i])
          /\ Works(c.M, n, span, S[q][u][j]) /\ At(q, u)[l] = Slice(span, S[q][u][j])
          /\ ~(r = q /\ t = u /\ i = j)
        BY <2>1
  <2>3. PICK x, y : /\ x = S[r][t][i] /\ x.e \in Experts(c) /\ x.local \in Nat
                    /\ y = S[q][u][j] /\ y.e \in Experts(c) /\ y.local \in Nat
        BY <1>3
  <2>4. ~(x.e = y.e /\ x.local = y.local) BY <2>2, <2>3 DEF SeatsFit, SeatsAreApart
  <2>5. Works(c.M, n, span, x) /\ Works(c.M, n, span, y) BY <2>2, <2>3
  <2>6. Apart(Slice(span, x), Slice(span, y)) BY <2>3, <2>4, <2>5, SlicesWork
  <2> QED BY <2>2, <2>3, <2>6
<1>6. ASSUME NEW e \in DOMAIN s.M, s.M[e] > 0, NEW z \in 0 .. width[e] - 1
      PROVE  \E r \in DOMAIN S : \E t \in DOMAIN S[1] : \E k \in DOMAIN At(r, t) :
               Holds(At(r, t)[k], e, z)
  <2>1. e \in Active(c) /\ e \in Experts(c) BY <1>6, ExpertsAreFinite DEF Active
  <2>2. IsSplit(width[e], n[e], span[e]) /\ n[e] \in Nat /\ width[e] \in Nat
        /\ n[e] <= team[e] /\ team[e] \in Nat
    BY <2>1 DEF SeatsFit, SeatsAreExperts, SpansFit, TeamsHold
  <2>3. PICK l \in 0 .. n[e] - 1 : span[e][l][1] <= z /\ z < span[e][l][2]
        BY <2>2 DEF IsSplit
  <2>4. l \in Nat /\ l < n[e] /\ l \in 0 .. team[e] - 1 BY <2>2
  <2>5. PICK r \in DOMAIN S, t \in DOMAIN S[1] :
          \E i \in DOMAIN S[r][t] : S[r][t][i].e = e /\ S[r][t][i].local = l
        BY <2>1, <2>4 DEF SeatsFit, SeatsAreTaken
  <2>6. PICK i \in DOMAIN S[r][t] : S[r][t][i].e = e /\ S[r][t][i].local = l BY <2>5
  <2>7. span[e][l][1] < span[e][l][2]
    <3>1. span[e][l][1] \in Nat /\ span[e][l][2] \in Nat BY <2>2, <2>3 DEF IsSplit
    <3>2. z \in Nat BY <2>2
    <3>3. \A a, b, y \in Nat : a <= y /\ y < b => a < b OBVIOUS
    <3> QED BY <2>3, <3>1, <3>2, <3>3, Zenon
  <2>8. Works(c.M, n, span, S[r][t][i]) BY <1>6, <2>4, <2>6, <2>7 DEF Works
  <2>9. PICK k \in DOMAIN At(r, t) : At(r, t)[k] = Slice(span, S[r][t][i])
    <3>1. PICK p : WorkedBy(c.M, n, span, S[r][t], At(r, t), p) BY <1>2
    <3> QED BY <2>8, <3>1 DEF WorkedBy
  <2>10. Holds(At(r, t)[k], e, z) BY <2>3, <2>6, <2>9 DEF Holds, Slice
  <2> QED BY <2>10
<1>7. Partitions(s, work, width)
  <2>1. \A r \in DOMAIN work :
          /\ DOMAIN work[r] = DOMAIN s.tiles[1]
          /\ \A t \in DOMAIN work[r] :
              /\ Len(work[r][t]) \in Nat /\ DOMAIN work[r][t] = 1 .. Len(work[r][t])
              /\ \A i \in DOMAIN work[r][t] :
                  LET x == work[r][t][i]
                  IN  /\ x.e \in DOMAIN s.M /\ s.M[x.e] > 0
                      /\ x.lo \in Nat /\ x.hi \in Nat /\ x.lo < x.hi /\ x.hi <= width[x.e]
    BY <1>1, <1>2, <1>4 DEF At
  <2>2. \A r, q \in DOMAIN work : \A t, u \in DOMAIN s.tiles[1] :
          \A i \in DOMAIN work[r][t] : \A k \in DOMAIN work[q][u] :
            <<r, t, i>> # <<q, u, k>> => Apart(work[r][t][i], work[q][u][k])
    BY <1>1, <1>5 DEF At
  <2>3. \A e \in DOMAIN s.M : s.M[e] > 0 => \A z \in 0 .. width[e] - 1 :
          \E r \in DOMAIN work : \E t \in DOMAIN s.tiles[1] : \E i \in DOMAIN work[r][t] :
            Holds(work[r][t][i], e, z)
    BY <1>1, <1>6 DEF At
  <2> QED BY <1>1, <2>1, <2>2, <2>3 DEF Partitions
<1>8. \A r \in DOMAIN work : \A t \in DOMAIN S[1] : \A k \in DOMAIN work[r][t] :
        home[work[r][t][k].e] = r
  BY <1>1, <1>4 DEF At
<1> QED BY <1>7, <1>8

-----------------------------------------------------------------------------
(* The schedule of a plan whose seats fit *)

LEMMA MinOfThree ==
  ASSUME NEW a \in Nat, NEW b \in Nat, NEW d \in Nat
  PROVE  Min({a, b, d}) \in {a, b, d}
         /\ Min({a, b, d}) <= a /\ Min({a, b, d}) <= b /\ Min({a, b, d}) <= d
<1> DEFINE S == {a, b, d}
<1>1. \E x \in S : \A y \in S : x <= y
  <2>1. CASE a <= b /\ a <= d BY <2>1
  <2>2. CASE b <= a /\ b <= d BY <2>2
  <2>3. CASE d <= a /\ d <= b BY <2>3
  <2> QED BY <2>1, <2>2, <2>3
<1> HIDE DEF S
<1>2. Min(S) \in S /\ \A y \in S : Min(S) <= y BY <1>1 DEF Min
<1> QED BY <1>2 DEF S

\* Of a team, at least one thread takes part, and no more than there are.
LEMMA ParticipantsFit ==
  ASSUME NEW c, IsSummary(c), NEW plan, plan.minNTile \in Nat \ {0},
         plan.stable \in [Experts(c) -> Nat], NEW e \in Experts(c), NEW team \in Nat \ {0}
  PROVE  ParticipatingNThr(c, plan, e, team) \in 1 .. team
<1>1. PICK w \in Nat : w = c.N[e] BY ExpertsAreFinite
<1>2. PICK q \in Nat : q = w \div plan.minNTile BY DivBounds
<1>3. PICK a \in Nat \ {0} : a = AtLeastOne(NrAlign(c)) BY AlignIsNat DEF AtLeastOne
<1>4. PICK p \in Nat : p = w \div a BY DivBounds
<1>5. PICK v \in Nat : v = plan.stable[e] OBVIOUS
<1>6. PICK b \in Nat \ {0} : b = AtLeastOne(p) BY DEF AtLeastOne
<1>7. CASE ~UseCustom(c) /\ v > 0
  <2>1. ParticipatingNThr(c, plan, e, team) = AtLeastOne(Min({v, b, team}))
    BY <1>1, <1>3, <1>4, <1>5, <1>6, <1>7 DEF ParticipatingNThr
  <2>2. PICK x : x = Min({v, b, team}) OBVIOUS
  <2>3. x \in Nat /\ x <= team
    <3>1. x \in {v, b, team} /\ x <= team BY <2>2, MinOfThree
    <3> QED BY <3>1
  <2> QED BY <2>1, <2>2, <2>3 DEF AtLeastOne
<1>8. CASE ~(~UseCustom(c) /\ v > 0)
  <2>1. ParticipatingNThr(c, plan, e, team) = AtLeastOne(AtMost(team, q))
    BY <1>1, <1>2, <1>5, <1>8 DEF ParticipatingNThr
  <2> QED BY <2>1 DEF AtLeastOne, AtMost
<1> QED BY <1>7, <1>8

Participants(c, plan, team) ==
  [e \in Experts(c) |-> ParticipatingNThr(c, plan, e, team[e])]
ColumnSpans(c, n) == [e \in Experts(c) |-> Spans(c.N[e], n[e], NrAlign(c))]
RowSpans(c, n) == [e \in Experts(c) |-> EvenSpans(c.M[e], n[e])]
PlanTiles(c, plan) == WorkOf(Seats(c, plan), LAMBDA s : TileOf(c, plan, s))
PlanRows(c, plan) == WorkOf(Seats(c, plan), LAMBDA s : RowsOf(c, plan, s))

LEMMA SpansAreSplits ==
  ASSUME NEW c, IsSummary(c), NEW plan, plan.minNTile \in Nat \ {0},
         plan.stable \in [Experts(c) -> Nat], NEW team, team \in [Experts(c) -> Nat \ {0}],
         NEW n, n = Participants(c, plan, team)
  PROVE  /\ TeamsHold(c, n, team) /\ \A e \in Experts(c) : n[e] \in Nat
         /\ SpansFit(c, n, c.N, ColumnSpans(c, n))
         /\ SpansFit(c, n, c.M, RowSpans(c, n))
<1>1. ASSUME NEW e \in Experts(c)
      PROVE  /\ n[e] \in Nat \ {0} /\ n[e] <= team[e]
             /\ c.N[e] \in Nat /\ IsSplit(c.N[e], n[e], ColumnSpans(c, n)[e])
             /\ c.M[e] \in Nat /\ IsSplit(c.M[e], n[e], RowSpans(c, n)[e])
  <2>1. PICK m \in Nat \ {0} : m = team[e] OBVIOUS
  <2>2. n[e] = ParticipatingNThr(c, plan, e, m) BY <2>1 DEF Participants
  <2>3. n[e] \in 1 .. m BY <2>2, ParticipantsFit
  <2>4. n[e] \in Nat \ {0} /\ n[e] <= team[e] BY <2>1, <2>3
  <2>5. c.N[e] \in Nat /\ c.M[e] \in Nat BY ExpertsAreFinite
  <2>6. ColumnSpans(c, n)[e] = Spans(c.N[e], n[e], NrAlign(c))
        /\ RowSpans(c, n)[e] = EvenSpans(c.M[e], n[e])
    BY DEF ColumnSpans, RowSpans
  <2>7. IsSplit(c.N[e], n[e], ColumnSpans(c, n)[e])
    BY <2>4, <2>5, <2>6, AlignIsNat, SplitHoldsEachColumn
  <2>8. IsSplit(c.M[e], n[e], RowSpans(c, n)[e]) BY <2>4, <2>5, <2>6, EvenSplit
  <2> QED BY <2>4, <2>5, <2>7, <2>8
<1> QED BY <1>1 DEF SpansFit, TeamsHold

\* A seat's tile and its rows are its slices of those splits.
LEMMA SeatsTakeSlices ==
  ASSUME NEW c, IsSummary(c), NEW plan, plan.minNTile \in Nat \ {0},
         plan.stable \in [Experts(c) -> Nat], NEW team, team \in [Experts(c) -> Nat \ {0}],
         NEW n, n = Participants(c, plan, team),
         NEW x, x.e \in Experts(c), x.local \in Nat, x.team = team[x.e]
  PROVE  /\ TileOf(c, plan, x) = Piece(c.M, n, ColumnSpans(c, n), x)
         /\ RowsOf(c, plan, x) = Piece(c.M, n, RowSpans(c, n), x)
<1>1. PICK e, l, m : /\ e \in Experts(c) /\ e = x.e /\ l \in Nat /\ l = x.local
                     /\ m = ParticipatingNThr(c, plan, e, x.team)
      OBVIOUS
<1>2. n[e] = m /\ m \in Nat
  <2>1. n[e] = m BY <1>1 DEF Participants
  <2> QED BY <1>1, <2>1, SpansAreSplits
<1>3. CASE ~(c.M[e] > 0 /\ l < m)
  BY <1>1, <1>2, <1>3 DEF TileOf, RowsOf, Piece, Works
<1>4. CASE c.M[e] > 0 /\ l < m
  <2>1. l \in 0 .. m - 1 BY <1>1, <1>2, <1>4
  <2>2. PICK cols : cols = AlignedNSplit(c.N[e], m, l, NrAlign(c)) OBVIOUS
  <2>3. PICK rows : rows = <<(c.M[e] * l) \div m, (c.M[e] * (l + 1)) \div m>> OBVIOUS
  <2>4. ColumnSpans(c, n)[e][l] = cols
    <3>1. ColumnSpans(c, n)[e] = Spans(c.N[e], m, NrAlign(c)) BY <1>1, <1>2 DEF ColumnSpans
    <3> QED BY <2>1, <2>2, <3>1 DEF Spans
  <2>5. RowSpans(c, n)[e][l] = rows
    <3>1. RowSpans(c, n)[e] = EvenSpans(c.M[e], m) BY <1>1, <1>2 DEF RowSpans
    <3> QED BY <2>1, <2>3, <3>1 DEF EvenSpans
  <2>6. TileOf(c, plan, x) = ItemOf(e, cols) BY <1>1, <1>4, <2>2 DEF TileOf
  <2>7. RowsOf(c, plan, x) = ItemOf(e, rows) BY <1>1, <1>4, <2>3 DEF RowsOf
  <2>8. Piece(c.M, n, ColumnSpans(c, n), x) = ItemOf(e, cols)
    BY <1>1, <1>2, <1>4, <2>4 DEF Piece, Works, Slice, ItemOf
  <2>9. Piece(c.M, n, RowSpans(c, n), x) = ItemOf(e, rows)
    BY <1>1, <1>2, <1>4, <2>5 DEF Piece, Works, Slice, ItemOf
  <2> QED BY <2>6, <2>7, <2>8, <2>9
<1> QED BY <1>3, <1>4

\* So the work lists are made of the seats.
LEMMA PlannedWork ==
  ASSUME NEW c, IsSummary(c), NEW plan, plan.minNTile \in Nat \ {0},
         plan.stable \in [Experts(c) -> Nat],
         NEW S, S = Seats(c, plan), NEW team, NEW home, SeatsFit(c, S, team, home),
         NEW n, n = Participants(c, plan, team)
  PROVE  /\ PlanTiles(c, plan) = WorkFrom(S, c.M, n, ColumnSpans(c, n))
         /\ PlanRows(c, plan) = WorkFrom(S, c.M, n, RowSpans(c, n))
<1>1. PICK C, R : C = ColumnSpans(c, n) /\ R = RowSpans(c, n) OBVIOUS
<1> DEFINE tile(r, t) == FlattenSeq([i \in DOMAIN S[r][t] |-> TileOf(c, plan, S[r][t][i])])
           cols(r, t) == FlattenSeq([i \in DOMAIN S[r][t] |-> Piece(c.M, n, C, S[r][t][i])])
           rows(r, t) == FlattenSeq([i \in DOMAIN S[r][t] |-> RowsOf(c, plan, S[r][t][i])])
           part(r, t) == FlattenSeq([i \in DOMAIN S[r][t] |-> Piece(c.M, n, R, S[r][t][i])])
<1>2. /\ PlanTiles(c, plan) = [r \in DOMAIN S |-> [t \in DOMAIN S[r] |-> tile(r, t)]]
      /\ PlanRows(c, plan) = [r \in DOMAIN S |-> [t \in DOMAIN S[r] |-> rows(r, t)]]
  BY DEF PlanTiles, PlanRows, WorkOf
<1>3. /\ WorkFrom(S, c.M, n, C) = [r \in DOMAIN S |-> [t \in DOMAIN S[r] |-> cols(r, t)]]
      /\ WorkFrom(S, c.M, n, R) = [r \in DOMAIN S |-> [t \in DOMAIN S[r] |-> part(r, t)]]
  BY DEF WorkFrom
<1>4. ASSUME NEW r \in DOMAIN S, NEW t \in DOMAIN S[r]
      PROVE  tile(r, t) = cols(r, t) /\ rows(r, t) = part(r, t)
  <2>1. t \in DOMAIN S[1] BY DEF SeatsFit, SeatsAreExperts
  <2>2. team \in [Experts(c) -> Nat \ {0}] BY DEF SeatsFit, SeatsAreExperts
  <2>3. PICK b : b = S[r][t] OBVIOUS
  <2>4. ASSUME NEW i \in DOMAIN b
        PROVE  /\ TileOf(c, plan, b[i]) = Piece(c.M, n, C, b[i])
               /\ RowsOf(c, plan, b[i]) = Piece(c.M, n, R, b[i])
    <3>1. PICK x : x = b[i] OBVIOUS
    <3>2. x.e \in Experts(c) /\ x.local \in Nat /\ x.team = team[x.e]
      BY <2>1, <2>3, <3>1 DEF SeatsFit, SeatsAreExperts
    <3> QED BY <1>1, <2>2, <3>1, <3>2, SeatsTakeSlices
  <2>5. /\ [i \in DOMAIN b |-> TileOf(c, plan, b[i])] = [i \in DOMAIN b |-> Piece(c.M, n, C, b[i])]
        /\ [i \in DOMAIN b |-> RowsOf(c, plan, b[i])] = [i \in DOMAIN b |-> Piece(c.M, n, R, b[i])]
    BY <2>4
  <2> QED BY <2>3, <2>5, Zenon
<1> HIDE DEF tile, cols, rows, part
<1>5. \A r \in DOMAIN S :
        /\ [t \in DOMAIN S[r] |-> tile(r, t)] = [t \in DOMAIN S[r] |-> cols(r, t)]
        /\ [t \in DOMAIN S[r] |-> rows(r, t)] = [t \in DOMAIN S[r] |-> part(r, t)]
  BY <1>4
<1>6. PlanTiles(c, plan) = WorkFrom(S, c.M, n, C) BY <1>2, <1>3, <1>5
<1>7. PlanRows(c, plan) = WorkFrom(S, c.M, n, R) BY <1>2, <1>3, <1>5
<1> QED BY <1>1, <1>6, <1>7

\* A plan with seats that fit has a schedule that TileTeam's theorems assume,
\* if it has one round or its executor ends each in a barrier.
LEMMA SeatedSchedulesAreSound ==
  ASSUME NEW c, IsSummary(c), NEW plan, plan.strategy # "Sequential",
         plan.minNTile \in Nat \ {0}, plan.stable \in [Experts(c) -> Nat],
         NEW S, S = Seats(c, plan), NEW team, NEW home, SeatsFit(c, S, team, home),
         Len(S) > 1 => plan.strategy \in {"FewExperts", "ManyExperts"}
  PROVE  IsSchedule(ScheduleOf(c, plan, S))
<1>1. PICK s : s = ScheduleOf(c, plan, S) OBVIOUS
<1>2. PICK n : n = Participants(c, plan, team) OBVIOUS
<1>3. PICK pass \in BOOLEAN : pass = (Fused(c) /\ ~UseCustom(c) /\ ~TightEpilogue(c))
  OBVIOUS
<1>4. PICK tiles, rows : tiles = PlanTiles(c, plan) /\ rows = PlanRows(c, plan) OBVIOUS
<1>5. PICK barrier \in BOOLEAN : barrier = (plan.strategy \in {"FewExperts", "ManyExperts"})
  <2>1. CASE plan.strategy \in {"FewExperts", "ManyExperts"}
    <3>1. (plan.strategy \in {"FewExperts", "ManyExperts"}) = TRUE BY <2>1
    <3> QED BY <3>1
  <2>2. CASE plan.strategy \notin {"FewExperts", "ManyExperts"}
    <3>1. (plan.strategy \in {"FewExperts", "ManyExperts"}) = FALSE BY <2>2
    <3> QED BY <3>1
  <2> QED BY <2>1, <2>2
<1>6. /\ s.tiles = tiles /\ (pass => s.rows = rows)
      /\ s.activationPass = pass /\ s.endBarrier = barrier
      /\ s.inTile = (Fused(c) /\ ~pass) /\ s.scratch = TightEpilogue(c)
      /\ s.stopsAtFailure = FALSE /\ s.M = c.M /\ s.N = c.N /\ s.fused = Fused(c)
  <2>1. s.tiles = tiles BY <1>1, <1>4 DEF ScheduleOf, PlanTiles
  <2>2. pass => s.rows = rows BY <1>1, <1>3, <1>4 DEF ScheduleOf, PlanRows
  <2>3. s.activationPass = pass /\ s.inTile = (Fused(c) /\ ~pass)
    BY <1>1, <1>3 DEF ScheduleOf
  <2>4. s.endBarrier = barrier BY <1>1, <1>5 DEF ScheduleOf
  <2>5. s.stopsAtFailure = FALSE
    <3>1. s.stopsAtFailure = (plan.strategy = "Sequential") BY <1>1 DEF ScheduleOf
    <3> QED BY <3>1, Zenon
  <2>6. s.scratch = TightEpilogue(c)
    <3>1. s.scratch = (TightEpilogue(c) \/ (plan.strategy = "Sequential" /\ Fused(c) /\ c.tight))
      BY <1>1 DEF ScheduleOf
    <3>2. TightEpilogue(c) \in BOOLEAN BY DEF TightEpilogue
    <3> QED BY <3>1, <3>2, Zenon
  <2>7. s.M = c.M /\ s.N = c.N /\ s.fused = Fused(c) BY <1>1 DEF ScheduleOf
  <2> QED BY <2>1, <2>2, <2>3, <2>4, <2>5, <2>6, <2>7
<1>7. {s.activationPass, s.endBarrier, s.inTile, s.scratch, s.stopsAtFailure, s.fused}
         \subseteq BOOLEAN
  <2>1. TightEpilogue(c) \in BOOLEAN /\ Fused(c) \in BOOLEAN BY DEF TightEpilogue, Fused
  <2> QED BY <1>6, <2>1
<1>8. /\ s.fused = (s.activationPass \/ s.inTile) /\ ~(s.activationPass /\ s.inTile)
      /\ s.activationPass => ~s.scratch
  <2>1. Fused(c) \in BOOLEAN BY DEF Fused
  <2> QED BY <1>3, <1>6, <2>1
<1>9. /\ DOMAIN s.N = DOMAIN s.M
      /\ \A e \in DOMAIN s.M : s.M[e] \in Nat /\ s.N[e] \in Nat \ {0}
  <2>1. DOMAIN c.N = 1 .. Len(c.N) /\ Len(c.N) = Len(c.M)
    <3>1. \A R, q : q \in Seq(R) => DOMAIN q = 1 .. Len(q) OBVIOUS
    <3> QED BY <3>1, Zenon DEF IsSummary
  <2> QED BY <1>6, <2>1, ExpertsAreFinite
<1>10. /\ Len(S) \in Nat \ {0} /\ DOMAIN S = 1 .. Len(S)
       /\ \A r \in DOMAIN S : DOMAIN S[r] = DOMAIN S[1]
       /\ team \in [Experts(c) -> Nat \ {0}]
  BY DEF SeatsFit, SeatsAreExperts
<1>11. PICK C, R : C = ColumnSpans(c, n) /\ R = RowSpans(c, n) OBVIOUS
<1>12. tiles = WorkFrom(S, c.M, n, C) /\ rows = WorkFrom(S, c.M, n, R)
  BY <1>2, <1>4, <1>11, PlannedWork
<1>13. /\ DOMAIN tiles = DOMAIN S /\ DOMAIN rows = DOMAIN S
       /\ \A r \in DOMAIN S : DOMAIN tiles[r] = DOMAIN S[1] /\ DOMAIN rows[r] = DOMAIN S[1]
  BY <1>10, <1>12 DEF WorkFrom
<1>14. Len(s.tiles) = Len(S) /\ DOMAIN s.tiles = 1 .. Len(s.tiles)
  <2>1. \A f, m : m \in Nat /\ DOMAIN f = 1 .. m => Len(f) = m OBVIOUS
  <2>2. Len(tiles) = Len(S) BY <1>10, <1>13, <2>1
  <2> QED BY <1>6, <1>10, <1>13, <2>2
<1>15. /\ TeamsHold(c, n, team)
       /\ SpansFit(c, n, c.N, C) /\ SpansFit(c, n, c.M, R)
  BY <1>2, <1>10, <1>11, SpansAreSplits
<1>16. /\ DOMAIN s.tiles = DOMAIN S /\ DOMAIN s.tiles[1] = DOMAIN S[1] /\ s.M = c.M
  BY <1>6, <1>10, <1>13
<1>30. Shaped(s, c, S) BY <1>16 DEF Shaped
<1>17. Partitions(s, tiles, c.N) /\ InHome(S, tiles, home)
  BY <1>12, <1>15, <1>30, SeatedPartitions
<1>18. Partitions(s, rows, c.M) /\ InHome(S, rows, home)
  BY <1>12, <1>15, <1>30, SeatedPartitions
<1>19. s.activationPass =>
         \A r, q \in DOMAIN s.tiles : \A t, u \in DOMAIN s.tiles[1] :
           \A i \in DOMAIN s.tiles[r][t] : \A k \in DOMAIN s.rows[q][u] :
             s.tiles[r][t][i].e = s.rows[q][u][k].e => r <= q
  <2> SUFFICES ASSUME pass, NEW r \in DOMAIN S, NEW q \in DOMAIN S, NEW t \in DOMAIN S[1],
                      NEW u \in DOMAIN S[1], NEW i \in DOMAIN tiles[r][t],
                      NEW k \in DOMAIN rows[q][u], tiles[r][t][i].e = rows[q][u][k].e
               PROVE  r <= q
      BY <1>6, <1>16
  <2>1. r = q BY <1>13, <1>17, <1>18 DEF InHome
  <2> QED BY <1>10, <2>1
<1>20. Len(s.tiles) > 1 => s.endBarrier BY <1>5, <1>6, <1>14
<1>21. Partitions(s, s.tiles, s.N) BY <1>6, <1>17
<1>22. s.activationPass => Partitions(s, s.rows, s.M) BY <1>6, <1>18
<1>23. IsSchedule(s)
  BY <1>7, <1>8, <1>9, <1>10, <1>14, <1>19, <1>20, <1>21, <1>22 DEF IsSchedule
<1> QED BY <1>1, <1>23
-----------------------------------------------------------------------------
(* Orders of the experts *)
\* Heaviest first and lightest first list each expert once.
LEMMA RowsDescEnumerates ==
  ASSUME NEW c, IsSummary(c), NEW S \in SUBSET Experts(c)
  PROVE  Enumerates(ByRowsDesc(c, S), S)
<1> DEFINE R == {p \in S \X S : c.M[p[1]] > c.M[p[2]]
                                  \/ (c.M[p[1]] = c.M[p[2]] /\ p[1] < p[2])}
<1>1. \A e \in S : e \in Nat /\ c.M[e] \in Nat BY ExpertsAreFinite
<1>2. \A e, f \in S : <<e, f>> \in R <=>
         (c.M[e] > c.M[f] \/ (c.M[e] = c.M[f] /\ e < f))
  OBVIOUS
<1>3. IsFiniteSet(S) BY ExpertsAreFinite, FS_Subset
<1> DEFINE s == ByRowsDesc(c, S)
           A(e) == {f \in S : c.M[f] > c.M[e] \/ (c.M[f] = c.M[e] /\ f < e)}
<1>4. DOMAIN s = 1 .. Cardinality(S)
      /\ \A i \in 1 .. Cardinality(S) : s[i] = CHOOSE e \in S : Cardinality(A(e)) = i - 1
  BY DEF ByRowsDesc, Sorted
<1>5. \A e \in S : {f \in S : <<f, e>> \in R} = A(e) BY <1>2
<1> HIDE DEF R, A, s
<1>6. IsOrder(R, S) BY <1>1, <1>2 DEF IsOrder
<1>7. \A i \in 1 .. Cardinality(S) : (\E e \in S : Cardinality(A(e)) = i - 1) =>
        s[i] \in S /\ Cardinality(A(s[i])) = i - 1
  BY <1>4
<1> DEFINE before == [e \in S |-> A(e)]
<1>8. Precedes(before, R, S) /\ TakesByRank(s, before, S)
  BY <1>4, <1>5, <1>7 DEF Precedes, TakesByRank
<1>9. Enumerates(s, S) BY <1>3, <1>6, <1>8, RanksEnumerate
<1> QED BY <1>9 DEF s

LEMMA RowsAscEnumerates ==
  ASSUME NEW c, IsSummary(c), NEW S \in SUBSET Experts(c)
  PROVE  Enumerates(ByRowsAsc(c, S), S)
<1> DEFINE R == {p \in S \X S : c.M[p[1]] < c.M[p[2]]
                                  \/ (c.M[p[1]] = c.M[p[2]] /\ p[1] < p[2])}
<1>1. \A e \in S : e \in Nat /\ c.M[e] \in Nat BY ExpertsAreFinite
<1>2. \A e, f \in S : <<e, f>> \in R <=>
         (c.M[e] < c.M[f] \/ (c.M[e] = c.M[f] /\ e < f))
  OBVIOUS
<1>3. IsFiniteSet(S) BY ExpertsAreFinite, FS_Subset
<1> DEFINE s == ByRowsAsc(c, S)
           A(e) == {f \in S : c.M[f] < c.M[e] \/ (c.M[f] = c.M[e] /\ f < e)}
<1>4. DOMAIN s = 1 .. Cardinality(S)
      /\ \A i \in 1 .. Cardinality(S) : s[i] = CHOOSE e \in S : Cardinality(A(e)) = i - 1
  BY DEF ByRowsAsc, Sorted
<1>5. \A e \in S : {f \in S : <<f, e>> \in R} = A(e) BY <1>2
<1> HIDE DEF R, A, s
<1>6. IsOrder(R, S) BY <1>1, <1>2 DEF IsOrder
<1>7. \A i \in 1 .. Cardinality(S) : (\E e \in S : Cardinality(A(e)) = i - 1) =>
        s[i] \in S /\ Cardinality(A(s[i])) = i - 1
  BY <1>4
<1> DEFINE before == [e \in S |-> A(e)]
<1>8. Precedes(before, R, S) /\ TakesByRank(s, before, S)
  BY <1>4, <1>5, <1>7 DEF Precedes, TakesByRank
<1>9. Enumerates(s, S) BY <1>3, <1>6, <1>8, RanksEnumerate
<1> QED BY <1>9 DEF s

\* Dealing the heaviest and the lightest in turn keeps every one.
LEMMA PairBalancedEnumerates ==
  ASSUME NEW S, NEW s, Enumerates(s, S), Cardinality(S) \in Nat
  PROVE  Enumerates(PairBalanced(s), S)
<1> DEFINE m == Cardinality(S)
           p(i) == IF i % 2 = 1 THEN (i + 1) \div 2 ELSE m + 1 - i \div 2
<1>1. DOMAIN s = 1 .. m BY DEF Enumerates
<1>2. Len(s) = m BY <1>1
<1>3. DOMAIN PairBalanced(s) = 1 .. m
      /\ \A i \in 1 .. m : PairBalanced(s)[i] = s[p(i)]
  BY <1>1, <1>2 DEF PairBalanced
<1>4. \A i \in 1 .. m : p(i) \in 1 .. m OBVIOUS
<1>5. \A i, k \in 1 .. m : p(i) = p(k) => i = k OBVIOUS
<1>6. \A k \in 1 .. m : \E i \in 1 .. m : p(i) = k
  <2> SUFFICES ASSUME NEW k \in 1 .. m PROVE \E i \in 1 .. m : p(i) = k OBVIOUS
  <2>1. CASE 2 * k - 1 <= m
    <3>1. 2 * k - 1 \in 1 .. m /\ p(2 * k - 1) = k BY <2>1
    <3> QED BY <3>1
  <2>2. CASE 2 * k - 1 > m
    <3>1. 2 * (m + 1 - k) \in 1 .. m /\ p(2 * (m + 1 - k)) = k BY <2>2
    <3> QED BY <3>1
  <2> QED BY <2>1, <2>2
<1> HIDE DEF p
<1> QED BY <1>1, <1>3, <1>4, <1>5, <1>6 DEF Enumerates

-----------------------------------------------------------------------------
(* The order that keeps the running total closest to even *)
\* An order of some experts, none twice, is extended by one it lacks.
Distinct(X, k) ==
  {q \in Seq(X) : Len(q) <= k /\ \A i, j \in 1 .. Len(q) : q[i] = q[j] => i = j}

LEMMA DistinctGrows ==
  ASSUME NEW X, NEW k \in Nat, NEW q \in Distinct(X, k), NEW x \in X,
         \A i \in DOMAIN q : q[i] # x
  PROVE  Append(q, x) \in Distinct(X, k + 1) /\ Len(Append(q, x)) = Len(q) + 1
<1>1. q \in Seq(X) /\ Len(q) <= k /\ Len(q) \in Nat /\ DOMAIN q = 1 .. Len(q)
      /\ \A i, j \in 1 .. Len(q) : q[i] = q[j] => i = j
  BY SMTT(20) DEF Distinct
<1>2. PICK n \in Nat : n = Len(q) BY <1>1
<1>3. PICK r : r = Append(q, x) OBVIOUS
<1>4. r \in Seq(X) /\ Len(r) = n + 1 /\ r[n + 1] = x /\ \A i \in 1 .. n : r[i] = q[i]
  BY <1>1, <1>2, <1>3
<1>5. ASSUME NEW i \in 1 .. n + 1, NEW j \in 1 .. n + 1, r[i] = r[j] PROVE i = j
  <2>1. CASE i \in 1 .. n /\ j \in 1 .. n BY <1>1, <1>2, <1>4, <1>5, <2>1
  <2>2. CASE i = n + 1 /\ j = n + 1 BY <2>2
  <2>3. CASE i \in 1 .. n /\ j = n + 1
    <3>1. r[i] = q[i] /\ q[i] # x /\ r[j] = x BY <1>1, <1>2, <1>4, <2>3
    <3> QED BY <1>5, <3>1
  <2>4. CASE i = n + 1 /\ j \in 1 .. n
    <3>1. r[j] = q[j] /\ q[j] # x /\ r[i] = x BY <1>1, <1>2, <1>4, <2>4
    <3> QED BY <1>5, <3>1
  <2> QED BY <2>1, <2>2, <2>3, <2>4
<1>6. n + 1 <= k + 1 BY <1>1, <1>2
<1>7. r \in Distinct(X, k + 1) BY <1>4, <1>5, <1>6 DEF Distinct
<1> QED BY <1>2, <1>3, <1>4, <1>7

\* One turn of the loop of BalancedSpread.
SpreadError(c, order, p, e) ==
  LET d == p * Total(c.M, Experts(c))
             - Ops(c) * (Total([i \in DOMAIN order |-> c.M[order[i]]], DOMAIN order) + c.M[e])
  IN  IF d < 0 THEN -d ELSE d
SpreadFree(s, order) == {i \in DOMAIN s : \A k \in DOMAIN order : order[k] # s[i]}
SpreadBest(c, s, order, p) ==
  CHOOSE i \in SpreadFree(s, order) : \A j \in SpreadFree(s, order) :
    \/ SpreadError(c, order, p, s[i]) < SpreadError(c, order, p, s[j])
    \/ SpreadError(c, order, p, s[i]) = SpreadError(c, order, p, s[j]) /\ i <= j
SpreadStep(c, s, order, p) == Append(order, s[SpreadBest(c, s, order, p)])

LEMMA SpreadErrorIsNat ==
  ASSUME NEW c, IsSummary(c), NEW order \in Seq(Experts(c)), NEW p \in Nat,
         NEW e \in Experts(c)
  PROVE  SpreadError(c, order, p, e) \in Nat
<1>1. PICK t \in Nat : t = Total(c.M, Experts(c))
  <2>1. \A x \in Experts(c) : c.M[x] \in Nat BY ExpertsAreFinite
  <2> QED BY <2>1, ExpertsAreFinite, TotalIsNat
<1>2. PICK q : q = [i \in DOMAIN order |-> c.M[order[i]]] OBVIOUS
<1>3. PICK u \in Nat : u = Total(q, DOMAIN order)
  <2>1. PICK n \in Nat : n = Len(order) /\ DOMAIN order = 1 .. n OBVIOUS
  <2>2. IsFiniteSet(1 .. n) BY <2>1, FS_Interval
  <2>3. \A i \in 1 .. n : q[i] \in Nat
    <3>1. \A i \in 1 .. n : order[i] \in Experts(c) BY <2>1
    <3>2. \A x \in Experts(c) : c.M[x] \in Nat BY ExpertsAreFinite
    <3> QED BY <1>2, <2>1, <3>1, <3>2
  <2>4. Total(q, 1 .. n) \in Nat BY <2>2, <2>3, TotalIsNat
  <2> QED BY <2>1, <2>4
<1>4. PICK m, E \in Nat : m = c.M[e] /\ E = Ops(c) BY ExpertsAreFinite
<1>5. PICK d : d = p * t - E * (u + m) OBVIOUS
<1>6. d \in Int BY <1>1, <1>3, <1>4, <1>5
<1>7. SpreadError(c, order, p, e) = IF d < 0 THEN -d ELSE d
  BY <1>1, <1>2, <1>3, <1>4, <1>5 DEF SpreadError
<1> QED BY <1>6, <1>7

LEMMA SpreadStepGrows ==
  ASSUME NEW c, IsSummary(c), NEW s, Enumerates(s, Experts(c)),
         NEW k \in Nat, k < Ops(c), NEW order \in Distinct(Experts(c), k), NEW p \in Nat
  PROVE  /\ SpreadStep(c, s, order, p) \in Distinct(Experts(c), k + 1)
         /\ Len(SpreadStep(c, s, order, p)) = Len(order) + 1
<1>1. PICK E \in Nat : /\ E = Ops(c) /\ Experts(c) = 1 .. E /\ DOMAIN s = 1 .. E
                       /\ Cardinality(Experts(c)) = E /\ IsFiniteSet(Experts(c))
  BY ExpertsAreFinite DEF Enumerates
<1>2. PICK n \in Nat : n = Len(order) /\ n <= k /\ DOMAIN order = 1 .. n
                       /\ order \in Seq(Experts(c))
  BY DEF Distinct
<1>3. PICK F : F = SpreadFree(s, order) OBVIOUS
<1>4. F # {}
  <2> SUFFICES ASSUME F = {} PROVE FALSE OBVIOUS
  <2>1. \A e \in Experts(c) : \E i \in 1 .. n : order[i] = e
    BY <1>1, <1>2, <1>3 DEF SpreadFree, Enumerates
  <2>2. order \in [1 .. n -> Experts(c)] BY <1>2
  <2>3. order \in Surjection(1 .. n, Experts(c)) BY <2>1, <2>2 DEF Surjection
  <2>4. IsFiniteSet(1 .. n) /\ Cardinality(1 .. n) = n
    <3>1. (IF 1 > n THEN 0 ELSE n - 1 + 1) = n OBVIOUS
    <3> QED BY <3>1, FS_Interval
  <2>5. Cardinality(Experts(c)) <= n BY <2>3, <2>4, FS_Surjection
  <2> QED BY <1>1, <1>2, <2>5
<1>5. PICK w : w = [i \in F |-> SpreadError(c, order, p, s[i])] OBVIOUS
<1>6. F \in SUBSET Nat /\ \A i \in F : s[i] \in Experts(c) /\ i \in 1 .. E
  BY <1>1, <1>3 DEF SpreadFree, Enumerates
<1>7. \A i \in F : w[i] \in Nat BY <1>2, <1>5, <1>6, SpreadErrorIsNat
<1>8. \E i \in F : \A j \in F : w[i] < w[j] \/ (w[i] = w[j] /\ i <= j)
  BY <1>4, <1>6, <1>7, LeastPlace
<1>9. PICK b : b = SpreadBest(c, s, order, p) OBVIOUS
<1>10. b = CHOOSE i \in F : \A j \in F :
              \/ SpreadError(c, order, p, s[i]) < SpreadError(c, order, p, s[j])
              \/ SpreadError(c, order, p, s[i]) = SpreadError(c, order, p, s[j]) /\ i <= j
  BY <1>3, <1>9 DEF SpreadBest
<1>11. b \in F
  <2>1. \A i \in F : w[i] = SpreadError(c, order, p, s[i]) BY <1>5
  <2> QED BY <1>8, <1>10, <2>1
<1>12. s[b] \in Experts(c) /\ \A i \in DOMAIN order : order[i] # s[b]
  BY <1>3, <1>6, <1>11 DEF SpreadFree
<1>13. SpreadStep(c, s, order, p) = Append(order, s[b]) BY <1>9 DEF SpreadStep
<1> QED BY <1>12, <1>13, DistinctGrows

\* The turns of the loop leave an order of as many experts as there are.
LEMMA SpreadLoop ==
  ASSUME NEW c, IsSummary(c), NEW s, Enumerates(s, Experts(c)),
         NEW n \in Nat, n = Ops(c), NEW G, NEW g, FoldRec(g, G, <<>>, n),
         \A a \in Seq(Experts(c)) : \A i \in 1 .. n : G[<<a, i>>] = SpreadStep(c, s, a, i)
  PROVE  /\ \A S \in SUBSET (1 .. n) : g[S] \in Distinct(Experts(c), n)
         /\ Len(g[1 .. n]) = n
<1> DEFINE X == [k \in 0 .. n |-> Distinct(Experts(c), k)]
<1>1. \A k \in 0 .. n : <<>> \in X[k]
  <2>1. <<>> \in Seq(Experts(c)) /\ Len(<<>>) = 0 OBVIOUS
  <2> QED BY <2>1 DEF Distinct
<1>2. ASSUME NEW k \in 0 .. n - 1, NEW a \in X[k], NEW i \in 1 .. n
      PROVE  /\ G[<<a, i>>] \in X[k + 1]
             /\ Len(G[<<a, i>>]) = Len(a) + 1
  <2>1. k \in Nat /\ k \in 0 .. n /\ k + 1 \in 0 .. n /\ k < Ops(c) /\ i \in Nat OBVIOUS
  <2>2. a \in Distinct(Experts(c), k) BY <2>1
  <2>3. a \in Seq(Experts(c)) BY <2>2 DEF Distinct
  <2>4. G[<<a, i>>] = SpreadStep(c, s, a, i) BY <2>3
  <2>5. /\ SpreadStep(c, s, a, i) \in Distinct(Experts(c), k + 1)
        /\ Len(SpreadStep(c, s, a, i)) = Len(a) + 1
    BY <2>1, <2>2, SpreadStepGrows
  <2> QED BY <2>1, <2>4, <2>5
<1>3. X[n] = Distinct(Experts(c), n)
      /\ \A k \in 0 .. n : X[k] = Distinct(Experts(c), k)
  OBVIOUS
<1> HIDE DEF X
<1>4. Keeps(G, X, <<>>, n) BY <1>1, <1>2 DEF Keeps
<1>5. \A k \in 0 .. n : \A S \in SUBSET (1 .. k) : g[S] \in X[k] BY <1>4, FoldKeeps
<1> DEFINE P == {k \in Nat : k <= n => Len(g[1 .. k]) = k}
<1>6. 0 \in P
  <2>1. 1 .. 0 = {} /\ {} \in SUBSET (1 .. n) OBVIOUS
  <2>2. g[{}] = <<>> BY <2>1 DEF FoldRec
  <2> QED BY <2>1, <2>2
<1>7. ASSUME NEW k \in Nat, k \in P PROVE k + 1 \in P
  <2>0. SUFFICES ASSUME k + 1 <= n PROVE Len(g[1 .. k + 1]) = k + 1 OBVIOUS
  <2>1. PICK S : S = 1 .. k + 1 OBVIOUS
  <2>2. S \in SUBSET (1 .. n) /\ S # {} /\ k + 1 \in S /\ k <= n BY <2>0, <2>1
  <2>3. Max(S) = k + 1
    <3>1. S \in SUBSET Nat /\ k + 1 \in Nat /\ \A x \in S : x <= k + 1 BY <2>1
    <3>2. Max(S) \in S /\ \A x \in S : x <= Max(S) BY <2>2, <3>1, MaxOfBounded
    <3> QED BY <2>1, <2>2, <3>2
  <2>4. S \ {k + 1} = 1 .. k BY <2>1
  <2>5. g[S] = G[<<g[1 .. k], k + 1>>]
    <3>1. \A R \in SUBSET (1 .. n) : R # {} => g[R] = G[<<g[R \ {Max(R)}], Max(R)>>]
      BY DEF FoldRec
    <3>2. g[S] = G[<<g[S \ {Max(S)}], Max(S)>>] BY <2>2, <3>1
    <3> QED BY <2>3, <2>4, <3>2
  <2>6. k \in 0 .. n - 1 /\ k \in 0 .. n /\ k + 1 \in 1 .. n BY <2>0
  <2>7. g[1 .. k] \in X[k] BY <1>5, <2>6
  <2>8. Len(g[S]) = Len(g[1 .. k]) + 1 BY <1>2, <2>5, <2>6, <2>7
  <2>9. Len(g[1 .. k]) = k BY <1>7, <2>2
  <2> QED BY <2>1, <2>8, <2>9
<1> HIDE DEF P
<1>8. n \in P BY <1>6, <1>7, SetInduction
<1>9. Len(g[1 .. n]) = n
  <2>1. n <= n OBVIOUS
  <2> QED BY <1>8, <2>1 DEF P
<1>10. n \in 0 .. n OBVIOUS
<1> QED BY <1>3, <1>5, <1>9, <1>10

LEMMA BalancedSpreadEnumerates ==
  ASSUME NEW c, IsSummary(c), NEW s, Enumerates(s, Experts(c))
  PROVE  Enumerates(BalancedSpread(c, s), Experts(c))
<1> DEFINE res == BalancedSpread(c, s)
<1> DEFINE seq == [i \in DOMAIN s |-> i]
<1> DEFINE IsLoop(g) == g = [S \in SUBSET DOMAIN seq |->
                IF S = {} THEN <<>> ELSE SpreadStep(c, s, g[S \ {Max(S)}], seq[Max(S)])]
<1>1. res = (CHOOSE g : IsLoop(g))[DOMAIN seq]
  BY DEF BalancedSpread, FoldLeftDomain, FoldLeft, MapThenFoldSet, SpreadStep, SpreadBest,
         SpreadFree, SpreadError
<1>2. PICK n \in Nat : /\ n = Ops(c) /\ Experts(c) = 1 .. n /\ DOMAIN s = 1 .. n
                       /\ Cardinality(Experts(c)) = n /\ IsFiniteSet(Experts(c))
  BY ExpertsAreFinite DEF Enumerates
<1> HIDE DEF res
<1>3. /\ DOMAIN seq = 1 .. n
      /\ \A S \in SUBSET (1 .. n) : S # {} =>
            /\ Max(S) \in 1 .. n /\ seq[Max(S)] = Max(S)
            /\ S \ {Max(S)} \in SUBSET (1 .. n)
  <2>1. \A S \in SUBSET (1 .. n) : S # {} => Max(S) \in S
    <3>1. \A S \in SUBSET (1 .. n) : S \in SUBSET (1 .. n + 1) OBVIOUS
    <3> QED BY <3>1, LastOfPlaces
  <2> QED BY <1>2, <2>1
<1>4. \A g : IsLoop(g) <=> g = [S \in SUBSET (1 .. n) |->
                   IF S = {} THEN <<>> ELSE SpreadStep(c, s, g[S \ {Max(S)}], Max(S))]
  BY <1>3
<1> HIDE DEF IsLoop, seq
<1>5. \E g : IsLoop(g)
  <2>1. PICK G : G = [p \in Seq(Experts(c)) \X (1 .. n) |-> SpreadStep(c, s, p[1], p[2])]
    OBVIOUS
  <2>2. \A a \in Seq(Experts(c)) : \A i \in 1 .. n : G[<<a, i>>] = SpreadStep(c, s, a, i)
    BY <2>1
  <2>3. PICK h : FoldRec(h, G, <<>>, n) BY FoldDefined
  <2>4. \A S \in SUBSET (1 .. n) : h[S] \in Seq(Experts(c))
    <3>1. \A S \in SUBSET (1 .. n) : h[S] \in Distinct(Experts(c), n)
      BY <1>2, <2>2, <2>3, SpreadLoop
    <3> QED BY <3>1 DEF Distinct
  <2>5. h = [S \in SUBSET (1 .. n) |->
               IF S = {} THEN <<>> ELSE SpreadStep(c, s, h[S \ {Max(S)}], Max(S))]
    <3>1. \A S \in SUBSET (1 .. n) : S # {} =>
            G[<<h[S \ {Max(S)}], Max(S)>>] = SpreadStep(c, s, h[S \ {Max(S)}], Max(S))
      BY <1>3, <2>2, <2>4
    <3> QED BY <2>3, <3>1 DEF FoldRec
  <2> QED BY <1>4, <2>5
<1>6. PICK g : IsLoop(g) /\ res = g[1 .. n] BY <1>1, <1>3, <1>5
<1>7. PICK D : D = Seq(Experts(c)) \cup {g[S] : S \in SUBSET (1 .. n)} OBVIOUS
<1>8. PICK G : G = [p \in D \X (1 .. n) |-> SpreadStep(c, s, p[1], p[2])] OBVIOUS
<1>9. \A a \in D : \A i \in 1 .. n : G[<<a, i>>] = SpreadStep(c, s, a, i) BY <1>8
<1>10. FoldRec(g, G, <<>>, n)
  <2>1. \A S \in SUBSET (1 .. n) : S # {} =>
          G[<<g[S \ {Max(S)}], Max(S)>>] = SpreadStep(c, s, g[S \ {Max(S)}], Max(S))
    BY <1>3, <1>7, <1>9
  <2> QED BY <1>4, <1>6, <2>1 DEF FoldRec
<1>11. res \in Distinct(Experts(c), n) /\ Len(res) = n
  <2>1. \A a \in Seq(Experts(c)) : \A i \in 1 .. n : G[<<a, i>>] = SpreadStep(c, s, a, i)
    BY <1>7, <1>9
  <2>2. 1 .. n \in SUBSET (1 .. n) OBVIOUS
  <2> QED BY <1>2, <1>6, <1>10, <2>1, <2>2, SpreadLoop
<1>12. /\ DOMAIN res = 1 .. n /\ \A i \in 1 .. n : res[i] \in Experts(c)
       /\ \A i, j \in 1 .. n : res[i] = res[j] => i = j
  BY <1>11 DEF Distinct
<1>13. \A e \in Experts(c) : \E i \in 1 .. n : res[i] = e
  <2>1. PICK f : f = [i \in 1 .. n |-> res[i]] OBVIOUS
  <2>2. f \in Injection(1 .. n, Experts(c)) BY <1>12, <2>1 DEF Injection, IsInjective
  <2>3. f \in Surjection(1 .. n, Experts(c)) BY <1>2, <2>2, FS_Injection
  <2> QED BY <2>1, <2>3 DEF Surjection
<1>14. Enumerates(res, Experts(c)) BY <1>2, <1>12, <1>13 DEF Enumerates
<1> QED BY <1>14 DEF res

\* In whichever order, by the input, by rows, heaviest and lightest in turn or
\* closest to even, the rounds meet every expert, and meet it once.
THEOREM ExpertOrderKeepsExperts ==
  ASSUME NEW c, IsSummary(c)
  PROVE  Enumerates(ExpertOrder(c), Experts(c))
<1>1. Enumerates(InputOrder(c), Experts(c))
  BY ExpertsAreFinite DEF InputOrder, Enumerates
<1>2. Enumerates(ByRowsAsc(c, Experts(c)), Experts(c)) BY RowsAscEnumerates
<1>3. Enumerates(ByRowsDesc(c, Experts(c)), Experts(c)) BY RowsDescEnumerates
<1>4. Cardinality(Experts(c)) \in Nat BY ExpertsAreFinite
<1>5. Enumerates(PairBalanced(ByRowsDesc(c, Experts(c))), Experts(c))
  BY <1>3, <1>4, PairBalancedEnumerates
<1>6. Enumerates(BalancedSpread(c, ByRowsDesc(c, Experts(c))), Experts(c))
  BY <1>3, BalancedSpreadEnumerates
<1>7. ExpertOrder(c) \in {InputOrder(c), ByRowsAsc(c, Experts(c)),
                          ByRowsDesc(c, Experts(c)),
                          PairBalanced(ByRowsDesc(c, Experts(c))),
                          BalancedSpread(c, ByRowsDesc(c, Experts(c)))}
  BY DEF ExpertOrder
<1> QED BY <1>1, <1>2, <1>3, <1>5, <1>6, <1>7

-----------------------------------------------------------------------------
(* The sequential executor *)

LEMMA InputOrderEnumerates ==
  ASSUME NEW c, IsSummary(c)
  PROVE  Enumerates(Sorted(Active(c), LAMBDA e, f : e < f), Active(c))
<1> DEFINE S == Active(c)
           R == {p \in S \X S : p[1] < p[2]}
           s == Sorted(S, LAMBDA e, f : e < f)
           A(e) == {f \in S : f < e}
<1>1. IsFiniteSet(S) /\ \A e \in S : e \in Nat BY ExpertsAreFinite
<1> HIDE DEF S
<1>2. \A e, f \in S : <<e, f>> \in R <=> e < f OBVIOUS
<1>3. DOMAIN s = 1 .. Cardinality(S)
      /\ \A i \in 1 .. Cardinality(S) : s[i] = CHOOSE e \in S : Cardinality(A(e)) = i - 1
  BY DEF Sorted
<1>4. \A e \in S : {f \in S : <<f, e>> \in R} = A(e) BY <1>2
<1> HIDE DEF R, A, s
<1>5. IsOrder(R, S) BY <1>1, <1>2 DEF IsOrder
<1>6. \A i \in 1 .. Cardinality(S) : (\E e \in S : Cardinality(A(e)) = i - 1) =>
        s[i] \in S /\ Cardinality(A(s[i])) = i - 1
  BY <1>3
<1> DEFINE before == [e \in S |-> A(e)]
<1>7. Precedes(before, R, S) /\ TakesByRank(s, before, S)
  BY <1>3, <1>4, <1>6 DEF Precedes, TakesByRank
<1> HIDE DEF before
<1>8. Enumerates(s, S) BY <1>1, <1>5, <1>7, RanksEnumerate
<1> QED BY <1>8 DEF s, S

\* The schedule of every call that runs its experts one after another, each
\* with all its columns, holds each column once.
THEOREM SequentialSchedulesAreSound ==
  ASSUME NEW c, IsSummary(c), Plan(c).strategy = "Sequential"
  PROVE  IsSchedule(Schedule(c))
<1>1. PICK plan : plan = Plan(c) /\ plan.strategy = "Sequential" OBVIOUS
<1>2. PICK s : s = Schedule(c) OBVIOUS
<1>3. PICK act : act = Sorted(Active(c), LAMBDA e, f : e < f)
                 /\ Enumerates(act, Active(c))
  BY InputOrderEnumerates
<1>4. PICK m \in Nat : m = Cardinality(Active(c)) BY ExpertsAreFinite, FS_CardinalityType
<1>5. PICK items : items = [i \in 1 .. m |-> [e |-> act[i], lo |-> 0, hi |-> c.N[act[i]]]]
  OBVIOUS
<1>6. s = ScheduleOf(c, plan, Seats(c, plan)) BY <1>1, <1>2 DEF Schedule, Planned
<1>7. s.tiles = <<[t \in 1 .. 1 |-> items]>>
  <2>1. s.tiles = WholeExperts(c) BY <1>1, <1>6 DEF ScheduleOf
  <2>2. DOMAIN act = 1 .. m BY <1>3, <1>4 DEF Enumerates
  <2>3. WholeExperts(c) =
          <<[t \in 1 .. 1 |->
               [i \in DOMAIN act |-> [e |-> act[i], lo |-> 0, hi |-> c.N[act[i]]]]]>>
    BY <1>3 DEF WholeExperts
  <2> QED BY <1>5, <2>1, <2>2, <2>3
<1>8. /\ s.activationPass = FALSE /\ s.endBarrier = FALSE
      /\ s.inTile = Fused(c) /\ s.fused = Fused(c) /\ s.M = c.M /\ s.N = c.N
      /\ s.scratch \in BOOLEAN /\ s.stopsAtFailure \in BOOLEAN /\ Fused(c) \in BOOLEAN
  <2>1. PICK pass \in BOOLEAN : pass = FALSE
          /\ pass = (Fused(c) /\ ~(plan.strategy = "Sequential")
                       /\ ~UseCustom(c) /\ ~TightEpilogue(c))
    BY <1>1
  <2>2. s.activationPass = FALSE BY <1>1, <1>6 DEF ScheduleOf
  <2>3. Fused(c) \in BOOLEAN BY DEF Fused
  <2>4. s.inTile = Fused(c) BY <1>1, <1>6, <2>3 DEF ScheduleOf
  <2>5. s.fused = Fused(c) /\ s.M = c.M /\ s.N = c.N BY <1>6 DEF ScheduleOf
  <2>6. s.scratch \in BOOLEAN /\ s.stopsAtFailure \in BOOLEAN BY <1>6 DEF ScheduleOf
  <2>7. (plan.strategy \in {"FewExperts", "ManyExperts"}) = FALSE BY <1>1
  <2>8. s.endBarrier = FALSE BY <1>6, <2>7 DEF ScheduleOf
  <2> QED BY <2>2, <2>3, <2>4, <2>5, <2>6, <2>8
<1>9. /\ DOMAIN s.tiles = {1} /\ Len(s.tiles) = 1 /\ DOMAIN s.tiles[1] = {1}
      /\ s.tiles[1][1] = items
  <2>1. 1 .. 1 = {1} OBVIOUS
  <2> QED BY <1>7, <2>1
<1>10. /\ Len(items) = m /\ DOMAIN items = 1 .. m
       /\ \A i \in 1 .. m : /\ items[i].e = act[i] /\ items[i].lo = 0
                            /\ items[i].hi = c.N[act[i]]
  BY <1>5
<1>11. /\ \A i \in 1 .. m : act[i] \in Active(c)
       /\ \A e \in Active(c) : \E i \in 1 .. m : act[i] = e
       /\ \A i, k \in 1 .. m : act[i] = act[k] => i = k
  BY <1>3, <1>4 DEF Enumerates
<1>12. \A e \in Active(c) : /\ e \in DOMAIN c.M /\ c.M[e] > 0
                            /\ c.N[e] \in Nat \ {0}
  BY ExpertsAreFinite DEF Active
<1>13. Partitions(s, s.tiles, s.N)
  <2>1. \A i \in 1 .. m : LET x == items[i]
          IN  /\ x.e \in DOMAIN s.M /\ s.M[x.e] > 0
              /\ x.lo \in Nat /\ x.hi \in Nat /\ x.lo < x.hi /\ x.hi <= s.N[x.e]
    <3> SUFFICES ASSUME NEW i \in 1 .. m, NEW x, x = items[i]
                 PROVE  /\ x.e \in DOMAIN s.M /\ s.M[x.e] > 0
                        /\ x.lo \in Nat /\ x.hi \in Nat /\ x.lo < x.hi /\ x.hi <= s.N[x.e]
        OBVIOUS
    <3>1. PICK w \in Nat \ {0} : w = c.N[act[i]] BY <1>11, <1>12
    <3>2. x.e = act[i] /\ x.lo = 0 /\ x.hi = w BY <1>10, <3>1
    <3>3. s.N[x.e] = w BY <1>8, <3>1, <3>2
    <3> QED BY <1>8, <1>11, <1>12, <3>2, <3>3
  <2>2. \A i, k \in 1 .. m : i # k => Apart(items[i], items[k])
    BY <1>10, <1>11 DEF Apart
  <2>3. ASSUME NEW e \in DOMAIN s.M, s.M[e] > 0, NEW x \in 0 .. s.N[e] - 1
        PROVE  \E i \in 1 .. m : Holds(items[i], e, x)
    <3>1. e \in Active(c) BY <1>8, <2>3, ExpertsAreFinite DEF Active
    <3>2. PICK i \in 1 .. m : act[i] = e BY <1>11, <3>1
    <3>3. items[i].e = e /\ items[i].lo = 0 /\ items[i].hi = s.N[e] BY <1>8, <1>10, <3>2
    <3>4. PICK w \in Nat : w = s.N[e] BY <1>8, <1>12, <3>1
    <3>5. 0 <= x /\ x < s.N[e] BY <3>4
    <3> QED BY <3>3, <3>5 DEF Holds
  <2>4. \A r, t : r \in DOMAIN s.tiles /\ t \in DOMAIN s.tiles[1]
          => r = 1 /\ t = 1 /\ s.tiles[r][t] = items /\ DOMAIN s.tiles[r] = DOMAIN s.tiles[1]
    BY <1>9
  <2>5. 1 \in DOMAIN s.tiles /\ 1 \in DOMAIN s.tiles[1] BY <1>9
  <2>6. \A r \in DOMAIN s.tiles :
          /\ DOMAIN s.tiles[r] = DOMAIN s.tiles[1]
          /\ \A t \in DOMAIN s.tiles[r] :
              /\ Len(s.tiles[r][t]) \in Nat
              /\ DOMAIN s.tiles[r][t] = 1 .. Len(s.tiles[r][t])
              /\ \A i \in DOMAIN s.tiles[r][t] :
                  LET x == s.tiles[r][t][i]
                  IN  /\ x.e \in DOMAIN s.M /\ s.M[x.e] > 0
                      /\ x.lo \in Nat /\ x.hi \in Nat /\ x.lo < x.hi /\ x.hi <= s.N[x.e]
    BY <1>9, <1>10, <2>1
  <2>7. \A r, q \in DOMAIN s.tiles : \A t, u \in DOMAIN s.tiles[1] :
          \A i \in DOMAIN s.tiles[r][t] : \A k \in DOMAIN s.tiles[q][u] :
            <<r, t, i>> # <<q, u, k>> => Apart(s.tiles[r][t][i], s.tiles[q][u][k])
    BY <1>10, <2>2, <2>4
  <2>8. \A e \in DOMAIN s.M : s.M[e] > 0 => \A x \in 0 .. s.N[e] - 1 :
          \E r \in DOMAIN s.tiles : \E t \in DOMAIN s.tiles[1] :
            \E i \in DOMAIN s.tiles[r][t] : Holds(s.tiles[r][t][i], e, x)
    BY <1>10, <2>3, <2>4, <2>5
  <2> QED BY <2>6, <2>7, <2>8 DEF Partitions
<1>14. /\ DOMAIN s.N = DOMAIN s.M
       /\ \A e \in DOMAIN s.M : s.M[e] \in Nat /\ s.N[e] \in Nat \ {0}
  <2>1. DOMAIN c.N = 1 .. Len(c.N) /\ Len(c.N) = Len(c.M)
    <3>1. \A R, q : q \in Seq(R) => DOMAIN q = 1 .. Len(q) OBVIOUS
    <3> QED BY <3>1, Zenon DEF IsSummary
  <2> QED BY <1>8, <2>1, ExpertsAreFinite
<1>15. DOMAIN s.tiles = 1 .. Len(s.tiles)
  <2>1. 1 .. 1 = {1} OBVIOUS
  <2> QED BY <1>9, <2>1
<1>16. {s.activationPass, s.endBarrier, s.inTile, s.scratch, s.stopsAtFailure, s.fused}
         \subseteq BOOLEAN
  BY <1>8
<1>17. /\ s.fused = (s.activationPass \/ s.inTile) /\ ~(s.activationPass /\ s.inTile)
       /\ ~s.activationPass
  BY <1>8
<1>18. Len(s.tiles) \in Nat \ {0} /\ ~(Len(s.tiles) > 1) BY <1>9
<1>19. IsSchedule(s)
  BY <1>13, <1>14, <1>15, <1>16, <1>17, <1>18 DEF IsSchedule
<1> QED BY <1>2, <1>19

\* Thread t of a round of experts with thr threads each has the seat local
\* of expert e, and each seat has one thread.
LEMMA SeatOfThread ==
  ASSUME NEW E \in Nat, NEW thr \in Nat \ {0}, NEW t \in 1 .. E * thr
  PROVE  /\ (t - 1) \div thr \in 0 .. E - 1
         /\ (t - 1) % thr \in 0 .. thr - 1
         /\ t - 1 = thr * ((t - 1) \div thr) + ((t - 1) % thr)
<1>1. E * thr \in Nat /\ E * thr = thr * E OBVIOUS
<1>2. t - 1 \in Nat /\ t - 1 < thr * E BY <1>1
<1>3. (t - 1) \div thr \in Nat BY <1>2, DivBounds
<1>4. (t - 1) \div thr < E BY <1>2, DivCompares
<1>5. (t - 1) % thr \in 0 .. thr - 1
      /\ t - 1 = thr * ((t - 1) \div thr) + ((t - 1) % thr)
  BY <1>2
<1> QED BY <1>3, <1>4, <1>5

HasThread(E, thr, e, l) ==
  \E t \in 1 .. E * thr : 1 + (t - 1) \div thr = e /\ (t - 1) % thr = l

LEMMA ThreadOfSeat ==
  ASSUME NEW E \in Nat, NEW thr \in Nat \ {0},
         NEW e \in 1 .. E, NEW l \in 0 .. thr - 1
  PROVE  HasThread(E, thr, e, l)
<1>1. PICK a \in Nat : a = thr * (e - 1) + l
  <2>1. thr * (e - 1) \in Nat OBVIOUS
  <2> QED BY <2>1
<1>2. e - 1 \in Nat /\ thr * ((e - 1) + 1) = thr * (e - 1) + thr
      /\ thr * (e - 1) \in Nat
  OBVIOUS
<1>3. thr * (e - 1) <= a /\ a < thr * e BY <1>1, <1>2
<1>4. e - 1 <= a \div thr /\ a \div thr < e BY <1>2, <1>3, DivCompares
<1>5. a \div thr = e - 1 /\ a \div thr \in Nat
  <2>1. a \div thr \in Nat BY DivBounds
  <2> QED BY <1>4, <2>1
<1>6. a % thr \in 0 .. thr - 1 /\ a = thr * (a \div thr) + (a % thr) OBVIOUS
<1>7. a % thr = l BY <1>1, <1>2, <1>5, <1>6
<1>8. a + 1 \in 1 .. E * thr
  <2>1. thr * e <= thr * E /\ thr * E \in Nat /\ thr * e \in Nat BY TimesMonotone
  <2>2. thr * E = E * thr OBVIOUS
  <2> QED BY <1>3, <2>1, <2>2
<1>9. (a + 1) - 1 = a OBVIOUS
<1>10. 1 + a \div thr = e BY <1>5
<1> QED BY <1>7, <1>8, <1>9, <1>10 DEF HasThread

-----------------------------------------------------------------------------
(* Seats of the rounds *)
\* Every round a plan can have gives each expert a thread and stays within
\* the team.
RoundsHold(c, plan) ==
  \A size \in 1 .. Ops(c) : size <= plan.batch =>
    /\ UniformThr(c, plan, size) \in Nat \ {0}
    /\ size * UniformThr(c, plan, size) <= c.threads

LEMMA RoundsHaveShape ==
  ASSUME NEW c, IsSummary(c), NEW plan, plan.batch \in Nat \ {0}, RoundsHold(c, plan),
         NEW first \in 1 .. Ops(c), NEW size, size = RoundSize(c, plan, first)
  PROVE  /\ size \in Nat \ {0} /\ first + size - 1 <= Ops(c)
         /\ UniformThr(c, plan, size) \in Nat \ {0}
         /\ size * UniformThr(c, plan, size) \in Nat
         /\ size * UniformThr(c, plan, size) <= c.threads
         /\ \A k \in 1 .. Ops(c) :
              k <= first + size - 1 <=> k <= first + plan.batch - 1
<1>1. PICK E \in Nat : E = Ops(c) BY ExpertsAreFinite
<1>2. PICK b \in Nat \ {0} : b = plan.batch OBVIOUS
<1>3. size = (IF E < first + b - 1 THEN E ELSE first + b - 1) - first + 1
  BY <1>1, <1>2 DEF RoundSize, AtMost
<1>4. size \in 1 .. E /\ size <= b /\ first + size - 1 <= E BY <1>1, <1>3
<1>5. \A k \in 1 .. E : k <= first + size - 1 <=> k <= first + b - 1 BY <1>1, <1>3
<1>6. PICK thr \in Nat \ {0} : thr = UniformThr(c, plan, size) /\ size * thr <= c.threads
  BY <1>1, <1>2, <1>4 DEF RoundsHold
<1>7. size * thr \in Nat BY <1>4, <1>6
<1> QED BY <1>1, <1>2, <1>4, <1>5, <1>6, <1>7

\* place[e] is where an order lists e.
PlacesOf(place, order, c) ==
  /\ place \in [Experts(c) -> 1 .. Ops(c)]
  /\ \A e \in Experts(c) : order[place[e]] = e
  /\ \A k \in 1 .. Ops(c) : order[k] \in Experts(c) /\ place[order[k]] = k

LEMMA OrderHasPlaces ==
  ASSUME NEW c, IsSummary(c), NEW order, Enumerates(order, Experts(c))
  PROVE  \E place : PlacesOf(place, order, c)
<1>1. DOMAIN order = 1 .. Ops(c) BY ExpertsAreFinite DEF Enumerates
<1>2. PICK place : place = [e \in Experts(c) |-> CHOOSE k \in 1 .. Ops(c) : order[k] = e]
  OBVIOUS
<1>3. \A e \in Experts(c) : place[e] \in 1 .. Ops(c) /\ order[place[e]] = e
  BY <1>1, <1>2 DEF Enumerates
<1>4. \A k \in 1 .. Ops(c) : order[k] \in Experts(c) BY <1>1 DEF Enumerates
<1>5. \A k \in 1 .. Ops(c) : place[order[k]] = k
  <2> SUFFICES ASSUME NEW k \in 1 .. Ops(c) PROVE place[order[k]] = k OBVIOUS
  <2>1. PICK e \in Experts(c) : e = order[k] BY <1>4
  <2>2. PICK j \in 1 .. Ops(c) : j = place[e] /\ order[j] = e BY <1>3
  <2>3. j = k BY <1>1, <2>1, <2>2 DEF Enumerates
  <2> QED BY <2>1, <2>2, <2>3
<1> QED BY <1>2, <1>3, <1>4, <1>5 DEF PlacesOf

\* The rounds' seats are a matching of threads and places in teams.
LEMMA RoundsAreSeated ==
  ASSUME NEW c, IsSummary(c), NEW plan, plan.perExpert = FALSE,
         Enumerates(plan.order, Experts(c)), plan.batch \in Nat \ {0}, RoundsHold(c, plan),
         NEW S, S = RoundsSeats(c, plan)
  PROVE  \E team, home : SeatsFit(c, S, team, home)
<1>1. PICK E, b, T \in Nat \ {0} : E = Ops(c) /\ b = plan.batch /\ T = c.threads
  <2>1. Ops(c) \in Nat \ {0} BY OpsIsPositive
  <2> QED BY <2>1 DEF IsSummary
<1>2. PICK order, place : order = plan.order /\ PlacesOf(place, order, c)
  BY OrderHasPlaces
<1>3. PICK R \in Nat \ {0} : R = CeilDiv(E, b) BY <1>1, RoundsCoverPlaces
<1>4. PICK first : first = [r \in 1 .. R |-> 1 + (r - 1) * b] OBVIOUS
<1>5. PICK size : size = [r \in 1 .. R |-> RoundSize(c, plan, first[r])] OBVIOUS
<1>6. PICK thr : thr = [r \in 1 .. R |-> UniformThr(c, plan, size[r])] OBVIOUS
<1>7. PICK round : round = [k \in 1 .. E |-> 1 + (k - 1) \div b] OBVIOUS
<1>8. \A r \in 1 .. R : first[r] \in 1 .. E BY <1>1, <1>3, <1>4, RoundsCoverPlaces
<1>9. ASSUME NEW r \in 1 .. R
      PROVE  /\ size[r] \in Nat \ {0} /\ thr[r] \in Nat \ {0} /\ size[r] * thr[r] \in Nat
             /\ size[r] * thr[r] <= T /\ first[r] + size[r] - 1 <= E
             /\ \A k \in 1 .. E : k <= first[r] + size[r] - 1 <=> k <= first[r] + b - 1
  <2>1. first[r] \in 1 .. Ops(c) /\ size[r] = RoundSize(c, plan, first[r])
        /\ thr[r] = UniformThr(c, plan, size[r])
    BY <1>1, <1>5, <1>6, <1>8
  <2> QED BY <1>1, <2>1, RoundsHaveShape
<1>10. ASSUME NEW k \in 1 .. E
       PROVE  /\ round[k] \in 1 .. R
              /\ \A r \in 1 .. R :
                   (first[r] <= k /\ k <= first[r] + size[r] - 1) <=> r = round[k]
  <2>1. /\ round[k] \in 1 .. R
        /\ \A r \in 1 .. R :
             (first[r] <= k /\ k <= first[r] + b - 1) <=> r = round[k]
    <3>1. /\ 1 + (k - 1) \div b \in 1 .. R
          /\ \A r \in 1 .. R : InRound(k, r, b) <=> r = 1 + (k - 1) \div b
      BY <1>1, <1>3, RoundsCoverPlaces
    <3>2. PICK q : q = 1 + (k - 1) \div b OBVIOUS
    <3>3. round[k] = q BY <1>7, <3>2
    <3>4. \A r \in 1 .. R : first[r] = 1 + (r - 1) * b BY <1>4
    <3> QED BY <3>1, <3>2, <3>3, <3>4 DEF InRound
  <2> QED BY <1>9, <2>1
<1>11. /\ DOMAIN S = 1 .. R /\ Len(S) = R
       /\ \A r \in 1 .. R : S[r] = [t \in 1 .. T |-> EvenSeat(plan, first[r], size[r], thr[r], t)]
  <2>1. S = [r \in 1 .. R |-> RoundSeats(c, plan, 1 + (r - 1) * b)]
    BY <1>1, <1>3 DEF RoundsSeats
  <2>2. ASSUME NEW r \in 1 .. R
        PROVE  S[r] = [t \in 1 .. T |-> EvenSeat(plan, first[r], size[r], thr[r], t)]
    <3>1. S[r] = RoundSeats(c, plan, first[r]) BY <1>4, <2>1
    <3>2. size[r] = RoundSize(c, plan, first[r]) /\ thr[r] = UniformThr(c, plan, size[r])
      BY <1>5, <1>6
    <3> QED BY <1>1, <3>1, <3>2 DEF RoundSeats
  <2> QED BY <1>3, <2>1, <2>2
<1>12. PICK home : home = [e \in Experts(c) |-> round[place[e]]] OBVIOUS
<1>13. PICK team : team = [e \in Experts(c) |-> thr[home[e]]] OBVIOUS
<1>14. \A e \in Experts(c) : /\ place[e] \in 1 .. E /\ home[e] = round[place[e]]
                             /\ home[e] \in 1 .. R /\ team[e] = thr[home[e]]
                             /\ team[e] \in Nat \ {0}
  BY <1>1, <1>2, <1>9, <1>10, <1>12, <1>13 DEF PlacesOf
<1>15. \A r \in 1 .. R : \A t \in 1 .. T :
         \/ S[r][t] = <<>>
         \/ /\ t <= size[r] * thr[r]
            /\ S[r][t] = <<Seat(order[first[r] + (t - 1) \div thr[r]], (t - 1) % thr[r], thr[r])>>
  BY <1>2, <1>11 DEF EvenSeat
<1> DEFINE Placed(x, r, t) ==
             /\ x.e \in Experts(c) /\ x.local \in Nat /\ x.team = team[x.e] /\ home[x.e] = r
             /\ \E d \in Nat : place[x.e] = first[r] + d /\ t - 1 = thr[r] * d + x.local
<1>16. ASSUME NEW r \in 1 .. R, NEW t \in 1 .. T
       PROVE  /\ Len(S[r][t]) \in Nat /\ DOMAIN S[r][t] = 1 .. Len(S[r][t])
              /\ \A i \in DOMAIN S[r][t] : i = 1 /\ Placed(S[r][t][i], r, t)
  <2>1. CASE S[r][t] = <<>> BY <2>1
  <2>2. CASE S[r][t] # <<>>
    <3>1. PICK s, h : s = size[r] /\ h = thr[r] OBVIOUS
    <3>2. s \in Nat \ {0} /\ h \in Nat \ {0} /\ s * h \in Nat BY <1>9, <3>1
    <3>3. t \in 1 .. s * h BY <1>15, <2>2, <3>1, <3>2
    <3>4. PICK q, l : q = (t - 1) \div h /\ l = (t - 1) % h OBVIOUS
    <3>5. q \in 0 .. s - 1 /\ l \in 0 .. h - 1 /\ t - 1 = h * q + l BY <3>2, <3>3, <3>4, SeatOfThread
    <3>6. PICK k \in 1 .. E : k = first[r] + q /\ round[k] = r
      <4>1. PICK f \in 1 .. E : f = first[r] BY <1>8
      <4>2. f + s - 1 <= E BY <1>9, <3>1, <4>1
      <4>3. f + q \in 1 .. E /\ f <= f + q /\ f + q <= f + s - 1
        BY <3>2, <3>5, <4>2
      <4>4. round[f + q] = r BY <1>10, <3>1, <4>1, <4>3
      <4> QED BY <4>1, <4>3, <4>4
    <3>7. PICK e \in Experts(c) : e = order[k] /\ place[e] = k
      BY <1>1, <1>2 DEF PlacesOf
    <3>8. S[r][t] = <<Seat(e, l, h)>> BY <1>15, <2>2, <3>1, <3>4, <3>6, <3>7
    <3>9. home[e] = r /\ team[e] = h BY <1>14, <3>1, <3>6, <3>7
    <3>10. PICK x : x = Seat(e, l, h) OBVIOUS
    <3>11. x.e = e /\ x.local = l /\ x.team = h BY <3>10 DEF Seat
    <3>12. /\ Len(S[r][t]) = 1 /\ DOMAIN S[r][t] = 1 .. 1 /\ S[r][t][1] = x
      BY <3>8, <3>10
    <3>13. \A i \in DOMAIN S[r][t] : i = 1 BY <3>12
    <3>14. q \in Nat /\ l \in Nat BY <3>2, <3>5
    <3>15. \E d \in Nat : place[x.e] = first[r] + d /\ t - 1 = thr[r] * d + x.local
      BY <3>1, <3>5, <3>6, <3>7, <3>11, <3>14
    <3>16. Placed(x, r, t) BY <3>1, <3>7, <3>9, <3>11, <3>14, <3>15
    <3> HIDE DEF Placed
    <3> QED BY <3>12, <3>13, <3>16
  <2> QED BY <2>1, <2>2
<1> HIDE DEF Placed
<1>17. /\ DOMAIN S = 1 .. R /\ DOMAIN S[1] = 1 .. T /\ 1 \in 1 .. R /\ Len(S) \in Nat \ {0}
       /\ \A r \in 1 .. R : DOMAIN S[r] = 1 .. T
  BY <1>3, <1>11
<1>18. SeatsAreExperts(S, Experts(c), team, home)
  <2>1. team \in [Experts(c) -> Nat \ {0}] BY <1>13, <1>14
  <2>2. ASSUME NEW r \in DOMAIN S, NEW t \in DOMAIN S[1]
        PROVE  /\ Len(S[r][t]) \in Nat /\ DOMAIN S[r][t] = 1 .. Len(S[r][t])
               /\ \A i \in DOMAIN S[r][t] :
                     /\ S[r][t][i].e \in Experts(c) /\ S[r][t][i].local \in Nat
                     /\ S[r][t][i].team = team[S[r][t][i].e] /\ home[S[r][t][i].e] = r
    <3>1. r \in 1 .. R /\ t \in 1 .. T BY <1>17
    <3>2. \A x : Placed(x, r, t) => /\ x.e \in Experts(c) /\ x.local \in Nat
                                   /\ x.team = team[x.e] /\ home[x.e] = r
      BY DEF Placed
    <3> QED BY <1>16, <3>1, <3>2
  <2>3. \A r \in DOMAIN S : DOMAIN S[r] = DOMAIN S[1] BY <1>17
  <2>4. Len(S) \in Nat \ {0} /\ DOMAIN S = 1 .. Len(S) BY <1>11, <1>17
  <2> QED BY <2>1, <2>2, <2>3, <2>4 DEF SeatsAreExperts
<1>20. SeatsAreApart(S)
  <2> SUFFICES ASSUME NEW r \in DOMAIN S, NEW q \in DOMAIN S,
                      NEW t \in DOMAIN S[1], NEW u \in DOMAIN S[1],
                      NEW i \in DOMAIN S[r][t], NEW k \in DOMAIN S[q][u],
                      S[r][t][i].e = S[q][u][k].e, S[r][t][i].local = S[q][u][k].local
               PROVE  r = q /\ t = u /\ i = k
    BY DEF SeatsAreApart
  <2>1. r \in 1 .. R /\ q \in 1 .. R /\ t \in 1 .. T /\ u \in 1 .. T BY <1>17
  <2>2. PICK x, y : x = S[r][t][i] /\ y = S[q][u][k] OBVIOUS
  <2>3. i = 1 /\ k = 1 /\ Placed(x, r, t) /\ Placed(y, q, u) BY <1>16, <2>1, <2>2
  <2>4. x.e = y.e /\ x.local = y.local BY <2>2
  <2>5. r = q BY <2>3, <2>4 DEF Placed
  <2>6. PICK f \in 1 .. E, h \in Nat \ {0} : f = first[r] /\ h = thr[r] BY <1>8, <1>9, <2>1
  <2>7. PICK l, p \in Nat : l = x.local /\ p = place[x.e]
    BY <1>14, <2>3 DEF Placed
  <2>8. PICK d \in Nat : p = f + d /\ t - 1 = h * d + l BY <2>3, <2>6, <2>7 DEF Placed
  <2>9. PICK g \in Nat : p = f + g /\ u - 1 = h * g + l
    BY <2>3, <2>4, <2>5, <2>6, <2>7 DEF Placed
  <2>10. d = g BY <2>8, <2>9
  <2>11. t - 1 = u - 1 BY <2>8, <2>9, <2>10
  <2> QED BY <2>1, <2>3, <2>5, <2>11
<1>19. SeatsAreTaken(S, Active(c), team)
  <2> SUFFICES ASSUME NEW e \in Active(c), NEW l \in 0 .. team[e] - 1
               PROVE  \E r \in DOMAIN S : \E t \in DOMAIN S[1] : \E i \in DOMAIN S[r][t] :
                        S[r][t][i].e = e /\ S[r][t][i].local = l
    BY DEF SeatsAreTaken
  <2>0. e \in Experts(c) BY ExpertsAreFinite
  <2>1. PICK r \in 1 .. R : r = home[e] /\ r = round[place[e]] BY <1>14, <2>0
  <2>2. PICK k \in 1 .. E : k = place[e] /\ order[k] = e BY <1>1, <1>2, <1>14, <2>0 DEF PlacesOf
  <2>3. PICK s, h \in Nat \ {0} : s = size[r] /\ h = thr[r] BY <1>9
  <2>4. PICK f \in 1 .. E : f = first[r] BY <1>8
  <2>5. f <= k /\ k <= f + s - 1 BY <1>10, <2>1, <2>2, <2>3, <2>4
  <2>6. l \in 0 .. h - 1 BY <1>14, <2>0, <2>1, <2>3
  <2>7. k - f + 1 \in 1 .. s BY <2>5
  <2>8. PICK t \in 1 .. s * h : 1 + (t - 1) \div h = k - f + 1 /\ (t - 1) % h = l
    <3>1. PICK m \in 1 .. s : m = k - f + 1 BY <2>7
    <3>2. s \in Nat /\ h \in Nat \ {0} /\ m \in 1 .. s /\ l \in 0 .. h - 1 BY <2>6, <3>1
    <3>3. HasThread(s, h, m, l) BY <3>2, ThreadOfSeat
    <3> QED BY <3>1, <3>3 DEF HasThread
  <2>9. s * h \in Nat /\ s * h <= T BY <1>9, <2>3
  <2>10. t \in 1 .. T BY <2>8, <2>9
  <2>11. f + (t - 1) \div h = k
    <3>1. (t - 1) \div h \in Nat BY <2>3, <2>8, SeatOfThread
    <3> QED BY <2>8, <3>1
  <2>12. S[r][t] = <<Seat(e, l, h)>>
    <3>1. S[r][t] = EvenSeat(plan, f, s, h, t) BY <1>11, <2>3, <2>4, <2>10
    <3>2. t <= s * h BY <2>8, <2>9
    <3> QED BY <1>2, <2>2, <2>8, <2>11, <3>1, <3>2 DEF EvenSeat
  <2>13. PICK x : x = Seat(e, l, h) OBVIOUS
  <2>14. x.e = e /\ x.local = l BY <2>13 DEF Seat
  <2>15. 1 \in DOMAIN S[r][t] /\ S[r][t][1] = x BY <2>12, <2>13
  <2>16. r \in DOMAIN S /\ t \in DOMAIN S[1] BY <1>17, <2>1, <2>10
  <2> QED BY <2>14, <2>15, <2>16
<1> QED BY <1>18, <1>19, <1>20 DEF SeatsFit

-----------------------------------------------------------------------------
(* Seats of the decode executors *)
\* One expert after another, each with the same team.
LEMMA DecodeDIsSeated ==
  ASSUME NEW c, IsSummary(c), NEW plan, plan.thrPerExpert \in Nat \ {0},
         NEW S, S = DecodeDSeats(c, plan)
  PROVE  \E team, home : SeatsFit(c, S, team, home)
<1>1. PICK E, h \in Nat \ {0} : E = Ops(c) /\ h = plan.thrPerExpert
  <2>1. Ops(c) \in Nat \ {0} BY OpsIsPositive
  <2> QED BY <2>1
<1>2. PICK T \in Nat : T = E * h
  <2>1. E * h \in Nat OBVIOUS
  <2> QED BY <2>1
<1>3. Experts(c) = 1 .. E BY <1>1 DEF Experts
<1>4. PICK team, home : team = [e \in 1 .. E |-> h] /\ home = [e \in 1 .. E |-> 1] OBVIOUS
<1>5. S = <<[t \in 1 .. T |-> <<Seat(1 + (t - 1) \div h, (t - 1) % h, h)>>]>>
  BY <1>1, <1>2 DEF DecodeDSeats
<1>6. /\ DOMAIN S = {1} /\ DOMAIN S[1] = 1 .. T /\ Len(S) = 1
      /\ \A t \in 1 .. T : S[1][t] = <<Seat(1 + (t - 1) \div h, (t - 1) % h, h)>>
  <2>1. PICK g : g = [t \in 1 .. T |-> <<Seat(1 + (t - 1) \div h, (t - 1) % h, h)>>] OBVIOUS
  <2>2. S = <<g>> BY <1>5, <2>1
  <2>3. DOMAIN S = {1} /\ S[1] = g /\ Len(S) = 1 BY <2>2
  <2>4. DOMAIN g = 1 .. T BY <2>1
  <2>5. \A t \in 1 .. T : g[t] = <<Seat(1 + (t - 1) \div h, (t - 1) % h, h)>> BY <2>1
  <2> QED BY <2>3, <2>4, <2>5
<1>7. ASSUME NEW t \in 1 .. T, NEW i \in DOMAIN S[1][t], NEW x, x = S[1][t][i]
      PROVE  /\ i = 1 /\ x.e \in 1 .. E /\ x.local \in Nat /\ x.team = h
             /\ t - 1 = h * (x.e - 1) + x.local
  <2>1. PICK q, l : q = (t - 1) \div h /\ l = (t - 1) % h OBVIOUS
  <2>2. q \in 0 .. E - 1 /\ l \in 0 .. h - 1 /\ t - 1 = h * q + l
    BY <1>2, <2>1, SeatOfThread
  <2>3. PICK y : y = Seat(1 + q, l, h) OBVIOUS
  <2>4. y.e = 1 + q /\ y.local = l /\ y.team = h BY <2>3 DEF Seat
  <2>5. S[1][t] = <<y>> BY <1>6, <2>1, <2>3
  <2>6. i = 1 /\ x = y BY <1>7, <2>5
  <2>7. (1 + q) - 1 = q /\ 1 + q \in 1 .. E /\ l \in Nat BY <2>2
  <2> QED BY <2>2, <2>4, <2>6, <2>7
<1>8. \A t \in 1 .. T : Len(S[1][t]) = 1 /\ DOMAIN S[1][t] = 1 .. 1
  <2>1. \A y : Len(<<y>>) = 1 /\ DOMAIN <<y>> = 1 .. 1 OBVIOUS
  <2> QED BY <1>6, <2>1
<1>9. SeatsAreExperts(S, Experts(c), team, home)
  <2>1. team \in [Experts(c) -> Nat \ {0}] BY <1>3, <1>4
  <2>2. 1 .. 1 = {1} /\ 1 \in Nat \ {0} OBVIOUS
  <2>3. ASSUME NEW r \in DOMAIN S, NEW t \in DOMAIN S[1]
        PROVE  /\ Len(S[r][t]) \in Nat /\ DOMAIN S[r][t] = 1 .. Len(S[r][t])
               /\ \A i \in DOMAIN S[r][t] :
                     /\ S[r][t][i].e \in Experts(c) /\ S[r][t][i].local \in Nat
                     /\ S[r][t][i].team = team[S[r][t][i].e] /\ home[S[r][t][i].e] = r
    <3>1. r = 1 /\ t \in 1 .. T BY <1>6
    <3>2. \A i \in DOMAIN S[1][t] :
            /\ S[1][t][i].e \in Experts(c) /\ S[1][t][i].local \in Nat
            /\ S[1][t][i].team = team[S[1][t][i].e] /\ home[S[1][t][i].e] = 1
      BY <1>3, <1>4, <1>7, <3>1
    <3> QED BY <1>8, <3>1, <3>2
  <2> QED BY <1>6, <2>1, <2>2, <2>3 DEF SeatsAreExperts
<1>10. SeatsAreApart(S)
  <2> SUFFICES ASSUME NEW r \in DOMAIN S, NEW q \in DOMAIN S,
                      NEW t \in DOMAIN S[1], NEW u \in DOMAIN S[1],
                      NEW i \in DOMAIN S[r][t], NEW k \in DOMAIN S[q][u],
                      S[r][t][i].e = S[q][u][k].e, S[r][t][i].local = S[q][u][k].local
               PROVE  r = q /\ t = u /\ i = k
    BY DEF SeatsAreApart
  <2>1. r = 1 /\ q = 1 /\ t \in 1 .. T /\ u \in 1 .. T BY <1>6
  <2>2. PICK x, y : x = S[r][t][i] /\ y = S[q][u][k] OBVIOUS
  <2>3. i = 1 /\ k = 1 /\ t - 1 = h * (x.e - 1) + x.local /\ u - 1 = h * (y.e - 1) + y.local
    BY <1>7, <2>1, <2>2
  <2>4. x.e = y.e /\ x.local = y.local BY <2>2
  <2>5. t - 1 = u - 1 BY <2>3, <2>4
  <2> QED BY <2>1, <2>3, <2>5
<1>11. SeatsAreTaken(S, Active(c), team)
  <2> SUFFICES ASSUME NEW e \in Active(c), NEW l \in 0 .. team[e] - 1
               PROVE  \E r \in DOMAIN S : \E t \in DOMAIN S[1] : \E i \in DOMAIN S[r][t] :
                        S[r][t][i].e = e /\ S[r][t][i].local = l
    BY DEF SeatsAreTaken
  <2>1. e \in 1 .. E BY <1>3, ExpertsAreFinite
  <2>2. l \in 0 .. h - 1 BY <1>4, <2>1
  <2>3. HasThread(E, h, e, l) BY <2>1, <2>2, ThreadOfSeat
  <2>4. PICK t \in 1 .. T : 1 + (t - 1) \div h = e /\ (t - 1) % h = l
    BY <1>2, <2>3 DEF HasThread
  <2>5. PICK y : y = Seat(e, l, h) OBVIOUS
  <2>6. y.e = e /\ y.local = l BY <2>5 DEF Seat
  <2>7. S[1][t] = <<y>> BY <1>6, <2>4, <2>5
  <2>8. 1 \in DOMAIN S[1][t] /\ S[1][t][1] = y BY <2>7
  <2> QED BY <1>6, <2>6, <2>8
<1> QED BY <1>9, <1>10, <1>11 DEF SeatsFit

\* A team of the lanes of one CCD: the CCDs cover the threads, and none is
\* without a lane.
LEMMA CcdsCoverThreads ==
  ASSUME NEW c, IsSummary(c)
  PROVE  /\ c.ccdSize \in 1 .. c.threads /\ c.numCcds \in Nat \ {0} /\ c.numCcds <= c.threads
         /\ \A d \in 0 .. c.numCcds - 1 : d * c.ccdSize \in 0 .. c.threads - 1
         /\ \A t \in 1 .. c.threads : (t - 1) \div c.ccdSize \in 0 .. c.numCcds - 1
<1>1. PICK T \in Nat \ {0} : T = c.threads BY DEF IsSummary
<1>2. PICK b \in 1 .. T : b = c.ccdSize
  BY <1>1, CcdHasLanes DEF IsSummary, CcdSize, AtMost
<1>3. PICK R \in Nat \ {0} : R = c.numCcds /\ R = CeilDiv(T, b)
  <2>1. c.numCcds = CeilDiv(T, b) BY <1>1, <1>2 DEF IsSummary, NumCcds
  <2>2. CeilDiv(T, b) \in Nat \ {0} BY RoundsCoverPlaces
  <2> QED BY <2>1, <2>2
<1>4. ASSUME NEW d \in 0 .. R - 1 PROVE d * b \in 0 .. T - 1
  <2>1. PICK r \in 1 .. R : r = d + 1 BY <1>3
  <2>2. 1 + (r - 1) * b \in 1 .. T BY <1>3, RoundsCoverPlaces
  <2>3. r - 1 = d BY <2>1
  <2>4. 1 + d * b \in 1 .. T BY <2>2, <2>3
  <2>5. d * b \in Nat OBVIOUS
  <2> QED BY <2>4, <2>5
<1>5. ASSUME NEW t \in 1 .. T PROVE (t - 1) \div b \in 0 .. R - 1
  <2>1. 1 + (t - 1) \div b \in 1 .. R
    <3>1. b \in Nat \ {0} OBVIOUS
    <3>2. \A k \in 1 .. T : 1 + (k - 1) \div b \in 1 .. CeilDiv(T, b)
      BY <3>1, RoundsCoverPlaces
    <3> QED BY <1>3, <3>2
  <2>2. (t - 1) \div b \in Nat
    <3>1. t - 1 \in Nat OBVIOUS
    <3> QED BY <3>1, DivBounds
  <2> QED BY <2>1, <2>2
<1>6. R <= T
  <2>1. (R - 1) * b \in 0 .. T - 1 BY <1>3, <1>4
  <2>2. PICK p \in Nat : p = R - 1 BY <1>3
  <2>3. p * 1 <= p * b BY TimesMonotone
  <2>4. p * b \in 0 .. T - 1 BY <2>1, <2>2
  <2> QED BY <2>2, <2>3, <2>4
<1> QED BY <1>1, <1>2, <1>3, <1>4, <1>5, <1>6

\* The CCDs in turn, each with every lane of its own.
LEMMA DynamicIsSeated ==
  ASSUME NEW c, IsSummary(c), NEW S, S = DynamicSeats(c)
  PROVE  \E team, home : SeatsFit(c, S, team, home)
<1>1. PICK T, C \in Nat \ {0} : T = c.threads /\ C = c.numCcds
  BY CcdsCoverThreads DEF IsSummary
<1>2. PICK b \in 1 .. T : b = c.ccdSize BY <1>1, CcdsCoverThreads
<1>3. /\ \A d \in 0 .. C - 1 : d * b \in 0 .. T - 1
      /\ \A t \in 1 .. T : (t - 1) \div b \in 0 .. C - 1
  BY <1>1, <1>2, CcdsCoverThreads
<1>4. PICK desc : desc = ByRowsDesc(c, Active(c)) /\ Enumerates(desc, Active(c))
  BY ExpertsAreFinite, RowsDescEnumerates
<1>5. PICK L \in Nat : L = Cardinality(Active(c)) /\ L = Len(desc) /\ DOMAIN desc = 1 .. L
  <2>1. PICK m \in Nat : m = Cardinality(Active(c)) BY ExpertsAreFinite, FS_CardinalityType
  <2>2. DOMAIN desc = 1 .. m BY <1>4, <2>1 DEF Enumerates
  <2>3. Len(desc) = m BY <2>2
  <2> QED BY <2>1, <2>2, <2>3
<1>6. PICK place : /\ place \in [Active(c) -> 1 .. L]
                   /\ \A e \in Active(c) : desc[place[e]] = e
                   /\ \A k \in 1 .. L : desc[k] \in Active(c) /\ place[desc[k]] = k
  <2>1. PICK f : f = [e \in Active(c) |-> CHOOSE k \in 1 .. L : desc[k] = e] OBVIOUS
  <2>2. \A e \in Active(c) : f[e] \in 1 .. L /\ desc[f[e]] = e
    BY <1>4, <1>5, <2>1 DEF Enumerates
  <2>3. \A k \in 1 .. L : desc[k] \in Active(c) BY <1>4, <1>5 DEF Enumerates
  <2>4. ASSUME NEW k \in 1 .. L PROVE f[desc[k]] = k
    <3>1. PICK e \in Active(c) : e = desc[k] BY <2>3
    <3>2. PICK j \in 1 .. L : j = f[e] /\ desc[j] = e BY <2>2
    <3>3. j = k BY <1>4, <1>5, <3>1, <3>2 DEF Enumerates
    <3> QED BY <3>1, <3>2, <3>3
  <2> QED BY <2>1, <2>2, <2>3, <2>4
<1>7. PICK lanes : lanes = [d \in 0 .. C - 1 |-> AtMost(b, T - d * b)] OBVIOUS
<1>8. \A d \in 0 .. C - 1 : lanes[d] \in 1 .. b /\ d * b \in Nat /\ d * b + lanes[d] <= T
  <2> SUFFICES ASSUME NEW d \in 0 .. C - 1
               PROVE  lanes[d] \in 1 .. b /\ d * b \in Nat /\ d * b + lanes[d] <= T
      OBVIOUS
  <2>1. PICK p \in Nat : p = d * b /\ p <= T - 1 BY <1>3
  <2>2. lanes[d] = IF b < T - p THEN b ELSE T - p BY <1>7, <2>1 DEF AtMost
  <2> QED BY <2>1, <2>2
<1>9. PICK ccd : ccd = [e \in Active(c) |-> (place[e] - 1) % C] OBVIOUS
<1>10. PICK team, home :
         /\ team = [e \in Experts(c) |-> IF e \in Active(c) THEN lanes[ccd[e]] ELSE 1]
         /\ home = [e \in Experts(c) |-> 1]
  OBVIOUS
<1>11. \A e \in Active(c) :
         /\ e \in Experts(c) /\ place[e] \in 1 .. L /\ ccd[e] = (place[e] - 1) % C
         /\ ccd[e] \in 0 .. C - 1 /\ team[e] = lanes[ccd[e]]
  <2> SUFFICES ASSUME NEW e \in Active(c)
               PROVE  /\ e \in Experts(c) /\ place[e] \in 1 .. L
                      /\ ccd[e] = (place[e] - 1) % C /\ ccd[e] \in 0 .. C - 1
                      /\ team[e] = lanes[ccd[e]]
      OBVIOUS
  <2>1. e \in Experts(c) BY ExpertsAreFinite
  <2>2. PICK p \in 1 .. L : p = place[e] BY <1>6
  <2>3. (p - 1) % C \in 0 .. C - 1
    <3>1. p - 1 \in Nat OBVIOUS
    <3> QED BY <3>1
  <2> QED BY <1>9, <1>10, <2>1, <2>2, <2>3
<1> DEFINE turns(d, l) ==
             [i \in 1 .. 1 + (L - 1 - d) \div C |->
                 Seat(desc[1 + d + (i - 1) * C], l, AtMost(b, T - d * b))]
<1>12. PICK round : round = [t \in 1 .. T |->
          IF (t - 1) \div b >= L THEN <<>> ELSE turns((t - 1) \div b, (t - 1) % b)]
  OBVIOUS
<1>13. S = <<round>> BY <1>1, <1>2, <1>4, <1>5, <1>12 DEF DynamicSeats
<1> HIDE DEF turns
<1>14. DOMAIN S = {1} /\ Len(S) = 1 /\ S[1] = round /\ DOMAIN round = 1 .. T
  <2>1. DOMAIN S = {1} /\ Len(S) = 1 /\ S[1] = round BY <1>13
  <2>2. DOMAIN round = 1 .. T BY <1>12
  <2> QED BY <2>1, <2>2

\* A seat of thread t is in turn i of its CCD d.
<1> DEFINE Dealt(x, t, i) ==
             \E d \in 0 .. C - 1 : \E l \in 0 .. b - 1 :
               /\ t - 1 = b * d + l /\ x.local = l /\ x.e \in Active(c)
               /\ place[x.e] = 1 + d + (i - 1) * C /\ x.team = lanes[d]
<1>15. ASSUME NEW t \in 1 .. T
       PROVE  /\ Len(round[t]) \in Nat /\ DOMAIN round[t] = 1 .. Len(round[t])
              /\ \A i \in DOMAIN round[t] : Dealt(round[t][i], t, i)
  <2>1. PICK d \in 0 .. C - 1 : d = (t - 1) \div b BY <1>3
  <2>2. PICK l \in 0 .. b - 1 : l = (t - 1) % b /\ t - 1 = b * d + l
    <3>1. t - 1 \in Nat /\ b \in Nat \ {0} BY <1>1
    <3>2. (t - 1) % b \in 0 .. b - 1 /\ t - 1 = b * ((t - 1) \div b) + ((t - 1) % b)
      BY <3>1
    <3> QED BY <2>1, <3>2
  <2>3. CASE d >= L
    <3>1. round[t] = <<>> BY <1>12, <2>1, <2>3
    <3>2. Len(<<>>) = 0 /\ DOMAIN <<>> = {} /\ 1 .. 0 = {} OBVIOUS
    <3> HIDE DEF Dealt
    <3> QED BY <3>1, <3>2
  <2>4. CASE d < L
    <3>1. PICK n \in Nat : n = (L - 1 - d) \div C /\ C * n <= L - 1 - d
      <4>1. L - 1 - d \in Nat BY <2>4
      <4> QED BY <1>1, <4>1, DivBounds
    <3>2. round[t] = [i \in 1 .. 1 + n |-> Seat(desc[1 + d + (i - 1) * C], l, lanes[d])]
      <4>1. lanes[d] = AtMost(b, T - d * b) BY <1>7
      <4>2. round[t] = turns(d, l) BY <1>12, <2>1, <2>2, <2>4
      <4>3. turns(d, l) =
              [i \in 1 .. 1 + n |-> Seat(desc[1 + d + (i - 1) * C], l, AtMost(b, T - d * b))]
        BY <3>1 DEF turns
      <4>4. PICK a : a = AtMost(b, T - d * b) OBVIOUS
      <4> QED BY <4>1, <4>2, <4>3, <4>4
    <3>3. Len(round[t]) = 1 + n /\ DOMAIN round[t] = 1 .. 1 + n /\ 1 + n \in Nat BY <3>2
    <3>4. ASSUME NEW i \in 1 .. 1 + n PROVE Dealt(round[t][i], t, i)
      <4>1. PICK j \in Nat : j = i - 1 /\ j <= n
        <5>1. i - 1 \in Nat /\ i - 1 <= n OBVIOUS
        <5> QED BY <5>1
      <4>2. C * j <= C * n /\ C * j \in Nat BY <4>1, TimesMonotone
      <4>3. C * n \in Nat /\ j * C = C * j OBVIOUS
      <4>4. PICK k \in 1 .. L : k = 1 + d + (i - 1) * C
        <5>1. 1 + d + j * C \in 1 .. L BY <2>4, <3>1, <4>2, <4>3
        <5> QED BY <4>1, <5>1
      <4>5. PICK e \in Active(c) : e = desc[k] /\ place[e] = k BY <1>6
      <4>6. PICK y : y = Seat(e, l, lanes[d]) OBVIOUS
      <4>7. y.e = e /\ y.local = l /\ y.team = lanes[d] BY <4>6 DEF Seat
      <4>8. round[t][i] = y BY <3>2, <4>4, <4>5, <4>6
      <4> QED BY <2>2, <4>4, <4>5, <4>7, <4>8
    <3> HIDE DEF Dealt
    <3>5. \A i \in DOMAIN round[t] : Dealt(round[t][i], t, i) BY <3>3, <3>4
    <3> QED BY <3>3, <3>5
  <2> HIDE DEF Dealt
  <2> QED BY <2>3, <2>4
<1> HIDE DEF Dealt
<1>16. SeatsAreExperts(S, Experts(c), team, home)
  <2>1. team \in [Experts(c) -> Nat \ {0}]
    <3>1. \A e \in Experts(c) : team[e] \in Nat \ {0}
      <4> SUFFICES ASSUME NEW e \in Experts(c) PROVE team[e] \in Nat \ {0} OBVIOUS
      <4>1. CASE e \in Active(c)
        <5>1. team[e] \in 1 .. b BY <1>8, <1>11, <4>1
        <5> QED BY <5>1
      <4>2. CASE e \notin Active(c) BY <1>10, <4>2
      <4> QED BY <4>1, <4>2
    <3> QED BY <1>10, <3>1
  <2>2. 1 .. 1 = {1} /\ 1 \in Nat \ {0} OBVIOUS
  <2>3. ASSUME NEW x, NEW t \in 1 .. T, NEW i \in Nat \ {0}, Dealt(x, t, i)
        PROVE  /\ x.e \in Experts(c) /\ x.local \in Nat
               /\ x.team = team[x.e] /\ home[x.e] = 1
    <3>1. PICK d \in 0 .. C - 1, l \in 0 .. b - 1 :
             /\ t - 1 = b * d + l /\ x.local = l /\ x.e \in Active(c)
             /\ place[x.e] = 1 + d + (i - 1) * C /\ x.team = lanes[d]
      BY <2>3 DEF Dealt
    <3>2. PICK e \in Active(c) : e = x.e BY <3>1
    <3>3. PICK j \in Nat : j = i - 1
      <4>1. i - 1 \in Nat OBVIOUS
      <4> QED BY <4>1
    <3>4. place[e] - 1 = C * j + d
      <4>1. C * j \in Nat /\ C * j = j * C OBVIOUS
      <4>2. place[e] = 1 + d + j * C BY <3>1, <3>2, <3>3
      <4> QED BY <4>1, <4>2
    <3>5. (place[e] - 1) % C = d
      <4>1. PICK p : p = place[e] - 1 OBVIOUS
      <4>2. p = C * j + d BY <3>4, <4>1
      <4>3. p % C = d BY <4>2, DivIs
      <4> QED BY <4>1, <4>3
    <3>6. ccd[e] = d BY <1>11, <3>5
    <3>7. team[e] = lanes[d] /\ e \in Experts(c) BY <1>11, <3>6
    <3>8. l \in Nat /\ home[e] = 1 BY <1>10, <3>7
    <3> QED BY <3>1, <3>2, <3>7, <3>8
  <2>4. ASSUME NEW r \in DOMAIN S, NEW t \in DOMAIN S[1]
        PROVE  /\ Len(S[r][t]) \in Nat /\ DOMAIN S[r][t] = 1 .. Len(S[r][t])
               /\ \A i \in DOMAIN S[r][t] :
                     /\ S[r][t][i].e \in Experts(c) /\ S[r][t][i].local \in Nat
                     /\ S[r][t][i].team = team[S[r][t][i].e] /\ home[S[r][t][i].e] = r
    <3>1. r = 1 /\ t \in 1 .. T /\ S[r][t] = round[t] BY <1>14
    <3>2. PICK m \in Nat : m = Len(round[t]) /\ DOMAIN round[t] = 1 .. m BY <1>15, <3>1
    <3>3. ASSUME NEW i \in DOMAIN round[t]
          PROVE  /\ round[t][i].e \in Experts(c) /\ round[t][i].local \in Nat
                 /\ round[t][i].team = team[round[t][i].e] /\ home[round[t][i].e] = 1
      <4>1. i \in Nat \ {0} BY <3>2
      <4>2. Dealt(round[t][i], t, i) BY <1>15, <3>1
      <4> QED BY <2>3, <3>1, <4>1, <4>2
    <3> QED BY <3>1, <3>2, <3>3
  <2> QED BY <1>14, <2>1, <2>2, <2>4 DEF SeatsAreExperts
<1>17. SeatsAreApart(S)
  <2> SUFFICES ASSUME NEW r \in DOMAIN S, NEW q \in DOMAIN S,
                      NEW t \in DOMAIN S[1], NEW u \in DOMAIN S[1],
                      NEW i \in DOMAIN S[r][t], NEW k \in DOMAIN S[q][u],
                      S[r][t][i].e = S[q][u][k].e, S[r][t][i].local = S[q][u][k].local
               PROVE  r = q /\ t = u /\ i = k
    BY DEF SeatsAreApart
  <2>1. r = 1 /\ q = 1 /\ t \in 1 .. T /\ u \in 1 .. T BY <1>14
  <2>2. PICK x, y : x = S[r][t][i] /\ y = S[q][u][k] OBVIOUS
  <2>3. Dealt(x, t, i) /\ Dealt(y, u, k) BY <1>14, <1>15, <2>1, <2>2
  <2>4. x.e = y.e /\ x.local = y.local BY <2>2
  <2>5. i \in Nat \ {0} /\ k \in Nat \ {0}
    <3>1. /\ Len(round[t]) \in Nat /\ DOMAIN round[t] = 1 .. Len(round[t])
          /\ Len(round[u]) \in Nat /\ DOMAIN round[u] = 1 .. Len(round[u])
      BY <1>15, <2>1
    <3>2. i \in DOMAIN round[t] /\ k \in DOMAIN round[u] BY <1>14, <2>1
    <3> QED BY <3>1, <3>2
  <2>6. PICK j, m \in Nat : i = j + 1 /\ k = m + 1
    <3>1. i - 1 \in Nat /\ k - 1 \in Nat /\ i = (i - 1) + 1 /\ k = (k - 1) + 1 BY <2>5
    <3> QED BY <3>1
  <2>7. PICK d \in 0 .. C - 1, l \in 0 .. b - 1 :
          t - 1 = b * d + l /\ x.local = l /\ place[x.e] = 1 + d + (i - 1) * C
    BY <2>3 DEF Dealt
  <2>8. PICK g \in 0 .. C - 1, o \in 0 .. b - 1 :
          u - 1 = b * g + o /\ y.local = o /\ place[y.e] = 1 + g + (k - 1) * C
    BY <2>3 DEF Dealt
  <2>9. PICK p : p = place[x.e] - 1 OBVIOUS
  <2>10. p = C * j + d /\ p = C * m + g
    <3>1. i - 1 = j /\ k - 1 = m BY <2>6
    <3>2. /\ C * j \in Nat /\ C * j = j * C
          /\ C * m \in Nat /\ C * m = m * C
      OBVIOUS
    <3>3. place[x.e] = 1 + d + j * C BY <2>7, <3>1
    <3>4. place[x.e] = 1 + g + m * C BY <2>4, <2>8, <3>1
    <3> QED BY <2>9, <3>2, <3>3, <3>4
  <2>11. p \div C = j /\ p % C = d /\ p \div C = m /\ p % C = g BY <2>10, DivIs
  <2>12. d = g /\ i = k /\ l = o BY <2>4, <2>6, <2>7, <2>8, <2>11
  <2>13. t - 1 = u - 1 BY <2>7, <2>8, <2>12
  <2> QED BY <2>1, <2>12, <2>13
<1>18. SeatsAreTaken(S, Active(c), team)
  <2> SUFFICES ASSUME NEW e \in Active(c), NEW l \in 0 .. team[e] - 1
               PROVE  \E r \in DOMAIN S : \E t \in DOMAIN S[1] : \E i \in DOMAIN S[r][t] :
                        S[r][t][i].e = e /\ S[r][t][i].local = l
    BY DEF SeatsAreTaken
  <2>1. PICK p \in 1 .. L : p = place[e] /\ desc[p] = e BY <1>6
  <2>2. PICK d \in 0 .. C - 1 : d = ccd[e] /\ d = (p - 1) % C /\ team[e] = lanes[d]
    BY <1>11, <2>1
  <2>15. p - 1 \in Nat OBVIOUS
  <2>16. PICK j \in Nat : j = (p - 1) \div C BY <2>15, DivBounds
  <2>3. p - 1 = C * j + d /\ C * j \in Nat
    <3>1. p - 1 = C * ((p - 1) \div C) + ((p - 1) % C) BY <2>15
    <3>2. C * j \in Nat OBVIOUS
    <3> QED BY <2>2, <2>16, <3>1, <3>2
  <2>4. PICK n \in Nat : n = d * b /\ n + lanes[d] <= T /\ lanes[d] \in 1 .. b BY <1>8
  <2>5. l \in 0 .. b - 1 /\ n + l + 1 <= T BY <2>2, <2>4
  <2>6. PICK t \in 1 .. T : t - 1 = b * d + l
    <3>1. n + l + 1 \in 1 .. T /\ (n + l + 1) - 1 = b * d + l BY <2>4, <2>5
    <3> QED BY <3>1
  <2>7. (t - 1) \div b = d /\ (t - 1) % b = l
    <3>1. b \in Nat \ {0} /\ d \in Nat OBVIOUS
    <3> QED BY <2>5, <2>6, <3>1, DivIs
  <2>8. d < L BY <2>1, <2>3
  <2>9. PICK m \in Nat : m = (L - 1 - d) \div C /\ j <= m
    <3>1. L - 1 - d \in Nat /\ C * j <= L - 1 - d BY <2>1, <2>3, <2>8
    <3> QED BY <3>1, DivBounds, DivCompares
  <2>10. PICK i \in 1 .. 1 + m : i = 1 + j
    <3>1. 1 + j \in 1 .. 1 + m BY <2>9
    <3> QED BY <3>1
  <2>11. DOMAIN round[t] = 1 .. 1 + m
         /\ round[t][i] = Seat(desc[1 + d + (i - 1) * C], l, AtMost(b, T - d * b))
    <3>1. round[t] = turns(d, l) BY <1>12, <2>7, <2>8
    <3>2. turns(d, l) = [k \in 1 .. 1 + m |->
                           Seat(desc[1 + d + (k - 1) * C], l, AtMost(b, T - d * b))]
      BY <2>9 DEF turns
    <3> QED BY <3>1, <3>2
  <2>12. 1 + d + (i - 1) * C = p
    <3>1. (i - 1) * C = C * j BY <2>10
    <3> QED BY <2>3, <3>1
  <2>13. round[t][i].e = e /\ round[t][i].local = l
    BY <2>1, <2>11, <2>12 DEF Seat
  <2>14. i \in DOMAIN round[t] BY <2>11
  <2> QED BY <1>14, <2>13, <2>14
<1> QED BY <1>16, <1>17, <1>18 DEF SeatsFit

-----------------------------------------------------------------------------
(* The plans *)

LEMMA PlanNumbers ==
  ASSUME NEW c, IsSummary(c)
  PROVE  /\ Ops(c) \in Nat \ {0} /\ c.threads \in Nat \ {0}
         /\ EffectiveDecodeNTile(c) \in Nat \ {0} /\ AbMinTile(c) \in Nat \ {0}
         /\ MaxTiles(c) \in Nat \ {0} /\ TargetBatch(c) \in Nat \ {0}
         /\ NoSlots(c) \in [Experts(c) -> Nat]
<1>1. Ops(c) \in Nat \ {0} BY OpsIsPositive
<1>2. c.threads \in Nat \ {0} BY DEF IsSummary
<1>3. EffectiveDecodeNTile(c) \in Nat \ {0}
  <2>1. c.env.nTile \in Int BY DEF IsSummary, Tunings
  <2> QED BY <2>1, TileWidths DEF EffectiveDecodeNTile
<1>4. AbMinTile(c) \in Nat \ {0} BY <1>3, TileWidths DEF AbMinTile
<1>5. \A n \in Int : AtLeastOne(n) \in Nat \ {0} BY DEF AtLeastOne
<1>6. MaxTiles(c) \in Nat \ {0}
  <2>1. c.maxN \div AbMinTile(c) \in Nat BY <1>4, DivBounds DEF IsSummary
  <2> QED BY <1>5, <2>1 DEF MaxTiles
<1>7. PICK L3 \in Nat \ {0} : L3 = L3Batch(c)
  <2>1. PICK n \in Nat : n = c.numCcds * L3PerCcd
    <3>1. PICK C, m \in Nat : C = c.numCcds /\ m = L3PerCcd BY CcdsCoverThreads, CacheSize
    <3>2. C * m \in Nat OBVIOUS
    <3> QED BY <3>1, <3>2
  <2>2. PICK w \in Nat \ {0} : w = c.maxN * c.K
    <3>1. PICK x, y \in Nat \ {0} : x = c.maxN /\ y = c.K BY DEF IsSummary
    <3>2. x * y \in Nat \ {0} OBVIOUS
    <3> QED BY <3>1, <3>2
  <2>3. n \div w \in Nat BY DivBounds
  <2>4. L3Batch(c) = AtLeastOne(n \div w) BY <2>1, <2>2 DEF L3Batch, L3Total, WeiPerExpert
  <2> QED BY <1>5, <2>3, <2>4
<1>8. TargetBatch(c) \in Nat \ {0}
  <2>1. PICK n \in Nat : n = c.threads \div c.ccdSize
    <3>1. c.ccdSize \in Nat \ {0} BY <1>2, CcdsCoverThreads
    <3> QED BY <1>2, <3>1, DivBounds
  <2>2. \/ TargetBatch(c) = n /\ L3 < n
        \/ TargetBatch(c) = AtMost(Ops(c), L3)
    BY <1>7, <2>1 DEF TargetBatch
  <2>3. AtMost(Ops(c), L3) \in Nat \ {0} BY <1>1, <1>7 DEF AtMost
  <2> QED BY <1>7, <2>1, <2>2, <2>3
<1>9. NoSlots(c) \in [Experts(c) -> Nat] BY DEF NoSlots
<1> QED BY <1>1, <1>2, <1>3, <1>4, <1>6, <1>8, <1>9

\* A record with a strategy; flat_n_tile keeps or replaces that field.
HasStrategy(plan) ==
  "strategy" \in DOMAIN plan /\ [plan EXCEPT !.strategy = @] = plan

\* What the rounds of a plan need to seat every expert.
IsRoundsPlan(c, plan) ==
  /\ plan.strategy \in {"FewExperts", "ManyExperts"} /\ plan.perExpert = FALSE
  /\ plan.minNTile = AbMinTile(c) /\ plan.stable \in [Experts(c) -> Nat]
  /\ plan.order = ExpertOrder(c) /\ plan.batch \in Nat \ {0} /\ RoundsHold(c, plan)

\* A share of the threads for each expert of a round, capped, if a round has
\* no more experts than the team has threads ...
LEMMA SharedRoundsHold ==
  ASSUME NEW c, IsSummary(c), NEW plan, plan.nThrFixed = 0, plan.maxNThr \in Nat \ {0},
         plan.batch \in Nat \ {0}, Ops(c) <= c.threads \/ plan.batch <= c.threads
  PROVE  RoundsHold(c, plan)
<1>1. PICK E, T, b, m \in Nat \ {0} :
        E = Ops(c) /\ T = c.threads /\ b = plan.batch /\ m = plan.maxNThr
  BY PlanNumbers
<1> SUFFICES ASSUME NEW size \in 1 .. E, size <= b
             PROVE  /\ UniformThr(c, plan, size) \in Nat \ {0}
                    /\ size * UniformThr(c, plan, size) <= T
    BY <1>1 DEF RoundsHold
<1>2. size \in Nat \ {0} /\ size <= T BY <1>1
<1>3. PICK q \in Nat : q = T \div size /\ size * q <= T BY <1>2, DivBounds
<1>4. size * 1 <= T BY <1>2
<1>5. 1 <= q BY <1>2, <1>3, <1>4, DivCompares
<1>6. UniformThr(c, plan, size) = AtMost(q, m) BY <1>1, <1>3 DEF UniformThr
<1>7. PICK h \in Nat \ {0} : h = AtMost(q, m) /\ h <= q BY <1>5 DEF AtMost
<1>8. size * h <= size * q /\ size * h \in Nat /\ size * q \in Nat
  BY <1>2, <1>7, TimesMonotone
<1> QED BY <1>3, <1>6, <1>7, <1>8

\* ... or the same fixed number for each, if that many fit.
LEMMA FixedRoundsHold ==
  ASSUME NEW c, IsSummary(c), NEW plan, plan.nThrFixed \in Nat \ {0},
         plan.batch \in Nat \ {0}, plan.batch * plan.nThrFixed <= c.threads
  PROVE  RoundsHold(c, plan)
<1>1. PICK E, T, b, n \in Nat \ {0} :
        E = Ops(c) /\ T = c.threads /\ b = plan.batch /\ n = plan.nThrFixed
  BY PlanNumbers
<1> SUFFICES ASSUME NEW size \in 1 .. E, size <= b
             PROVE  /\ UniformThr(c, plan, size) \in Nat \ {0}
                    /\ size * UniformThr(c, plan, size) <= T
    BY <1>1 DEF RoundsHold
<1>2. UniformThr(c, plan, size) = n BY <1>1 DEF UniformThr
<1>3. n * size <= n * b /\ n * size \in Nat BY TimesMonotone
<1>4. n * size = size * n /\ n * b = b * n /\ b * n \in Nat OBVIOUS
<1>5. b * n <= T BY <1>1
<1> QED BY <1>2, <1>3, <1>4, <1>5

LEMMA StablePlanFits ==
  ASSUME NEW c, IsSummary(c), StableFits(c), NEW plan, plan = StablePlan(c)
  PROVE  IsRoundsPlan(c, plan) /\ HasStrategy(plan)
<1>1. PICK E, T \in Nat \ {0} : E = Ops(c) /\ T = c.threads BY PlanNumbers
<1>2. PICK g \in Nat \ {0} : g = c.env.targetSlots BY DEF IsSummary, Tunings
<1>3. PICK n \in 1 .. T : n = AoclStableNThr(c)
  <2>1. PICK q \in Nat : q = T \div g /\ g * q <= T BY DivBounds
  <2>2. q * 1 <= q * g /\ q * g = g * q BY TimesMonotone
  <2>3. q <= T BY <2>1, <2>2
  <2>4. AtLeastOne(q) \in 1 .. T BY <2>3 DEF AtLeastOne
  <2> QED BY <1>1, <1>2, <2>1, <2>4 DEF AoclStableNThr
<1>4. PICK q \in Nat \ {0} : q = T \div n /\ n * q <= T
  <2>1. n * 1 <= T /\ n \in Nat \ {0} OBVIOUS
  <2>2. PICK q \in Nat : q = T \div n /\ n * q <= T BY <2>1, DivBounds
  <2>3. 1 <= q BY <2>1, <2>2, DivCompares
  <2> QED BY <2>2, <2>3
<1>5. PICK b \in Nat \ {0} : b = AtMost(E, q) /\ b <= q BY DEF AtMost
<1>6. PICK stable, order, w : /\ stable = [e \in Experts(c) |-> IF c.M[e] > 0 THEN n ELSE 0]
                              /\ order = ExpertOrder(c) /\ w = AbMinTile(c)
  OBVIOUS
<1>7. plan = [strategy |-> "ManyExperts", minNTile |-> w, batch |-> b, nThrFixed |-> n,
              maxNThr |-> n, thrPerExpert |-> 0, order |-> order,
              stable |-> stable, perExpert |-> FALSE]
  <2>1. AtLeastOne(T \div n) = q BY <1>4 DEF AtLeastOne
  <2> QED BY <1>1, <1>3, <1>5, <1>6, <2>1 DEF StablePlan, SequentialPlan
<1>8. stable \in [Experts(c) -> Nat] BY <1>6
<1>9. w \in Nat \ {0} BY <1>6, PlanNumbers
<1>10. b * n <= T
  <2>1. n \in Nat /\ n * b <= n * q /\ n * b \in Nat BY <1>5, TimesMonotone
  <2>2. n * b = b * n /\ n * q \in Nat OBVIOUS
  <2> QED BY <1>4, <2>1, <2>2
<1>11. /\ plan.strategy = "ManyExperts" /\ plan.minNTile = w /\ plan.batch = b
       /\ plan.nThrFixed = n /\ plan.order = order /\ plan.stable = stable
       /\ plan.perExpert = FALSE
  BY <1>7
<1>12. RoundsHold(c, plan) BY <1>1, <1>10, <1>11, FixedRoundsHold
<1>13. IsRoundsPlan(c, plan) BY <1>6, <1>8, <1>9, <1>11, <1>12 DEF IsRoundsPlan
<1>14. HasStrategy(plan) BY <1>7 DEF HasStrategy
<1> QED BY <1>13, <1>14

LEMMA FewExpertsPlanFits ==
  ASSUME NEW c, IsSummary(c), Ops(c) <= c.numCcds, NEW plan, plan = FewExpertsPlan(c)
  PROVE  IsRoundsPlan(c, plan) /\ HasStrategy(plan)
<1>1. PICK w, b, m, order, stable :
        /\ w = AbMinTile(c) /\ b = TargetBatch(c) /\ m = MaxTiles(c)
        /\ order = ExpertOrder(c) /\ stable = NoSlots(c)
  OBVIOUS
<1>2. plan = [strategy |-> "FewExperts", minNTile |-> w, batch |-> b, nThrFixed |-> 0,
              maxNThr |-> m, thrPerExpert |-> 0, order |-> order,
              stable |-> stable, perExpert |-> FALSE]
  BY <1>1 DEF FewExpertsPlan, SequentialPlan
<1>3. /\ w \in Nat \ {0} /\ b \in Nat \ {0} /\ m \in Nat \ {0}
      /\ stable \in [Experts(c) -> Nat]
  BY <1>1, PlanNumbers
<1>4. /\ plan.strategy = "FewExperts" /\ plan.minNTile = w /\ plan.batch = b
      /\ plan.nThrFixed = 0 /\ plan.maxNThr = m /\ plan.order = order
      /\ plan.stable = stable /\ plan.perExpert = FALSE
  BY <1>2
<1>5. Ops(c) <= c.threads
  <2>1. PICK E, C, T \in Nat : E = Ops(c) /\ C = c.numCcds /\ T = c.threads /\ C <= T
    BY PlanNumbers, CcdsCoverThreads
  <2> QED BY <2>1
<1>6. RoundsHold(c, plan) BY <1>3, <1>4, <1>5, SharedRoundsHold
<1>7. IsRoundsPlan(c, plan) BY <1>1, <1>3, <1>4, <1>6 DEF IsRoundsPlan
<1>8. HasStrategy(plan) BY <1>2 DEF HasStrategy
<1> QED BY <1>7, <1>8

\* The threads of an expert in a round of batch experts fit the team.
LEMMA NThrFits ==
  ASSUME NEW c, IsSummary(c), NEW batch \in 1 .. c.threads
  PROVE  /\ NThr(c, batch) \in Nat \ {0} /\ NThr(c, batch) <= c.threads
         /\ batch * NThr(c, batch) <= c.threads
<1>1. PICK T \in Nat \ {0} : T = c.threads BY PlanNumbers
<1>2. PICK b \in Nat \ {0} : b = batch /\ b <= T BY <1>1
<1>3. PICK q \in Nat : q = T \div b /\ b * q <= T BY <1>2, DivBounds
<1>4. 1 <= q
  <2>1. b * 1 <= T BY <1>2
  <2> QED BY <1>3, <2>1, DivCompares
<1>5. PICK x, y \in Nat : x = c.ccdSize /\ y = MaxTiles(c)
  BY <1>1, CcdsCoverThreads, PlanNumbers
<1>6. PICK m \in Nat : m = Min({x, y, q}) /\ m <= q
  <2>1. Min({x, y, q}) \in {x, y, q} /\ Min({x, y, q}) <= q BY MinOfThree
  <2>2. Min({x, y, q}) \in Nat BY <2>1
  <2> QED BY <2>1, <2>2
<1>7. NThr(c, b) = AtLeastOne(m) BY <1>1, <1>3, <1>5, <1>6 DEF NThr
<1>8. PICK n \in Nat \ {0} : n = AtLeastOne(m) /\ n <= q BY <1>4, <1>6 DEF AtLeastOne
<1>9. b * n <= b * q /\ b * n \in Nat /\ b * q \in Nat BY <1>8, TimesMonotone
<1>10. n * 1 <= n * b /\ n * b = b * n BY TimesMonotone
<1>11. n <= T BY <1>3, <1>9, <1>10
<1> QED BY <1>1, <1>2, <1>3, <1>7, <1>8, <1>9, <1>11

\* Rounds of equal size are no larger than the ones they replace.
LEMMA EvenRoundsFit ==
  ASSUME NEW E \in Nat \ {0}, NEW b \in Nat \ {0}
  PROVE  /\ CeilDiv(E, b) \in Nat \ {0}
         /\ CeilDiv(E, CeilDiv(E, b)) \in Nat \ {0}
         /\ CeilDiv(E, CeilDiv(E, b)) <= b
<1>1. PICK r \in Nat \ {0} : r = CeilDiv(E, b) BY RoundsCoverPlaces
<1>2. PICK s \in Nat \ {0} : s = CeilDiv(E, r) BY RoundsCoverPlaces
<1>3. r = (E + b - 1) \div b /\ E + b - 1 \in Nat BY <1>1 DEF CeilDiv
<1>4. E + b - 1 < b * (r + 1) BY <1>3, DivBounds
<1>5. b * (r + 1) = b * r + b /\ b * r \in Nat /\ r * (b + 1) = r * b + r /\ r * b = b * r
  OBVIOUS
<1>6. E + r - 1 < r * (b + 1) BY <1>4, <1>5
<1>7. s = (E + r - 1) \div r /\ E + r - 1 \in Nat BY <1>2 DEF CeilDiv
<1>8. s < b + 1 BY <1>6, <1>7, DivCompares
<1> QED BY <1>1, <1>2, <1>8

LEMMA CandidatesFit ==
  ASSUME NEW c, IsSummary(c), NEW r, r = RoundCandidates(c)
  PROVE  /\ r.nMulti \in Nat \ {0} /\ r.batch \in Nat \ {0}
         /\ r.batch * r.nMulti <= c.threads
         /\ r.balanced \in Nat \ {0} /\ r.balanced <= c.threads
         /\ r.nSingle = NThr(c, Ops(c))
<1>1. PICK E, T, B \in Nat \ {0} : E = Ops(c) /\ T = c.threads /\ B = TargetBatch(c)
  BY PlanNumbers
<1>2. PICK p \in 1 .. T : p = CappedBatch(c)
  <2>1. AtLeastOne(AtMost(B, T)) \in 1 .. T BY DEF AtLeastOne, AtMost
  <2> QED BY <1>1, <2>1 DEF CappedBatch
<1>3. PICK n \in Nat \ {0} : n = NThr(c, p) /\ n <= T BY <1>1, <1>2, NThrFits
<1>4. PICK q \in Nat \ {0} : q = T \div n /\ n * q <= T
  <2>1. n * 1 <= T BY <1>3
  <2>2. PICK q \in Nat : q = T \div n /\ n * q <= T BY DivBounds
  <2>3. 1 <= q BY <2>1, <2>2, DivCompares
  <2> QED BY <2>2, <2>3
<1>5. PICK b \in Nat \ {0} : b = AtLeastOne(AtMost(p, q)) /\ b <= q
  BY DEF AtLeastOne, AtMost
<1>6. b * n <= T /\ b <= T
  <2>1. n * b <= n * q /\ n * b \in Nat /\ n * q \in Nat BY <1>5, TimesMonotone
  <2>2. b * 1 <= b * n /\ b * n = n * b BY TimesMonotone
  <2> QED BY <1>4, <2>1, <2>2
<1>7. PICK s \in Nat \ {0} : s = CeilDiv(E, CeilDiv(E, b)) /\ s <= b BY EvenRoundsFit
<1>8. PICK m : m = NThr(c, E) OBVIOUS
<1>9. r = [nSingle |-> m, nMulti |-> n, batch |-> b, rounds |-> CeilDiv(E, b), balanced |-> s]
  BY <1>1, <1>2, <1>3, <1>4, <1>5, <1>7, <1>8 DEF RoundCandidates
<1>10. r.nSingle = m /\ r.nMulti = n /\ r.batch = b /\ r.balanced = s BY <1>9
<1> QED BY <1>1, <1>3, <1>5, <1>6, <1>7, <1>8, <1>10

-----------------------------------------------------------------------------
(* A round whose experts have threads each of their own *)

\* Threads for every active expert, no more than the team has.
FitsSlots(c, slots) ==
  /\ slots \in [Experts(c) -> Nat] /\ \A e \in Active(c) : slots[e] > 0
  /\ Total(slots, Experts(c)) <= c.threads

\* Where the slots of each expert of the round begin and end.
SlotRanges(q, E, T) ==
  /\ \A k \in 0 .. E : Total(q, 1 .. k) \in Nat /\ Total(q, 1 .. k) <= T
  /\ \A k \in 1 .. E : q[k] \in Nat /\ Total(q, 1 .. k) = Total(q, 1 .. k - 1) + q[k]
  /\ \A k, l \in 0 .. E : k <= l => Total(q, 1 .. k) <= Total(q, 1 .. l)

LEMMA SlotsInOrder ==
  ASSUME NEW c, IsSummary(c), NEW slots, FitsSlots(c, slots),
         NEW order, Enumerates(order, Experts(c)), NEW E \in Nat, E = Ops(c),
         NEW q, q = [i \in 1 .. E |-> slots[order[i]]]
  PROVE  SlotRanges(q, E, c.threads)
<1>1. /\ Experts(c) = 1 .. E /\ IsFiniteSet(Experts(c)) /\ Cardinality(Experts(c)) = E
      /\ DOMAIN order = 1 .. E
  BY ExpertsAreFinite DEF Enumerates
<1>2. \A i \in 1 .. E : order[i] \in Experts(c) /\ q[i] = slots[order[i]] /\ q[i] \in Nat
  BY <1>1 DEF Enumerates, FitsSlots
<1>3. \A k \in 0 .. E : IsFiniteSet(1 .. k) /\ 1 .. k \in SUBSET (1 .. E)
  <2> SUFFICES ASSUME NEW k \in 0 .. E PROVE IsFiniteSet(1 .. k) /\ 1 .. k \in SUBSET (1 .. E)
    OBVIOUS
  <2>1. 1 .. k \in SUBSET (1 .. E) OBVIOUS
  <2> QED BY <1>1, <2>1, FS_Subset
<1>4. ASSUME NEW k \in 0 .. E PROVE Total(q, 1 .. k) \in Nat
  <2>1. \A i \in 1 .. k : q[i] \in Nat BY <1>2
  <2> QED BY <1>3, <2>1, TotalIsNat
<1>5. ASSUME NEW k \in 0 .. E - 1
      PROVE  /\ Total(q, 1 .. k + 1) = Total(q, 1 .. k) + q[k + 1]
             /\ 1 .. k + 1 = (1 .. k) \cup {k + 1} /\ k + 1 \in 1 .. E
  <2>1. 1 .. k + 1 = (1 .. k) \cup {k + 1} /\ k + 1 \notin 1 .. k OBVIOUS
  <2>2. \A i \in (1 .. k) \cup {k + 1} : q[i] \in Int BY <1>2
  <2>3. IsFiniteSet(1 .. k) BY <1>3
  <2>4. Total(q, (1 .. k) \cup {k + 1}) = Total(q, 1 .. k) + q[k + 1]
    BY <2>1, <2>2, <2>3, TotalAdds
  <2>5. k + 1 \in 1 .. E OBVIOUS
  <2>6. Total(q, 1 .. k + 1) = Total(q, (1 .. k) \cup {k + 1}) BY <2>1
  <2>7. Total(q, 1 .. k + 1) = Total(q, 1 .. k) + q[k + 1] BY <2>4, <2>6
  <2> QED BY <2>1, <2>5, <2>7
<1> DEFINE P == {k \in Nat : k <= E => Total(q, 1 .. k) = Total(slots, {order[i] : i \in 1 .. k})}
<1>6. 0 \in P
  <2>1. 1 .. 0 = {} OBVIOUS
  <2>2. PICK B : B = {order[i] : i \in 1 .. 0} OBVIOUS
  <2>3. B = {} BY <2>1, <2>2
  <2>4. Total(q, 1 .. 0) = 0 /\ Total(slots, B) = 0 BY <2>1, <2>3, TotalOfNone
  <2> QED BY <2>2, <2>4
<1>7. ASSUME NEW k \in Nat, k \in P PROVE k + 1 \in P
  <2>0. SUFFICES ASSUME k + 1 <= E
                 PROVE  Total(q, 1 .. k + 1) = Total(slots, {order[i] : i \in 1 .. k + 1})
    OBVIOUS
  <2>1. k \in 0 .. E - 1 /\ k <= E BY <2>0
  <2>2. PICK B : B = {order[i] : i \in 1 .. k} OBVIOUS
  <2>3. PICK e : e = order[k + 1] OBVIOUS
  <2>4. Total(q, 1 .. k + 1) = Total(q, 1 .. k) + q[k + 1]
        /\ 1 .. k + 1 = (1 .. k) \cup {k + 1} /\ k + 1 \in 1 .. E
    BY <1>5, <2>1
  <2>5. {order[i] : i \in 1 .. k + 1} = B \cup {e} BY <2>2, <2>3, <2>4
  <2>6. B \in SUBSET Experts(c) /\ IsFiniteSet(B) /\ e \in Experts(c)
    <3>1. \A i \in 1 .. k : i \in 1 .. E BY <2>1
    <3>2. B \in SUBSET Experts(c) BY <1>2, <2>2, <3>1
    <3> QED BY <1>1, <1>2, <2>3, <2>4, <3>2, FS_Subset
  <2>7. e \notin B
    <3>1. \A i \in 1 .. k : i \in DOMAIN order /\ i # k + 1 BY <1>1, <2>1
    <3>2. k + 1 \in DOMAIN order BY <1>1, <2>4
    <3>3. \A i \in 1 .. k : order[i] # order[k + 1] BY <3>1, <3>2 DEF Enumerates
    <3> QED BY <2>2, <2>3, <3>3
  <2>8. \A y \in B \cup {e} : slots[y] \in Int BY <2>6 DEF FitsSlots
  <2>9. Total(slots, B \cup {e}) = Total(slots, B) + slots[e]
    BY <2>6, <2>7, <2>8, TotalAdds
  <2>10. q[k + 1] = slots[e] BY <1>2, <2>3, <2>4
  <2>11. Total(q, 1 .. k) = Total(slots, B) BY <1>7, <2>1, <2>2
  <2> QED BY <2>4, <2>5, <2>9, <2>10, <2>11
<1> HIDE DEF P
<1>8. Total(q, 1 .. E) = Total(slots, {order[i] : i \in 1 .. E})
  <2>1. E \in P BY <1>6, <1>7, SetInduction
  <2>2. E <= E OBVIOUS
  <2> QED BY <2>1, <2>2 DEF P
<1>9. {order[i] : i \in 1 .. E} = Experts(c) BY <1>1, <1>2 DEF Enumerates
<1>10. Total(q, 1 .. E) <= c.threads BY <1>8, <1>9 DEF FitsSlots
<1>11. \A k, l \in 0 .. E : k <= l => Total(q, 1 .. k) <= Total(q, 1 .. l)
  <2> SUFFICES ASSUME NEW k \in 0 .. E, NEW l \in 0 .. E, k <= l
               PROVE  Total(q, 1 .. k) <= Total(q, 1 .. l)
    OBVIOUS
  <2>1. 1 .. k \in SUBSET (1 .. l) OBVIOUS
  <2>4. \A i \in 1 .. l : i \in 1 .. E OBVIOUS
  <2>2. \A i \in 1 .. l : q[i] \in Nat BY <1>2, <2>4
  <2>3. IsFiniteSet(1 .. l) BY <1>3
  <2> QED BY <2>1, <2>2, <2>3, TotalIsNat
<1>12. ASSUME NEW k \in 0 .. E PROVE Total(q, 1 .. k) <= c.threads
  <2>1. E \in 0 .. E /\ k <= E OBVIOUS
  <2>2. Total(q, 1 .. k) <= Total(q, 1 .. E) BY <1>11, <2>1
  <2>3. Total(q, 1 .. k) \in Nat /\ Total(q, 1 .. E) \in Nat BY <1>4, <2>1
  <2> QED BY <1>10, <2>2, <2>3 DEF IsSummary
<1>13. ASSUME NEW k \in 1 .. E PROVE Total(q, 1 .. k) = Total(q, 1 .. k - 1) + q[k]
  <2>1. PICK j \in 0 .. E - 1 : j = k - 1 /\ k = j + 1 OBVIOUS
  <2> QED BY <1>5, <2>1
<1> QED BY <1>2, <1>4, <1>11, <1>12, <1>13 DEF SlotRanges

\* Expert i of the round has the threads after those of the experts before
\* it, and no thread is two experts'.
SlotHolds(q, i, t) == Total(q, 1 .. i - 1) < t /\ t <= Total(q, 1 .. i - 1) + q[i]
SeatInSlots(order, q, i, t) == Seat(order[i], t - 1 - Total(q, 1 .. i - 1), q[i])
TakesSlot(seats, order, q, E, t) ==
  /\ \A i \in 1 .. E : SlotHolds(q, i, t) => seats = <<SeatInSlots(order, q, i, t)>>
  /\ (\A i \in 1 .. E : ~SlotHolds(q, i, t)) => seats = <<>>

LEMMA SlotsAreTaken ==
  ASSUME NEW plan, NEW E \in Nat, NEW T \in Nat, NEW q, SlotRanges(q, E, T),
         q = [i \in 1 .. E |-> plan.stable[plan.order[i]]],
         NEW t \in 1 .. T
  PROVE  TakesSlot(UnevenSeat(plan, 1, E, t), plan.order, q, E, t)
<1>1. PICK order, stable : order = plan.order /\ stable = plan.stable OBVIOUS
<1>2. PICK mine : mine = {i \in 1 .. E : SlotHolds(q, i, t)} OBVIOUS
<1>3. [i \in 1 .. E |-> plan.stable[plan.order[1 + i - 1]]] = q
  <2>1. \A i \in 1 .. E : 1 + i - 1 = i OBVIOUS
  <2> QED BY <2>1
<1>4. UnevenSeat(plan, 1, E, t) =
        IF mine = {} THEN <<>>
        ELSE <<Seat(order[1 + Max(mine) - 1], t - 1 - Total(q, 1 .. Max(mine) - 1),
                    q[Max(mine)])>>
  <2>1. PICK slots : /\ slots = [i \in 1 .. E |-> plan.stable[plan.order[1 + i - 1]]]
                      /\ slots = q
    BY <1>3
  <2>2. PICK held : held = {i \in 1 .. E : /\ Total(slots, 1 .. i - 1) < t
                                           /\ t <= Total(slots, 1 .. i - 1) + slots[i]}
    OBVIOUS
  <2>3. held = mine BY <1>2, <2>1, <2>2 DEF SlotHolds
  <2>4. UnevenSeat(plan, 1, E, t) =
          LET own == [i \in 1 .. E |-> plan.stable[plan.order[1 + i - 1]]]
              set == {i \in 1 .. E : /\ Total(own, 1 .. i - 1) < t
                                     /\ t <= Total(own, 1 .. i - 1) + own[i]}
          IN  IF set = {} THEN <<>>
              ELSE <<Seat(plan.order[1 + Max(set) - 1],
                          t - 1 - Total(own, 1 .. Max(set) - 1), own[Max(set)])>>
    BY DEF UnevenSeat
  <2>5. UnevenSeat(plan, 1, E, t) =
          IF held = {} THEN <<>>
          ELSE <<Seat(plan.order[1 + Max(held) - 1],
                      t - 1 - Total(slots, 1 .. Max(held) - 1), slots[Max(held)])>>
    BY <2>1, <2>2, <2>4, Zenon
  <2> QED BY <1>1, <2>1, <2>3, <2>5
<1>5. ASSUME NEW i \in mine, NEW k \in mine, i < k PROVE FALSE
  <2>1. i \in 1 .. E /\ k \in 1 .. E /\ SlotHolds(q, i, t) /\ SlotHolds(q, k, t) BY <1>2
  <2>2. PICK j \in 0 .. E : j = k - 1 /\ i <= j BY <1>5, <2>1
  <2>3. PICK a, b, d \in Nat : /\ a = Total(q, 1 .. i - 1) /\ b = Total(q, 1 .. i)
                               /\ d = Total(q, 1 .. j)
    <3>1. i - 1 \in 0 .. E /\ i \in 0 .. E BY <2>1
    <3> QED BY <2>2, <3>1 DEF SlotRanges
  <2>4. b = a + q[i] /\ q[i] \in Nat BY <2>1, <2>3 DEF SlotRanges
  <2>5. b <= d
    <3>1. i \in 0 .. E BY <2>1
    <3> QED BY <2>2, <2>3, <3>1 DEF SlotRanges
  <2>6. t <= b /\ d < t BY <2>1, <2>2, <2>3, <2>4 DEF SlotHolds
  <2> QED BY <2>5, <2>6
<1>6. \A i \in mine, k \in mine : i = k
  <2>1. \A i \in mine : i \in Nat BY <1>2
  <2> QED BY <1>5, <2>1
<1>7. ASSUME NEW i \in 1 .. E, SlotHolds(q, i, t)
      PROVE  UnevenSeat(plan, 1, E, t) = <<SeatInSlots(order, q, i, t)>>
  <2>1. i \in mine BY <1>2, <1>7
  <2>2. mine \in SUBSET Nat /\ E \in Nat /\ \A x \in mine : x <= E BY <1>2
  <2>3. Max(mine) \in mine BY <2>1, <2>2, MaxOfBounded
  <2>4. Max(mine) = i BY <1>6, <2>1, <2>3
  <2>5. 1 + i - 1 = i OBVIOUS
  <2> QED BY <1>4, <2>1, <2>4, <2>5 DEF SeatInSlots
<1>8. (\A i \in 1 .. E : ~SlotHolds(q, i, t)) => UnevenSeat(plan, 1, E, t) = <<>>
  BY <1>2, <1>4
<1> QED BY <1>1, <1>7, <1>8 DEF TakesSlot

\* A round of a plan that gives each expert threads of its own.
IsUnevenPlan(c, plan) ==
  /\ plan.strategy = "ManyExperts" /\ plan.perExpert = TRUE
  /\ plan.minNTile = AbMinTile(c) /\ plan.order = ExpertOrder(c)
  /\ plan.batch = Ops(c) /\ FitsSlots(c, plan.stable)

LEMMA UnevenRoundIsSeated ==
  ASSUME NEW c, IsSummary(c), NEW plan, IsUnevenPlan(c, plan),
         Enumerates(plan.order, Experts(c)), NEW S, S = RoundsSeats(c, plan)
  PROVE  (\E team, home : SeatsFit(c, S, team, home)) /\ Len(S) = 1
<1>1. PICK E, T \in Nat \ {0} : E = Ops(c) /\ T = c.threads BY PlanNumbers
<1>2. PICK order, place : order = plan.order /\ PlacesOf(place, order, c)
  BY OrderHasPlaces
<1>3. PICK slots : slots = plan.stable /\ FitsSlots(c, slots) BY DEF IsUnevenPlan
<1>4. PICK q : q = [i \in 1 .. E |-> slots[order[i]]] OBVIOUS
<1>5. SlotRanges(q, E, T)
  <2>1. SlotRanges(q, E, c.threads) BY <1>1, <1>2, <1>3, <1>4, SlotsInOrder
  <2> QED BY <1>1, <2>1
<1>6. S = <<[t \in 1 .. T |-> UnevenSeat(plan, 1, E, t)]>>
  <2>1. CeilDiv(E, E) = 1
    <3>1. E + E - 1 = E * 1 + (E - 1) /\ E - 1 \in 0 .. E - 1 OBVIOUS
    <3>2. (E + E - 1) \div E = 1 BY <3>1, DivIs
    <3> QED BY <3>2 DEF CeilDiv
  <2>2. S = [r \in 1 .. 1 |-> RoundSeats(c, plan, 1 + (r - 1) * E)]
    BY <1>1, <2>1 DEF RoundsSeats, IsUnevenPlan
  <2>3. PICK g : g = RoundSeats(c, plan, 1) OBVIOUS
  <2>4. \A r \in 1 .. 1 : r = 1 /\ 1 + (r - 1) * E = 1 OBVIOUS
  <2>5. S = [r \in 1 .. 1 |-> g] BY <2>2, <2>3, <2>4
  <2>6. S = <<g>> BY <2>5
  <2>7. RoundSize(c, plan, 1) = E
    <3>1. plan.batch = E /\ Ops(c) = E BY <1>1 DEF IsUnevenPlan
    <3>2. AtMost(E, 1 + E - 1) - 1 + 1 = E BY DEF AtMost
    <3> QED BY <3>1, <3>2 DEF RoundSize
  <2>8. g = [t \in 1 .. T |-> UnevenSeat(plan, 1, E, t)]
    BY <1>1, <2>3, <2>7 DEF RoundSeats, IsUnevenPlan
  <2> QED BY <2>6, <2>8
<1>7. /\ DOMAIN S = {1} /\ DOMAIN S[1] = 1 .. T /\ Len(S) = 1
      /\ \A t \in 1 .. T : S[1][t] = UnevenSeat(plan, 1, E, t)
  <2>1. PICK g : g = [t \in 1 .. T |-> UnevenSeat(plan, 1, E, t)] OBVIOUS
  <2>2. S = <<g>> BY <1>6, <2>1
  <2>3. DOMAIN S = {1} /\ S[1] = g /\ Len(S) = 1 BY <2>2
  <2> QED BY <2>1, <2>3
<1>8. \A t \in 1 .. T : TakesSlot(S[1][t], order, q, E, t)
  <2> SUFFICES ASSUME NEW t \in 1 .. T PROVE TakesSlot(S[1][t], order, q, E, t) OBVIOUS
  <2>1. q = [i \in 1 .. E |-> plan.stable[plan.order[i]]] BY <1>2, <1>3, <1>4
  <2>2. TakesSlot(UnevenSeat(plan, 1, E, t), plan.order, q, E, t)
    BY <1>5, <2>1, SlotsAreTaken
  <2> QED BY <1>2, <1>7, <2>2
<1>9. PICK team, home : /\ team = [e \in Experts(c) |-> IF slots[e] > 0 THEN slots[e] ELSE 1]
                        /\ home = [e \in Experts(c) |-> 1]
  OBVIOUS
<1>10. \A e \in Experts(c) : /\ place[e] \in 1 .. E /\ order[place[e]] = e
                             /\ q[place[e]] = slots[e] /\ slots[e] \in Nat /\ home[e] = 1
                             /\ slots[e] > 0 => team[e] = slots[e]
                             /\ team[e] \in Nat \ {0}
  BY <1>1, <1>2, <1>3, <1>4, <1>9 DEF PlacesOf, FitsSlots
<1>11. \A i \in 1 .. E : order[i] \in Experts(c) /\ place[order[i]] = i /\ q[i] = slots[order[i]]
  BY <1>1, <1>2, <1>4 DEF PlacesOf
<1>12. \A i \in 1 .. E : q[i] \in Nat /\ Total(q, 1 .. i - 1) \in Nat
                         /\ Total(q, 1 .. i - 1) + q[i] <= T
  <2> SUFFICES ASSUME NEW i \in 1 .. E
               PROVE q[i] \in Nat /\ Total(q, 1 .. i - 1) \in Nat
                         /\ Total(q, 1 .. i - 1) + q[i] <= T
    OBVIOUS
  <2>1. i \in 0 .. E /\ i - 1 \in 0 .. E OBVIOUS
  <2> QED BY <1>5, <2>1 DEF SlotRanges
<1> DEFINE Placed(x, t) == \E i \in 1 .. E : SlotHolds(q, i, t) /\ x = SeatInSlots(order, q, i, t)
<1>13. ASSUME NEW t \in 1 .. T
       PROVE  /\ Len(S[1][t]) \in Nat /\ DOMAIN S[1][t] = 1 .. Len(S[1][t])
              /\ \A k \in DOMAIN S[1][t] : k = 1 /\ Placed(S[1][t][k], t)
  <2>1. CASE \A i \in 1 .. E : ~SlotHolds(q, i, t)
    <3>1. S[1][t] = <<>> BY <1>8, <2>1 DEF TakesSlot
    <3> QED BY <3>1
  <2>2. CASE \E i \in 1 .. E : SlotHolds(q, i, t)
    <3>1. PICK i \in 1 .. E : SlotHolds(q, i, t) BY <2>2
    <3>2. PICK x : x = SeatInSlots(order, q, i, t) OBVIOUS
    <3>3. S[1][t] = <<x>> BY <1>8, <3>1, <3>2 DEF TakesSlot
    <3>4. Placed(x, t) BY <3>1, <3>2
    <3>5. Len(S[1][t]) = 1 /\ DOMAIN S[1][t] = 1 .. 1 /\ S[1][t][1] = x BY <3>3
    <3>6. \A k \in DOMAIN S[1][t] : k = 1 BY <3>5
    <3> HIDE DEF Placed
    <3> QED BY <3>4, <3>5, <3>6
  <2> QED BY <2>1, <2>2
<1>14. ASSUME NEW t \in 1 .. T, NEW x, Placed(x, t)
       PROVE  /\ x.e \in Experts(c) /\ x.local \in Nat /\ x.team = team[x.e] /\ home[x.e] = 1
              /\ t = Total(q, 1 .. place[x.e] - 1) + 1 + x.local
  <2>1. PICK i \in 1 .. E : SlotHolds(q, i, t) /\ x = SeatInSlots(order, q, i, t) BY <1>14
  <2>2. PICK a, b \in Nat : a = Total(q, 1 .. i - 1) /\ b = q[i] BY <1>12
  <2>3. a < t /\ t <= a + b BY <2>1, <2>2 DEF SlotHolds
  <2>4. PICK e \in Experts(c) : e = order[i] /\ place[e] = i /\ slots[e] = b
    BY <1>11, <2>2
  <2>5. x.e = e /\ x.local = t - 1 - a /\ x.team = b
    BY <2>1, <2>2, <2>4 DEF SeatInSlots, Seat
  <2>6. b > 0 /\ t - 1 - a \in Nat /\ t = a + 1 + (t - 1 - a) BY <2>3
  <2>7. team[e] = b /\ home[e] = 1 BY <1>10, <2>4, <2>6
  <2> QED BY <2>2, <2>4, <2>5, <2>6, <2>7
<1> HIDE DEF Placed
<1>15. SeatsAreExperts(S, Experts(c), team, home)
  <2>1. team \in [Experts(c) -> Nat \ {0}] BY <1>9, <1>10
  <2>2. ASSUME NEW r \in DOMAIN S, NEW t \in DOMAIN S[1]
        PROVE  /\ Len(S[r][t]) \in Nat /\ DOMAIN S[r][t] = 1 .. Len(S[r][t])
               /\ \A i \in DOMAIN S[r][t] :
                     /\ S[r][t][i].e \in Experts(c) /\ S[r][t][i].local \in Nat
                     /\ S[r][t][i].team = team[S[r][t][i].e] /\ home[S[r][t][i].e] = r
    <3>1. r = 1 /\ t \in 1 .. T BY <1>7
    <3> QED BY <1>13, <1>14, <3>1
  <2>3. 1 .. 1 = {1} /\ 1 \in Nat \ {0} OBVIOUS
  <2> QED BY <1>7, <2>1, <2>2, <2>3 DEF SeatsAreExperts
<1>16. SeatsAreApart(S)
  <2> SUFFICES ASSUME NEW r \in DOMAIN S, NEW s \in DOMAIN S,
                      NEW t \in DOMAIN S[1], NEW u \in DOMAIN S[1],
                      NEW i \in DOMAIN S[r][t], NEW k \in DOMAIN S[s][u],
                      S[r][t][i].e = S[s][u][k].e, S[r][t][i].local = S[s][u][k].local
               PROVE  r = s /\ t = u /\ i = k
    BY DEF SeatsAreApart
  <2>1. r = 1 /\ s = 1 /\ t \in 1 .. T /\ u \in 1 .. T BY <1>7
  <2>2. PICK x, y : x = S[r][t][i] /\ y = S[s][u][k] OBVIOUS
  <2>3. i = 1 /\ k = 1 /\ Placed(x, t) /\ Placed(y, u) BY <1>13, <2>1, <2>2
  <2>4. t = Total(q, 1 .. place[x.e] - 1) + 1 + x.local BY <1>14, <2>1, <2>3
  <2>5. u = Total(q, 1 .. place[y.e] - 1) + 1 + y.local BY <1>14, <2>1, <2>3
  <2>6. x.e = y.e /\ x.local = y.local BY <2>2
  <2> QED BY <2>1, <2>3, <2>4, <2>5, <2>6
<1>17. SeatsAreTaken(S, Active(c), team)
  <2> SUFFICES ASSUME NEW e \in Active(c), NEW l \in 0 .. team[e] - 1
               PROVE  \E r \in DOMAIN S : \E t \in DOMAIN S[1] : \E i \in DOMAIN S[r][t] :
                        S[r][t][i].e = e /\ S[r][t][i].local = l
    BY DEF SeatsAreTaken
  <2>1. e \in Experts(c) /\ slots[e] > 0 BY <1>3, ExpertsAreFinite DEF FitsSlots
  <2>2. PICK b \in Nat \ {0} : b = team[e] /\ b = slots[e] BY <1>10, <2>1
  <2>3. PICK i \in 1 .. E : i = place[e] /\ order[i] = e /\ q[i] = b BY <1>10, <2>1, <2>2
  <2>4. PICK a \in Nat : a = Total(q, 1 .. i - 1) /\ a + b <= T BY <1>12, <2>3
  <2>5. PICK t \in 1 .. T : t = a + 1 + l /\ a < t /\ t <= a + b /\ t - 1 - a = l
    <3>1. l \in 0 .. b - 1 BY <2>2
    <3>2. a + 1 + l \in 1 .. T /\ a < a + 1 + l /\ a + 1 + l <= a + b /\ a + 1 + l - 1 - a = l
      BY <2>4, <3>1
    <3> QED BY <3>2
  <2>6. SlotHolds(q, i, t) BY <2>3, <2>4, <2>5 DEF SlotHolds
  <2>7. S[1][t] = <<Seat(e, l, b)>>
    <3>1. S[1][t] = <<SeatInSlots(order, q, i, t)>> BY <1>8, <2>6 DEF TakesSlot
    <3> QED BY <2>3, <2>4, <2>5, <3>1 DEF SeatInSlots
  <2>8. PICK y : y = Seat(e, l, b) OBVIOUS
  <2>9. y.e = e /\ y.local = l BY <2>8 DEF Seat
  <2>10. 1 \in DOMAIN S[1][t] /\ S[1][t][1] = y BY <2>7, <2>8
  <2> QED BY <1>7, <2>9, <2>10
<1> QED BY <1>7, <1>15, <1>16, <1>17 DEF SeatsFit

-----------------------------------------------------------------------------
(* The ways of sharing a team out unevenly *)

\* A thread for each active expert to begin with.
OneEach(c) == [e \in Experts(c) |-> IF c.M[e] > 0 THEN 1 ELSE 0]

LEMMA OneEachCounts ==
  ASSUME NEW c, IsSummary(c)
  PROVE  /\ OneEach(c) \in [Experts(c) -> Nat]
         /\ \A e \in Active(c) : OneEach(c)[e] = 1
         /\ Total(OneEach(c), Experts(c)) = Cardinality(Active(c))
         /\ Cardinality(Active(c)) \in Nat
<1>1. IsFiniteSet(Experts(c)) /\ Active(c) \in SUBSET Experts(c) /\ IsFiniteSet(Active(c))
  BY ExpertsAreFinite
<1>2. \A e \in Experts(c) : OneEach(c)[e] = IF e \in Active(c) THEN 0 + 1 ELSE 0
  BY DEF OneEach, Active
<1>3. PICK m, k \in Nat : m = Cardinality(Experts(c)) /\ k = Cardinality(Active(c))
  BY <1>1, FS_CardinalityType
<1>4. Total(OneEach(c), Experts(c)) = 0 * m + k
  <2>1. 0 \in Nat OBVIOUS
  <2> QED BY <1>1, <1>2, <1>3, <2>1, TotalCounts
<1>5. 0 * m + k = k OBVIOUS
<1>6. OneEach(c) \in [Experts(c) -> Nat] BY DEF OneEach
<1>7. \A e \in Active(c) : OneEach(c)[e] = 1 BY <1>1, <1>2
<1> QED BY <1>3, <1>4, <1>5, <1>6, <1>7

\* What is filled from a start that fits still fits.
LEMMA FilledFits ==
  ASSUME NEW c, IsSummary(c), NEW start \in [Experts(c) -> Nat],
         \A e \in Active(c) : start[e] > 0,
         NEW n \in Nat, Total(start, Experts(c)) + n <= c.threads,
         NEW slots, slots \in Filled(start, Experts(c), n)
  PROVE  FitsSlots(c, slots)
<1>1. slots \in [Experts(c) -> Nat] /\ \A e \in Experts(c) : start[e] <= slots[e]
  BY DEF Filled
<1>2. Total(slots, Experts(c)) <= Total(start, Experts(c)) + n BY DEF Filled
<1>3. Total(slots, Experts(c)) \in Nat /\ Total(start, Experts(c)) \in Nat
  BY <1>1, ExpertsAreFinite, TotalIsNat
<1>4. Total(slots, Experts(c)) <= c.threads BY <1>2, <1>3 DEF IsSummary
<1>5. ASSUME NEW e \in Active(c) PROVE slots[e] > 0
  <2>1. e \in Experts(c) BY ExpertsAreFinite
  <2>2. start[e] \in Nat /\ slots[e] \in Nat /\ start[e] <= slots[e] /\ start[e] > 0
    BY <1>1, <2>1
  <2> QED BY <2>2
<1> QED BY <1>1, <1>4, <1>5 DEF FitsSlots

LEMMA ProportionalFits ==
  ASSUME NEW c, IsSummary(c), ProportionalApplies(c)
  PROVE  FitsSlots(c, ProportionalSplit(c))
<1>1. PICK k, T \in Nat : k = Cardinality(Active(c)) /\ T = c.threads
  BY OneEachCounts DEF IsSummary
<1>2. k <= T BY <1>1 DEF ProportionalApplies
<1>3. PICK n \in Nat : n = ExtrasBudget(c) /\ n = T - k BY <1>1, <1>2 DEF ExtrasBudget
<1>4. ProportionalSplit(c) \in Filled(OneEach(c), Experts(c), n)
  <2>1. OneEach(c) = [e \in Experts(c) |-> IF c.M[e] > 0 THEN 1 ELSE 0] BY DEF OneEach
  <2>2. IsFiniteSet(Experts(c)) /\ OneEach(c) \in [Experts(c) -> Nat]
    BY ExpertsAreFinite, OneEachCounts
  <2> QED BY <1>3, <2>1, <2>2, DeficitFills
<1>5. Total(OneEach(c), Experts(c)) + n <= c.threads BY <1>1, <1>3, OneEachCounts
<1>6. \A e \in Active(c) : OneEach(c)[e] > 0 BY OneEachCounts
<1> QED BY <1>4, <1>5, <1>6, OneEachCounts, FilledFits

LEMMA HeavyFits ==
  ASSUME NEW c, IsSummary(c), HeavyApplies(c)
  PROVE  FitsSlots(c, HeavySplit(c))
<1>1. PICK k, T \in Nat : k = Cardinality(Active(c)) /\ T = c.threads
  BY OneEachCounts DEF IsSummary
<1>2. Heavy(c) \subseteq Active(c) /\ Heavy(c) # {} BY DEF Heavy, HeavyApplies
<1>3. IsFiniteSet(Active(c)) /\ IsFiniteSet(Heavy(c)) BY <1>2, ExpertsAreFinite, FS_Subset
<1>4. PICK h \in Nat \ {0} : h = Cardinality(Heavy(c))
  <2>1. PICK h \in Nat : h = Cardinality(Heavy(c)) BY <1>3, FS_CardinalityType
  <2>2. h # 0 BY <1>2, <1>3, <2>1, FS_EmptySet
  <2> QED BY <2>1, <2>2
<1>5. Cardinality(Active(c) \ Heavy(c)) = k - h
  <2>1. PICK A, H : A = Active(c) /\ H = Heavy(c) OBVIOUS
  <2>2. Cardinality(A \ H) = Cardinality(A) - Cardinality(A \cap H)
    BY <1>3, <2>1, FS_Difference
  <2>3. A \cap H = H BY <1>2, <2>1
  <2> QED BY <1>1, <1>4, <2>1, <2>2, <2>3
<1>6. HeavyBudget(c) = Larger(0, T - (k - h)) BY <1>1, <1>5 DEF HeavyBudget
<1>7. HeavyBudget(c) >= 2 * h BY <1>4 DEF HeavyApplies
<1>8. HeavyBudget(c) = T - (k - h) BY <1>6, <1>7 DEF Larger
<1>9. PICK n \in Nat : n = HeavyBudget(c) - Cardinality(Heavy(c)) /\ n = T - k
  BY <1>4, <1>7, <1>8
<1>10. HeavySplit(c) \in Filled(OneEach(c), Experts(c), n)
  <2>1. HeavySplit(c) = MoreRowsFill(c, OneEach(c), Caps(c), Heavy(c), n)
    BY <1>9 DEF HeavySplit, OneEach, MoreRowsFill
  <2>2. IsFiniteSet(Experts(c)) /\ OneEach(c) \in [Experts(c) -> Nat]
    BY ExpertsAreFinite, OneEachCounts
  <2> QED BY <2>1, <2>2, MoreRowsFills
<1>11. Total(OneEach(c), Experts(c)) + n <= c.threads BY <1>1, <1>9, OneEachCounts
<1>12. \A e \in Active(c) : OneEach(c)[e] > 0 BY OneEachCounts
<1> QED BY <1>10, <1>11, <1>12, OneEachCounts, FilledFits

LEMMA RemainderFits ==
  ASSUME NEW c, IsSummary(c), Ops(c) <= c.threads,
         NEW r, r.nSingle = NThr(c, Ops(c)), RemainderApplies(c, r)
  PROVE  FitsSlots(c, RemainderSplit(c, r))
<1>1. PICK E, T \in Nat \ {0} : E = Ops(c) /\ T = c.threads /\ E <= T BY PlanNumbers
<1>2. PICK n \in Nat \ {0} : n = r.nSingle /\ E * n <= T BY <1>1, NThrFits
<1>3. E * n \in Nat /\ n * E = E * n OBVIOUS
<1>4. PICK m \in Nat : m = Remainder(c, r) /\ m = T - n * E
  BY <1>1, <1>2, <1>3 DEF Remainder
<1>5. PICK W : W = WideEnough(c, r) /\ W \in SUBSET Experts(c) BY DEF WideEnough
<1>6. PICK desc : desc = ByRowsDesc(c, W) /\ Enumerates(desc, W) BY <1>5, RowsDescEnumerates
<1>7. PICK l \in Nat : l = Len(desc) /\ DOMAIN desc = 1 .. l
  <2>1. IsFiniteSet(W) BY <1>5, ExpertsAreFinite, FS_Subset
  <2>2. PICK l \in Nat : l = Cardinality(W) BY <2>1, FS_CardinalityType
  <2>3. DOMAIN desc = 1 .. l BY <1>6, <2>2 DEF Enumerates
  <2>4. Len(desc) = l BY <2>3
  <2> QED BY <2>3, <2>4
<1>8. PICK k \in Nat : k = AtMost(m, l) /\ k <= m /\ k <= l BY DEF AtMost
<1>9. PICK lucky : lucky = {desc[i] : i \in 1 .. k} OBVIOUS
<1>10. lucky \in SUBSET Experts(c)
  <2>1. \A i \in 1 .. k : i \in 1 .. l BY <1>8
  <2>2. \A i \in 1 .. l : desc[i] \in W BY <1>6, <1>7 DEF Enumerates
  <2> QED BY <1>5, <1>9, <2>1, <2>2
<1>11. Cardinality(lucky) \in Nat /\ Cardinality(lucky) <= k
  <2>1. PICK f : f = [i \in 1 .. k |-> desc[i]] OBVIOUS
  <2>2. f \in Surjection(1 .. k, lucky) BY <1>9, <2>1 DEF Surjection
  <2>3. ExistsSurjection(1 .. k, lucky) BY <2>2 DEF ExistsSurjection
  <2>4. IsFiniteSet(lucky) BY <1>10, ExpertsAreFinite, FS_Subset
  <2> QED BY <2>3, <2>4, FS_SurjCardinalityBound, FS_CardinalityType
<1>12. PICK slots : slots = [e \in Experts(c) |-> IF e \in lucky THEN n + 1 ELSE n] OBVIOUS
<1>13. slots = RemainderSplit(c, r)
  BY <1>2, <1>4, <1>5, <1>6, <1>7, <1>8, <1>9, <1>12 DEF RemainderSplit
<1>14. Total(slots, Experts(c)) = n * E + Cardinality(lucky)
  <2>1. IsFiniteSet(Experts(c)) /\ Cardinality(Experts(c)) = E BY <1>1, ExpertsAreFinite
  <2>2. \A e \in Experts(c) : slots[e] = IF e \in lucky THEN n + 1 ELSE n BY <1>12
  <2> QED BY <1>10, <2>1, <2>2, TotalCounts
<1>15. Total(slots, Experts(c)) <= c.threads BY <1>1, <1>3, <1>4, <1>8, <1>11, <1>14
<1>16. slots \in [Experts(c) -> Nat] BY <1>12
<1>17. \A e \in Active(c) : slots[e] > 0 BY <1>12, ExpertsAreFinite
<1> QED BY <1>13, <1>15, <1>16, <1>17 DEF FitsSlots

\* The expert with the most rows is among those whose tier is the highest.
LEMMA SomeExtras ==
  ASSUME NEW c, IsSummary(c), Active(c) # {}, NEW extras, extras = Extras(c)
  PROVE  /\ \A e \in Experts(c) : extras[e] \in Nat
         /\ \E e \in Experts(c) : extras[e] = 7
<1>1. PICK E \in Nat : Experts(c) = 1 .. E /\ \A e \in 1 .. E : c.M[e] \in Nat
  BY ExpertsAreFinite
<1>2. PICK top \in Experts(c) : /\ c.M[top] = c.maxM /\ c.M[top] > 0
                                /\ \A e \in Experts(c) : c.M[e] <= c.M[top]
  <2>1. PICK W : W = {c.M[e] : e \in Experts(c)} OBVIOUS
  <2>2. PICK b \in Nat : \A x \in W : x <= b
    <3>1. c.M \in Seq(Nat) BY DEF IsSummary
    <3>2. PICK b \in Nat : \A i \in DOMAIN c.M : c.M[i] <= b BY <3>1, SeqIsBounded
    <3>3. DOMAIN c.M = Experts(c) BY ExpertsAreFinite
    <3> QED BY <2>1, <3>2, <3>3
  <2>3. PICK a \in Experts(c) : c.M[a] > 0 BY ExpertsAreFinite DEF Active
  <2>4. W \in SUBSET Nat /\ W # {} BY <1>1, <2>1, <2>3
  <2>5. Max(W) \in W /\ \A x \in W : x <= Max(W) BY <2>2, <2>4, MaxOfBounded
  <2>6. c.maxM = Max(W) BY <2>1 DEF IsSummary, MaxM
  <2>7. PICK top \in Experts(c) : c.M[top] = c.maxM BY <2>1, <2>5, <2>6
  <2>8. \A e \in Experts(c) : c.M[e] <= c.M[top] BY <2>1, <2>5, <2>6, <2>7
  <2>9. c.M[top] \in Nat /\ c.M[a] \in Nat /\ c.M[a] <= c.M[top] BY <1>1, <2>3, <2>7, <2>8
  <2>10. c.M[top] > 0 BY <2>3, <2>9
  <2> QED BY <2>7, <2>8, <2>10
<1> DEFINE desc == ByRowsDesc(c, Active(c))
           n == Cardinality(Active(c))
           atPct(p) == c.M[desc[1 + AtMost((n * p) \div 100, n - 1)]]
           cut(p, share) == Larger(atPct(p), (c.maxM * share) \div 10)
<1>3. extras = [e \in Experts(c) |->
            CASE c.M[e] = 0 -> 0
              [] c.M[e] >= cut(5, 4) -> 7
              [] c.M[e] < cut(5, 4) /\ c.M[e] >= cut(25, 2) -> 3
              [] c.M[e] < cut(5, 4) /\ c.M[e] < cut(25, 2) /\ c.M[e] >= cut(50, 1) -> 1
              [] OTHER -> 0]
  BY DEF Extras
<1>4. atPct(5) \in Nat /\ atPct(5) <= c.M[top]
  <2>1. PICK k \in Nat \ {0} : k = n
    <3>1. IsFiniteSet(Active(c)) BY ExpertsAreFinite
    <3>2. PICK k \in Nat : k = n BY <3>1, FS_CardinalityType
    <3>3. k # 0 BY <3>1, <3>2, FS_EmptySet
    <3> QED BY <3>2, <3>3
  <2>2. Enumerates(desc, Active(c)) BY ExpertsAreFinite, RowsDescEnumerates
  <2>3. PICK q \in Nat : q = (k * 5) \div 100
    <3>1. k * 5 \in Nat OBVIOUS
    <3>2. (k * 5) \div 100 \in Nat BY <3>1, DivBounds
    <3> QED BY <3>2
  <2>4. PICK i \in 1 .. k : i = 1 + AtMost(q, k - 1) BY DEF AtMost
  <2>5. desc[i] \in Active(c) BY <2>1, <2>2 DEF Enumerates
  <2>6. atPct(5) = c.M[desc[i]] BY <2>1, <2>3, <2>4
  <2>7. desc[i] \in Experts(c) BY <2>5, ExpertsAreFinite
  <2> HIDE DEF atPct, desc, n
  <2> QED BY <1>1, <1>2, <2>6, <2>7
<1>5. cut(5, 4) \in Nat /\ cut(5, 4) <= c.M[top]
  <2>1. PICK m \in Nat : m = c.M[top] /\ m = c.maxM BY <1>1, <1>2
  <2>2. PICK q \in Nat : q = (m * 4) \div 10 /\ 10 * q <= m * 4
    <3>1. m * 4 \in Nat OBVIOUS
    <3>2. (m * 4) \div 10 \in Nat /\ 10 * ((m * 4) \div 10) <= m * 4 BY <3>1, DivBounds
    <3> QED BY <3>2
  <2>3. q <= m BY <2>2
  <2>4. cut(5, 4) = Larger(atPct(5), q) BY <2>1, <2>2
  <2>5. Larger(atPct(5), q) \in Nat /\ Larger(atPct(5), q) <= m BY <1>4, <2>1, <2>3 DEF Larger
  <2> QED BY <2>1, <2>4, <2>5
<1> HIDE DEF desc, n, atPct, cut
<1>6. ASSUME NEW e \in Experts(c) PROVE extras[e] \in {0, 1, 3, 7} BY <1>3
<1>7. extras[top] = 7
  <2>1. PICK m \in Nat \ {0} : m = c.M[top] BY <1>1, <1>2
  <2>2. m >= cut(5, 4) /\ m # 0 BY <1>5, <2>1
  <2>3. PICK x \in Nat : x = cut(5, 4) BY <1>5
  <2>4. ~(m = 0) /\ m >= x /\ ~(m < x) BY <2>2, <2>3
  <2> QED BY <1>3, <2>1, <2>3, <2>4
<1> QED BY <1>6, <1>7

LEMMA TierStartFits ==
  ASSUME NEW c, IsSummary(c), TiersApply(c),
         NEW start, start = TierStart(c, Extras(c), Total(Extras(c), Experts(c)))
  PROVE  /\ start \in [Experts(c) -> Nat] /\ \A e \in Active(c) : start[e] > 0
         /\ Total(start, Experts(c)) <= c.threads
<1>1. PICK T, k \in Nat : T = c.threads /\ k = Cardinality(Active(c))
  BY OneEachCounts DEF IsSummary
<1>2. PICK m \in Nat : m = ExtrasBudget(c) /\ m = T - k
  BY <1>1 DEF TiersApply, ExtrasBudget
<1>3. PICK E : E = Experts(c) /\ IsFiniteSet(E) BY ExpertsAreFinite
<1>4. PICK caps : caps = Caps(c) /\ \A e \in E : caps[e] \in Int /\ caps[e] >= 1
  <2>1. Caps(c) = [e \in E |-> AtLeastOne(AtMost(CapHybrid(c), c.N[e] \div AbMinTile(c)))]
    BY <1>3 DEF Caps
  <2>2. PICK h \in Nat : h = CapHybrid(c)
    BY CcdsCoverThreads, PlanNumbers DEF CapHybrid, AtMost
  <2>3. \A e \in E : c.N[e] \div AbMinTile(c) \in Nat
    BY <1>3, ExpertsAreFinite, PlanNumbers, DivBounds
  <2>4. \A n \in Nat : AtLeastOne(AtMost(h, n)) \in Int /\ AtLeastOne(AtMost(h, n)) >= 1
    BY DEF AtLeastOne, AtMost
  <2> QED BY <2>1, <2>2, <2>3, <2>4
<1>5. PICK extras, p : extras = Extras(c) /\ p = Total(extras, E) OBVIOUS
<1>6. start = [e \in E |-> IF c.M[e] > 0
                            THEN AtMost(1 + (extras[e] * AtMost(p, m)) \div p, caps[e]) ELSE 0]
  BY <1>2, <1>3, <1>4, <1>5 DEF TierStart
<1>7. Active(c) = {e \in E : c.M[e] > 0} BY <1>3 DEF Active
<1>8. CASE Active(c) = {}
  <2>1. start = [e \in E |-> 0] BY <1>6, <1>7, <1>8
  <2>2. Total(start, E) = 0 * Cardinality(E) + Cardinality({})
    <3>1. \A e \in E : start[e] = IF e \in {} THEN 0 + 1 ELSE 0 BY <2>1
    <3> QED BY <1>3, <3>1, TotalCounts
  <2>3. Cardinality(E) \in Nat /\ Cardinality({}) = 0 BY <1>3, FS_CardinalityType, FS_EmptySet
  <2>4. Total(start, E) = 0 BY <2>2, <2>3
  <2> QED BY <1>1, <1>3, <1>8, <2>1, <2>4
<1>9. CASE Active(c) # {}
  <2>1. (\A e \in E : extras[e] \in Nat) /\ \E e \in E : extras[e] = 7
    BY <1>3, <1>5, <1>9, SomeExtras
  <2>2. p \in Nat \ {0}
    <3>1. PICK e \in E : extras[e] = 7 BY <2>1
    <3>2. p \in Nat /\ extras[e] <= p BY <1>3, <1>5, <2>1, TotalIsNat
    <3> QED BY <3>1, <3>2
  <2>3. PICK b \in Nat : b = AtMost(p, m) /\ b <= m BY <2>2 DEF AtMost
  <2>4. PICK g : g = [e \in E |-> (extras[e] * b) \div p] OBVIOUS
  <2>5. (\A e \in E : g[e] \in Nat) /\ Total(g, E) <= b
    <3>1. \A e \in E : g[e] = (extras[e] * b) \div p BY <2>4
    <3> QED BY <1>3, <1>5, <2>1, <2>2, <3>1, SharesFit
  <2>6. PICK one : /\ one = OneEach(c) /\ Total(one, E) = k /\ one \in [E -> Nat]
                   /\ \A e \in E : one[e] = IF c.M[e] > 0 THEN 1 ELSE 0
    BY <1>1, <1>3, OneEachCounts DEF OneEach
  <2>7. PICK h : h = [e \in E |-> one[e] + g[e]] OBVIOUS
  <2>8. Total(h, E) = k + Total(g, E)
    <3>1. \A e \in E : one[e] \in Nat /\ g[e] \in Nat /\ h[e] = one[e] + g[e]
      BY <2>5, <2>6, <2>7
    <3>2. Total(h, E) = Total(one, E) + Total(g, E) BY <1>3, <3>1, TotalOfSum
    <3> QED BY <2>6, <3>2
  <2>9. Total(g, E) \in Nat BY <1>3, <2>5, TotalIsNat
  <2>10. Total(h, E) <= T BY <1>1, <1>2, <2>3, <2>5, <2>8, <2>9
  <2>11. ASSUME NEW e \in E
         PROVE  /\ start[e] \in Nat /\ h[e] \in Nat /\ start[e] <= h[e]
                /\ c.M[e] > 0 => start[e] > 0
    <3>1. PICK x \in Nat : x = g[e] /\ x = (extras[e] * AtMost(p, m)) \div p
      BY <2>3, <2>4, <2>5
    <3>2. PICK a \in Int : a = caps[e] /\ a >= 1 BY <1>4
    <3>3. start[e] = IF c.M[e] > 0 THEN AtMost(1 + x, a) ELSE 0 BY <1>6, <3>1, <3>2
    <3>4. h[e] = IF c.M[e] > 0 THEN 1 + x ELSE 0 + x BY <2>6, <2>7, <3>1
    <3> QED BY <3>2, <3>3, <3>4 DEF AtMost
  <2>12. Total(start, E) <= Total(h, E)
    <3>1. \A e \in E : start[e] \in Int /\ h[e] \in Int /\ start[e] <= h[e] BY <2>11
    <3> QED BY <1>3, <3>1, TotalMonotone
  <2>13. Total(start, E) \in Nat /\ Total(h, E) \in Nat BY <1>3, <2>11, TotalIsNat
  <2>14. Total(start, E) <= T BY <2>10, <2>12, <2>13
  <2>15. start \in [E -> Nat] BY <1>6, <2>11
  <2>16. \A e \in Active(c) : start[e] > 0 BY <1>7, <2>11
  <2> QED BY <1>1, <1>3, <2>14, <2>15, <2>16
<1> QED BY <1>8, <1>9

LEMMA TierFits ==
  ASSUME NEW c, IsSummary(c), TiersApply(c)
  PROVE  FitsSlots(c, TierSplit(c, Extras(c)))
<1>1. PICK start : start = TierStart(c, Extras(c), Total(Extras(c), Experts(c))) OBVIOUS
<1>2. /\ start \in [Experts(c) -> Nat] /\ \A e \in Active(c) : start[e] > 0
      /\ Total(start, Experts(c)) <= c.threads
  BY <1>1, TierStartFits
<1>3. IsFiniteSet(Experts(c)) BY ExpertsAreFinite
<1>4. PICK a, T \in Nat : a = Total(start, Experts(c)) /\ T = c.threads /\ a <= T
  BY <1>2, <1>3, TotalIsNat DEF IsSummary
<1>5. PICK n \in Nat : n = T - a BY <1>4
<1>6. TierSplit(c, Extras(c)) = MoreRowsFill(c, start, Caps(c), Active(c), n)
  BY <1>1, <1>4, <1>5 DEF TierSplit, FillUp, MoreRowsFill
<1>7. MoreRowsFill(c, start, Caps(c), Active(c), n) \in Filled(start, Experts(c), n)
  BY <1>2, <1>3, MoreRowsFills
<1>8. Total(start, Experts(c)) + n <= c.threads BY <1>4, <1>5
<1> QED BY <1>2, <1>6, <1>7, <1>8, FilledFits

\* Whichever way a single round shares the threads, every active expert gets
\* one and the team suffices.
LEMMA SingleSlotsFit ==
  ASSUME NEW c, IsSummary(c), Ops(c) <= c.threads,
         NEW r, r.nSingle = NThr(c, Ops(c)), SingleSlots(c, r) # NoSlots(c)
  PROVE  FitsSlots(c, SingleSlots(c, r))
<1>1. \/ SingleSlots(c, r) = NoSlots(c)
      \/ TiersApply(c) /\ SingleSlots(c, r) = TierSplit(c, Extras(c))
      \/ HeavyApplies(c) /\ SingleSlots(c, r) = HeavySplit(c)
      \/ ProportionalApplies(c) /\ SingleSlots(c, r) = ProportionalSplit(c)
      \/ RemainderApplies(c, r) /\ SingleSlots(c, r) = RemainderSplit(c, r)
  BY DEF SingleSlots
<1> QED BY <1>1, TierFits, HeavyFits, ProportionalFits, RemainderFits

-----------------------------------------------------------------------------
(* The schedules *)

\* Only a team as large as the experts are many takes them in one round.
LEMMA SinglePicks ==
  ASSUME NEW c, NEW r, RoundPick(c, r) = "Single"
  PROVE  c.threads >= Ops(c)
<1>1. SingleEligible(c) BY DEF RoundPick
<1> QED BY <1>1 DEF SingleEligible

\* Single round, several rounds or rounds of equal size: the experts of a
\* round share the team evenly, or each has threads of its own.
LEMMA RoundsPlanFits ==
  ASSUME NEW c, IsSummary(c), NEW plan, plan = RoundsPlan(c, RoundCandidates(c))
  PROVE  /\ IsRoundsPlan(c, plan) \/ IsUnevenPlan(c, plan)
         /\ HasStrategy(plan)
<1>1. PICK r : r = RoundCandidates(c) OBVIOUS
<1>2. PICK E, T \in Nat \ {0} : E = Ops(c) /\ T = c.threads BY PlanNumbers
<1>3. PICK w, m, order, stable :
        /\ w = AbMinTile(c) /\ m = MaxTiles(c) /\ order = ExpertOrder(c) /\ stable = NoSlots(c)
        /\ w \in Nat \ {0} /\ m \in Nat \ {0} /\ stable \in [Experts(c) -> Nat]
  BY PlanNumbers
<1>4. PICK base : base = [SequentialPlan(c) EXCEPT !.strategy = "ManyExperts",
                            !.minNTile = AbMinTile(c), !.order = ExpertOrder(c)]
  OBVIOUS
<1>10. base = [strategy |-> "ManyExperts", minNTile |-> w, batch |-> 0, nThrFixed |-> 0,
               maxNThr |-> 0, thrPerExpert |-> 0, order |-> order, stable |-> stable,
               perExpert |-> FALSE]
  <2>1. w = AbMinTile(c) /\ order = ExpertOrder(c) /\ stable = NoSlots(c) BY <1>3
  <2> QED BY <1>4, <2>1 DEF SequentialPlan
<1>5. plan = ApplyRoundPick(c, r, RoundPick(c, r), base) BY <1>1, <1>4 DEF RoundsPlan
<1>6. /\ r.nMulti \in Nat \ {0} /\ r.batch \in Nat \ {0} /\ r.batch * r.nMulti <= c.threads
      /\ r.balanced \in Nat \ {0} /\ r.balanced <= c.threads /\ r.nSingle = NThr(c, Ops(c))
  BY <1>1, CandidatesFit
<1>7. CASE RoundPick(c, r) = "Single"
  <2>1. E <= T BY <1>2, <1>7, SinglePicks
  <2>2. PICK n \in Nat \ {0} : n = r.nSingle /\ E * n <= T
    BY <1>2, <1>6, <2>1, NThrFits
  <2>3. PICK slots : slots = SingleSlots(c, r) OBVIOUS
  <2>4. PICK own \in BOOLEAN : own <=> slots # NoSlots(c)
    <3>1. CASE slots # NoSlots(c) BY <3>1
    <3>2. CASE slots = NoSlots(c) BY <3>2
    <3> QED BY <3>1, <3>2
  <2>5. own = (slots # NoSlots(c))
    <3>1. CASE slots # NoSlots(c)
      <4>1. (slots # NoSlots(c)) = TRUE /\ own = TRUE BY <2>4, <3>1
      <4> QED BY <4>1
    <3>2. CASE slots = NoSlots(c)
      <4>1. (slots # NoSlots(c)) = FALSE /\ own = FALSE BY <2>4, <3>2
      <4> QED BY <4>1
    <3> QED BY <3>1, <3>2
  <2>6. plan = [strategy |-> "ManyExperts", minNTile |-> w, batch |-> E, nThrFixed |-> n,
                maxNThr |-> 0, thrPerExpert |-> 0, order |-> order, stable |-> slots,
                perExpert |-> own]
    BY <1>2, <1>5, <1>7, <1>10, <2>2, <2>3, <2>5 DEF ApplyRoundPick, SingleRound
  <2>7. /\ plan.strategy = "ManyExperts" /\ plan.minNTile = w /\ plan.batch = E
        /\ plan.nThrFixed = n /\ plan.order = order /\ plan.stable = slots
        /\ plan.perExpert = own
    BY <2>6
  <2>8. ASSUME ~own PROVE IsRoundsPlan(c, plan)
    <3>1. slots = stable BY <1>3, <2>4, <2>8
    <3>2. plan.batch * plan.nThrFixed <= c.threads BY <1>2, <2>2, <2>7
    <3>3. RoundsHold(c, plan) BY <2>7, <3>2, FixedRoundsHold
    <3>4. plan.perExpert = FALSE BY <2>7, <2>8
    <3> QED BY <1>3, <2>7, <3>1, <3>3, <3>4 DEF IsRoundsPlan
  <2>9. ASSUME own PROVE IsUnevenPlan(c, plan)
    <3>1. Ops(c) <= c.threads /\ SingleSlots(c, r) # NoSlots(c) BY <1>2, <2>1, <2>3, <2>4, <2>9
    <3>2. FitsSlots(c, slots) BY <1>6, <2>3, <3>1, SingleSlotsFit
    <3>3. own = TRUE BY <2>9
    <3> QED BY <1>2, <1>3, <2>7, <3>2, <3>3 DEF IsUnevenPlan
  <2>10. HasStrategy(plan) BY <2>6 DEF HasStrategy
  <2> QED BY <2>8, <2>9, <2>10
<1>8. CASE RoundPick(c, r) = "Multi"
  <2>1. PICK b, n \in Nat \ {0} : b = r.batch /\ n = r.nMulti /\ b * n <= T BY <1>2, <1>6
  <2>2. plan = [strategy |-> "ManyExperts", minNTile |-> w, batch |-> b, nThrFixed |-> n,
                maxNThr |-> 0, thrPerExpert |-> 0, order |-> order, stable |-> stable,
                perExpert |-> FALSE]
    BY <1>5, <1>8, <1>10, <2>1 DEF ApplyRoundPick
  <2>3. /\ plan.strategy = "ManyExperts" /\ plan.minNTile = w /\ plan.batch = b
        /\ plan.nThrFixed = n /\ plan.order = order /\ plan.stable = stable
        /\ plan.perExpert = FALSE
    BY <2>2
  <2>4. RoundsHold(c, plan) BY <1>2, <2>1, <2>3, FixedRoundsHold
  <2>5. IsRoundsPlan(c, plan) BY <1>3, <2>3, <2>4 DEF IsRoundsPlan
  <2>6. HasStrategy(plan) BY <2>2 DEF HasStrategy
  <2> QED BY <2>5, <2>6
<1>9. CASE RoundPick(c, r) \notin {"Single", "Multi"}
  <2>1. PICK b \in Nat \ {0} : b = r.balanced /\ b <= T BY <1>2, <1>6
  <2>2. plan = [strategy |-> "ManyExperts", minNTile |-> w, batch |-> b, nThrFixed |-> 0,
                maxNThr |-> m, thrPerExpert |-> 0, order |-> order, stable |-> stable,
                perExpert |-> FALSE]
    BY <1>3, <1>5, <1>9, <1>10, <2>1 DEF ApplyRoundPick
  <2>3. /\ plan.strategy = "ManyExperts" /\ plan.minNTile = w /\ plan.batch = b
        /\ plan.nThrFixed = 0 /\ plan.maxNThr = m /\ plan.order = order
        /\ plan.stable = stable /\ plan.perExpert = FALSE
    BY <2>2
  <2>4. RoundsHold(c, plan) BY <1>2, <1>3, <2>1, <2>3, SharedRoundsHold
  <2>5. IsRoundsPlan(c, plan) BY <1>3, <2>3, <2>4 DEF IsRoundsPlan
  <2>6. HasStrategy(plan) BY <2>2 DEF HasStrategy
  <2> QED BY <2>5, <2>6
<1> QED BY <1>7, <1>8, <1>9

\* The plans with a team of the same size for every expert, and those whose
\* CCDs are the teams.
LEMMA DecodePlansFit ==
  ASSUME NEW c, IsSummary(c),
         NEW plan, plan \in {TryDecodeDPlan(c), ForceDecodeDPlan(c), DynamicPlan(c)}
  PROVE  /\ plan.strategy \in {"DecodeD", "DecodeDynamic"}
         /\ plan.strategy = "DecodeD" => plan.thrPerExpert \in Nat \ {0}
         /\ plan.minNTile = EffectiveDecodeNTile(c) /\ plan.stable \in [Experts(c) -> Nat]
         /\ HasStrategy(plan)
<1>1. PICK E, T, w \in Nat \ {0} :
        E = Ops(c) /\ T = c.threads /\ w = EffectiveDecodeNTile(c)
  BY PlanNumbers
<1>2. PICK slots, order : slots = NoSlots(c) /\ order = InputOrder(c)
                          /\ slots \in [Experts(c) -> Nat]
  BY PlanNumbers
<1>3. PICK a \in Nat : a = T \div E BY DivBounds
<1>4. PICK b \in Nat : b = c.maxN \div w BY DivBounds DEF IsSummary
<1>5. AtLeastOne(a) \in Nat \ {0} /\ AtLeastOne(AtMost(a, b)) \in Nat \ {0}
  BY DEF AtLeastOne, AtMost
<1>6. ASSUME NEW thr \in Nat \ {0}, plan = DecodeD(c, thr)
      PROVE  /\ plan.strategy = "DecodeD" /\ plan.thrPerExpert = thr
             /\ plan.minNTile = w /\ plan.stable = slots /\ HasStrategy(plan)
  <2>1. plan = [strategy |-> "DecodeD", minNTile |-> w, batch |-> 0, nThrFixed |-> 0,
                maxNThr |-> 0, thrPerExpert |-> thr, order |-> order, stable |-> slots,
                perExpert |-> FALSE]
    BY <1>1, <1>2, <1>6 DEF DecodeD, SequentialPlan
  <2> QED BY <2>1 DEF HasStrategy
<1>7. CASE plan \in {TryDecodeDPlan(c), ForceDecodeDPlan(c)}
  <2>1. PICK thr \in Nat \ {0} : plan = DecodeD(c, thr)
    BY <1>1, <1>3, <1>4, <1>5, <1>7 DEF TryDecodeDPlan, ForceDecodeDPlan
  <2> QED BY <1>1, <1>2, <1>6, <2>1
<1>8. CASE plan = DynamicPlan(c)
  <2>1. plan = [strategy |-> "DecodeDynamic", minNTile |-> w, batch |-> 0, nThrFixed |-> 0,
                maxNThr |-> 0, thrPerExpert |-> 0, order |-> order, stable |-> slots,
                perExpert |-> FALSE]
    BY <1>1, <1>2, <1>8 DEF DynamicPlan, SequentialPlan
  <2>2. plan.strategy = "DecodeDynamic" /\ plan.minNTile = w /\ plan.stable = slots
    BY <2>1
  <2>3. HasStrategy(plan) BY <2>1 DEF HasStrategy
  <2> QED BY <1>1, <1>2, <2>2, <2>3
<1> QED BY <1>7, <1>8

\* The plan is one of these, or the sequential one.
PlanFits(c, plan) ==
  \/ plan.strategy = "Sequential"
  \/ plan \in {TryDecodeDPlan(c), ForceDecodeDPlan(c), DynamicPlan(c)}
  \/ IsRoundsPlan(c, plan)
  \/ IsUnevenPlan(c, plan)

LEMMA PlansFit ==
  ASSUME NEW c, IsSummary(c)
  PROVE  /\ PlanFits(c, Plan(c))
         /\ Plan(c) = PlanGroupNTile(c) \/ Plan(c).strategy = "Sequential"
<1>1. PICK P : P = PlanGroupNTile(c) OBVIOUS
<1>2. PICK R : R = RoundsPlan(c, RoundCandidates(c)) OBVIOUS
<1>3. \/ P = SequentialPlan(c)
      \/ P \in {TryDecodeDPlan(c), ForceDecodeDPlan(c), DynamicPlan(c)}
      \/ P = StablePlan(c) /\ StableFits(c)
      \/ P = FewExpertsPlan(c) /\ Ops(c) <= c.numCcds
      \/ P = R
  <2>1. ~StableFits(c) => StablePlan(c) = SequentialPlan(c) BY DEF StablePlan
  <2> QED BY <1>1, <1>2, <2>1 DEF PlanGroupNTile
<1>4. HasStrategy(SequentialPlan(c)) /\ SequentialPlan(c).strategy = "Sequential"
  BY DEF SequentialPlan, HasStrategy
<1>5. PlanFits(c, P) /\ HasStrategy(P)
  <2>1. CASE P = SequentialPlan(c) BY <1>4, <2>1 DEF PlanFits
  <2>2. CASE P \in {TryDecodeDPlan(c), ForceDecodeDPlan(c), DynamicPlan(c)}
    BY <2>2, DecodePlansFit DEF PlanFits
  <2>3. CASE P = StablePlan(c) /\ StableFits(c) BY <2>3, StablePlanFits DEF PlanFits
  <2>4. CASE P = FewExpertsPlan(c) /\ Ops(c) <= c.numCcds
    BY <2>4, FewExpertsPlanFits DEF PlanFits
  <2>5. CASE P = R BY <1>2, <2>5, RoundsPlanFits DEF PlanFits
  <2> QED BY <1>3, <2>1, <2>2, <2>3, <2>4, <2>5
<1>6. Plan(c) = [P EXCEPT !.strategy = IF SplitHalvesFallback(c) THEN "Sequential" ELSE @]
  BY <1>1 DEF Plan
<1>7. CASE SplitHalvesFallback(c)
  <2>1. Plan(c).strategy = "Sequential" BY <1>5, <1>6, <1>7 DEF HasStrategy
  <2> QED BY <2>1 DEF PlanFits
<1>8. CASE ~SplitHalvesFallback(c)
  <2>1. Plan(c) = P BY <1>5, <1>6, <1>8 DEF HasStrategy
  <2> QED BY <1>1, <1>5, <2>1
<1> QED BY <1>7, <1>8

\* The seats of a plan that is not the sequential one are a matching of
\* threads and places in teams, and only executors that end each round in a
\* barrier have several.
IsSeated(c, plan, S) ==
  /\ \E team, home : SeatsFit(c, S, team, home)
  /\ Len(S) > 1 => plan.strategy \in {"FewExperts", "ManyExperts"}
  /\ plan.minNTile \in {AbMinTile(c), EffectiveDecodeNTile(c)}
  /\ plan.minNTile \in Nat \ {0} /\ plan.stable \in [Experts(c) -> Nat]

LEMMA PlansAreSeated ==
  ASSUME NEW c, IsSummary(c), NEW plan, PlanFits(c, plan), plan.strategy # "Sequential"
  PROVE  IsSeated(c, plan, Seats(c, plan))
<1>1. PICK S : S = Seats(c, plan) OBVIOUS
<1>2. AbMinTile(c) \in Nat \ {0} /\ EffectiveDecodeNTile(c) \in Nat \ {0} BY PlanNumbers
<1>3. CASE IsRoundsPlan(c, plan)
  <2>1. S = RoundsSeats(c, plan) BY <1>1, <1>3 DEF Seats, IsRoundsPlan
  <2>2. Enumerates(plan.order, Experts(c)) BY <1>3, ExpertOrderKeepsExperts DEF IsRoundsPlan
  <2>3. \E team, home : SeatsFit(c, S, team, home)
    BY <1>3, <2>1, <2>2, RoundsAreSeated DEF IsRoundsPlan
  <2>4. /\ plan.strategy \in {"FewExperts", "ManyExperts"}
        /\ plan.minNTile = AbMinTile(c) /\ plan.stable \in [Experts(c) -> Nat]
    BY <1>3 DEF IsRoundsPlan
  <2> QED BY <1>1, <1>2, <2>3, <2>4 DEF IsSeated
<1>4. CASE IsUnevenPlan(c, plan)
  <2>1. S = RoundsSeats(c, plan) BY <1>1, <1>4 DEF Seats, IsUnevenPlan
  <2>2. Enumerates(plan.order, Experts(c)) BY <1>4, ExpertOrderKeepsExperts DEF IsUnevenPlan
  <2>3. \E team, home : SeatsFit(c, S, team, home) BY <1>4, <2>1, <2>2, UnevenRoundIsSeated
  <2>4. /\ plan.strategy \in {"FewExperts", "ManyExperts"}
        /\ plan.minNTile = AbMinTile(c) /\ plan.stable \in [Experts(c) -> Nat]
    BY <1>4 DEF IsUnevenPlan, FitsSlots
  <2> QED BY <1>1, <1>2, <2>3, <2>4 DEF IsSeated
<1>5. CASE plan \in {TryDecodeDPlan(c), ForceDecodeDPlan(c), DynamicPlan(c)}
  <2>1. /\ plan.strategy \in {"DecodeD", "DecodeDynamic"}
        /\ plan.strategy = "DecodeD" => plan.thrPerExpert \in Nat \ {0}
        /\ plan.minNTile = EffectiveDecodeNTile(c) /\ plan.stable \in [Experts(c) -> Nat]
    BY <1>5, DecodePlansFit
  <2>2. \A y : Len(<<y>>) = 1 OBVIOUS
  <2>3. CASE plan.strategy = "DecodeD"
    <3>1. S = DecodeDSeats(c, plan) BY <1>1, <2>3 DEF Seats
    <3>2. \E team, home : SeatsFit(c, S, team, home) BY <2>1, <2>3, <3>1, DecodeDIsSeated
    <3>3. Len(S) = 1 BY <2>2, <3>1 DEF DecodeDSeats
    <3> QED BY <1>1, <1>2, <2>1, <3>2, <3>3 DEF IsSeated
  <2>4. CASE plan.strategy = "DecodeDynamic"
    <3>1. S = DynamicSeats(c) BY <1>1, <2>4 DEF Seats
    <3>2. \E team, home : SeatsFit(c, S, team, home) BY <3>1, DynamicIsSeated
    <3>3. Len(S) = 1 BY <2>2, <3>1 DEF DynamicSeats
    <3> QED BY <1>1, <1>2, <2>1, <3>2, <3>3 DEF IsSeated
  <2> QED BY <2>1, <2>3, <2>4
<1> QED BY <1>1, <1>3, <1>4, <1>5 DEF PlanFits

\* Whatever the shapes of a call, the team and the tuning variables, the
\* schedule flat_n_tile plans holds each column of each active expert once, and
\* the activation pass each row.
THEOREM PlannedSchedulesAreSound ==
  ASSUME NEW c, IsSummary(c)
  PROVE  IsSchedule(Schedule(c))
<1>1. PICK P : P = Plan(c) OBVIOUS
<1>2. CASE P.strategy = "Sequential" BY <1>1, <1>2, SequentialSchedulesAreSound
<1>3. CASE P.strategy # "Sequential"
  <2>1. PICK S : S = Seats(c, P) OBVIOUS
  <2>2. PlanFits(c, P) BY <1>1, PlansFit
  <2>3. IsSeated(c, P, S) BY <1>3, <2>1, <2>2, PlansAreSeated
  <2>4. PICK team, home : SeatsFit(c, S, team, home) BY <2>3 DEF IsSeated
  <2>5. IsSchedule(ScheduleOf(c, P, S))
    BY <1>3, <2>1, <2>3, <2>4, SeatedSchedulesAreSound DEF IsSeated
  <2>6. Schedule(c) = ScheduleOf(c, P, S) BY <1>1, <2>1 DEF Schedule, Planned
  <2> QED BY <2>5, <2>6
<1> QED BY <1>2, <1>3

LEMMA PlannedAreSound ==
  ASSUME Schedules \subseteq CallSchedules
  PROVE  SchedulesAreSound
<1>1. \A s \in Schedules : IsSchedule(s)
  <2> SUFFICES ASSUME NEW s \in Schedules PROVE IsSchedule(s) OBVIOUS
  <2>1. PICK c \in Calls : s = Schedule(Summarised(c)) BY DEF CallSchedules
  <2>2. IsCall(c) BY CallsAreRuns
  <2>3. IsSchedule(Schedule(Summarised(c)))
    BY <2>2, SummaryOfCall, PlannedSchedulesAreSound
  <2> QED BY <2>1, <2>3
<1> QED BY <1>1 DEF SchedulesAreSound

\* So no column of a planned call is multiplied twice or left out ...
THEOREM PlannedColumnsOnce ==
  ASSUME Schedules \subseteq CallSchedules
  PROVE  Spec => []EachColumnOnce
BY PlannedAreSound, ColumnsOnce

\* ... the separate activation pass activates every element once, after all
\* threads have multiplied the columns of its row ...
THEOREM PlannedElementsOnce ==
  ASSUME Schedules \subseteq CallSchedules
  PROVE  Spec => []ActivatedOnceAfterProduct
BY PlannedAreSound, ElementsOnceAfterProduct

\* ... and flat_n_tile keeps what a grouped matmul promises its caller.
THEOREM PlannedKeepsPromise ==
  ASSUME Schedules \subseteq CallSchedules
  PROVE  Spec => KeepsPromiseSafety
BY PlannedAreSound, ImplementsPromise
-----------------------------------------------------------------------------
(* What the tiles of a plan are *)

\* y is one of the n slices of an active expert.
IsSliceOf(c, n, y) ==
  /\ y.e \in Experts(c) /\ c.M[y.e] > 0
  /\ \E l \in 0 .. n - 1 :
       LET cols == AlignedNSplit(c.N[y.e], n, l, NrAlign(c))
       IN  y.lo = cols[1] /\ y.hi = cols[2]

\* Every item of the work lists is a slice taken by the threads of one of the
\* teams that the seats name.
TilesAreSlices(c, plan, S, tiles) ==
  \A r \in DOMAIN S : \A t \in DOMAIN S[1] : \A k \in DOMAIN tiles[r][t] :
    \E i \in DOMAIN S[r][t] :
      /\ S[r][t][i].team \in Nat \ {0}
      /\ IsSliceOf(c, ParticipatingNThr(c, plan, tiles[r][t][k].e, S[r][t][i].team),
                   tiles[r][t][k])

LEMMA SeatsMakeSlices ==
  ASSUME NEW c, IsSummary(c), NEW plan, plan.minNTile \in Nat \ {0},
         plan.stable \in [Experts(c) -> Nat],
         NEW S, S = Seats(c, plan), NEW team, NEW home, SeatsFit(c, S, team, home),
         NEW tiles, tiles = PlanTiles(c, plan)
  PROVE  /\ DOMAIN tiles = DOMAIN S
         /\ \A r \in DOMAIN S : DOMAIN tiles[r] = DOMAIN S[1]
         /\ TilesAreSlices(c, plan, S, tiles)
<1>1. PICK n : n = Participants(c, plan, team) OBVIOUS
<1>2. PICK C : C = ColumnSpans(c, n) OBVIOUS
<1>3. tiles = WorkFrom(S, c.M, n, C) BY <1>1, <1>2, PlannedWork
<1>4. /\ \A r \in DOMAIN S : DOMAIN S[r] = DOMAIN S[1]
      /\ team \in [Experts(c) -> Nat \ {0}]
  BY DEF SeatsFit, SeatsAreExperts
<1>5. DOMAIN tiles = DOMAIN S /\ \A r \in DOMAIN S : DOMAIN tiles[r] = DOMAIN S[1]
  BY <1>3, <1>4 DEF WorkFrom
<1>6. SpansFit(c, n, c.N, C) BY <1>1, <1>2, <1>4, SpansAreSplits
<1>7. ASSUME NEW r \in DOMAIN S, NEW t \in DOMAIN S[1], NEW k \in DOMAIN tiles[r][t],
             NEW y, y = tiles[r][t][k]
      PROVE  \E i \in DOMAIN S[r][t] :
               /\ S[r][t][i].team \in Nat \ {0}
               /\ IsSliceOf(c, ParticipatingNThr(c, plan, y.e, S[r][t][i].team), y)
  <2>1. PICK w : w = tiles[r][t] OBVIOUS
  <2>2. PICK p : WorkedBy(c.M, n, C, S[r][t], w, p) BY <1>3, <1>6, <2>1, WorkOfThread
  <2>3. PICK i \in DOMAIN S[r][t] :
          Works(c.M, n, C, S[r][t][i]) /\ y = Slice(C, S[r][t][i])
    BY <1>7, <2>1, <2>2 DEF WorkedBy
  <2>4. PICK x : x = S[r][t][i] OBVIOUS
  <2>5. x.e \in Experts(c) /\ x.local \in Nat /\ x.team = team[x.e]
    BY <2>4 DEF SeatsFit, SeatsAreExperts
  <2>6. PICK e, l, m : /\ e \in Experts(c) /\ e = x.e /\ l \in Nat /\ l = x.local
                       /\ m = ParticipatingNThr(c, plan, e, x.team)
    BY <2>5
  <2>7. n[e] = m /\ m \in Nat
    <3>1. n[e] = m BY <1>1, <2>5, <2>6 DEF Participants
    <3> QED BY <1>6, <2>6, <3>1 DEF SpansFit
  <2>8. c.M[e] > 0 /\ l < m /\ y = [e |-> e, lo |-> C[e][l][1], hi |-> C[e][l][2]]
    BY <2>3, <2>4, <2>6, <2>7 DEF Works, Slice
  <2>9. l \in 0 .. m - 1 BY <2>6, <2>7, <2>8
  <2>10. PICK cols : cols = AlignedNSplit(c.N[e], m, l, NrAlign(c)) OBVIOUS
  <2>11. C[e][l] = cols
    <3>1. C[e] = Spans(c.N[e], m, NrAlign(c)) BY <1>2, <2>6, <2>7 DEF ColumnSpans
    <3> QED BY <2>9, <2>10, <3>1 DEF Spans
  <2>12. y.e = e /\ y.lo = cols[1] /\ y.hi = cols[2] BY <2>8, <2>11
  <2>13. IsSliceOf(c, m, y) BY <2>6, <2>8, <2>9, <2>10, <2>12 DEF IsSliceOf
  <2>14. x.team \in Nat \ {0} BY <1>4, <2>5
  <2> QED BY <2>4, <2>6, <2>12, <2>13, <2>14
<1>8. TilesAreSlices(c, plan, S, tiles) BY <1>7 DEF TilesAreSlices
<1> QED BY <1>5, <1>8

\* So every tile a planned call multiplies is a slice, or a whole expert.
IsWholeExpert(c, y) ==
  y.e \in Experts(c) /\ c.M[y.e] > 0 /\ y.lo = 0 /\ y.hi = c.N[y.e]
IsPlannedTile(c, plan, y) ==
  \/ plan.strategy = "Sequential" /\ IsWholeExpert(c, y)
  \/ /\ plan.strategy # "Sequential"
     /\ \E team \in Nat \ {0} : IsSliceOf(c, ParticipatingNThr(c, plan, y.e, team), y)
TilesArePlanned(c, plan, tiles) ==
  \A r \in DOMAIN tiles : \A t \in DOMAIN tiles[1] : \A k \in DOMAIN tiles[r][t] :
    IsPlannedTile(c, plan, tiles[r][t][k])

LEMMA SequentialTiles ==
  ASSUME NEW c, IsSummary(c), NEW plan, plan.strategy = "Sequential",
         NEW s, s = Planned(c, plan)
  PROVE  TilesArePlanned(c, plan, s.tiles)
<1>1. PICK act : act = Sorted(Active(c), LAMBDA e, f : e < f)
                 /\ Enumerates(act, Active(c))
  BY InputOrderEnumerates
<1>2. PICK items : items = [i \in DOMAIN act |-> [e |-> act[i], lo |-> 0, hi |-> c.N[act[i]]]]
  OBVIOUS
<1>3. s = ScheduleOf(c, plan, Seats(c, plan)) BY DEF Planned
<1>4. s.tiles = <<[t \in 1 .. 1 |-> items]>>
  <2>1. s.tiles = WholeExperts(c) BY <1>3 DEF ScheduleOf
  <2>2. WholeExperts(c) =
          <<[t \in 1 .. 1 |->
               [i \in DOMAIN act |-> [e |-> act[i], lo |-> 0, hi |-> c.N[act[i]]]]]>>
    BY <1>1 DEF WholeExperts
  <2> QED BY <1>2, <2>1, <2>2
<1>5. \A r, t : r \in DOMAIN s.tiles /\ t \in DOMAIN s.tiles[1] => s.tiles[r][t] = items
  <2>1. 1 .. 1 = {1} OBVIOUS
  <2> QED BY <1>4, <2>1
<1>6. ASSUME NEW i \in DOMAIN items PROVE IsPlannedTile(c, plan, items[i])
  <2>1. PICK e : e = act[i] /\ e \in Active(c) BY <1>1, <1>2 DEF Enumerates
  <2>2. items[i] = [e |-> e, lo |-> 0, hi |-> c.N[e]] BY <1>2, <2>1
  <2>3. e \in Experts(c) /\ c.M[e] > 0 BY <2>1, ExpertsAreFinite DEF Active
  <2> QED BY <2>2, <2>3 DEF IsPlannedTile, IsWholeExpert
<1> QED BY <1>5, <1>6 DEF TilesArePlanned

LEMMA SeatedTiles ==
  ASSUME NEW c, IsSummary(c), NEW plan, plan.strategy # "Sequential",
         plan.minNTile \in Nat \ {0}, plan.stable \in [Experts(c) -> Nat],
         NEW S, S = Seats(c, plan), NEW team, NEW home, SeatsFit(c, S, team, home),
         NEW s, s = Planned(c, plan)
  PROVE  TilesArePlanned(c, plan, s.tiles)
<1>1. s = ScheduleOf(c, plan, S) BY DEF Planned
<1>2. PICK tiles : tiles = PlanTiles(c, plan) OBVIOUS
<1>3. s.tiles = tiles BY <1>1, <1>2 DEF ScheduleOf, PlanTiles
<1>4. /\ DOMAIN tiles = DOMAIN S /\ \A r \in DOMAIN S : DOMAIN tiles[r] = DOMAIN S[1]
      /\ TilesAreSlices(c, plan, S, tiles)
  BY <1>2, SeatsMakeSlices
<1>5. DOMAIN tiles[1] = DOMAIN S[1]
  <2>1. Len(S) \in Nat \ {0} /\ DOMAIN S = 1 .. Len(S) BY DEF SeatsFit, SeatsAreExperts
  <2>2. 1 \in DOMAIN S BY <2>1
  <2> QED BY <1>4, <2>2
<1>6. ASSUME NEW r \in DOMAIN tiles, NEW t \in DOMAIN tiles[1], NEW k \in DOMAIN tiles[r][t]
      PROVE  IsPlannedTile(c, plan, tiles[r][t][k])
  <2>1. PICK i \in DOMAIN S[r][t] :
          /\ S[r][t][i].team \in Nat \ {0}
          /\ IsSliceOf(c, ParticipatingNThr(c, plan, tiles[r][t][k].e, S[r][t][i].team),
                       tiles[r][t][k])
    BY <1>4, <1>5, <1>6 DEF TilesAreSlices
  <2> QED BY <2>1 DEF IsPlannedTile
<1>7. TilesArePlanned(c, plan, tiles) BY <1>6 DEF TilesArePlanned
<1> QED BY <1>3, <1>7

\* Every tile of a planned call is a whole expert or a slice.
LEMMA PlannedTiles ==
  ASSUME NEW c, IsSummary(c)
  PROVE  TilesArePlanned(c, Plan(c), Schedule(c).tiles)
<1>1. PICK P, s : P = Plan(c) /\ s = Planned(c, P) OBVIOUS
<1>2. CASE P.strategy = "Sequential" BY <1>1, <1>2, SequentialTiles DEF Schedule
<1>3. CASE P.strategy # "Sequential"
  <2>1. PICK S : S = Seats(c, P) OBVIOUS
  <2>2. PlanFits(c, P) BY <1>1, PlansFit
  <2>3. IsSeated(c, P, S) BY <1>3, <2>1, <2>2, PlansAreSeated
  <2>4. PICK team, home : SeatsFit(c, S, team, home) BY <2>3 DEF IsSeated
  <2>5. TilesArePlanned(c, P, s.tiles)
    BY <1>1, <1>3, <2>1, <2>3, <2>4, SeatedTiles DEF IsSeated
  <2> QED BY <1>1, <2>5 DEF Schedule
<1> QED BY <1>2, <1>3

-----------------------------------------------------------------------------
(* Whole blocks *)

\* A multiple of a multiple is a multiple.
Divides(u, x) == \E k \in Nat : x = u * k

LEMMA DividesRem ==
  ASSUME NEW u \in Nat \ {0}, NEW x \in Nat
  PROVE  Divides(u, x) <=> x % u = 0
<1>1. ASSUME Divides(u, x) PROVE x % u = 0
  <2>1. PICK k \in Nat : x = u * k BY <1>1 DEF Divides
  <2>2. x = u * k + 0 /\ 0 \in 0 .. u - 1
    <3>1. u * k \in Nat OBVIOUS
    <3> QED BY <2>1, <3>1
  <2> QED BY <2>2, DivIs
<1>2. ASSUME x % u = 0 PROVE Divides(u, x)
  <2>1. x \div u \in Nat /\ x = u * (x \div u) + (x % u) OBVIOUS
  <2>2. PICK q \in Nat : q = x \div u BY <2>1
  <2>3. x = u * q
    <3>1. u * q \in Nat OBVIOUS
    <3> QED BY <1>2, <2>1, <2>2, <3>1
  <2> QED BY <2>2, <2>3 DEF Divides
<1> QED BY <1>1, <1>2

LEMMA DividesTrans ==
  ASSUME NEW u \in Nat, NEW a \in Nat, NEW x, Divides(u, a), Divides(a, x)
  PROVE  Divides(u, x)
<1>1. PICK k \in Nat : a = u * k BY DEF Divides
<1>2. PICK l \in Nat : x = a * l BY DEF Divides
<1>3. PICK m \in Nat : m = k * l
  <2>1. k * l \in Nat OBVIOUS
  <2> QED BY <2>1
<1>4. x = u * m BY <1>1, <1>2, <1>3
<1> QED BY <1>4 DEF Divides

\* Threads that can have a multiple of the alignment each do.
LEMMA RoomForAlign ==
  ASSUME NEW N \in Nat, NEW n \in Nat, NEW align \in Nat, align > 1, n > 1,
         align * n <= N
  PROVE  Widths(N, n, align) # {}
<1>1. align * (n - 1) \in Nat /\ align * n = align * (n - 1) + align
  <2>1. PICK m \in Nat : n = m + 1
    <3>1. n - 1 \in Nat /\ n = (n - 1) + 1 OBVIOUS
    <3> QED BY <3>1
  <2>2. align * (m + 1) = align * m + align /\ align * m \in Nat BY <2>1
  <2>3. n - 1 = m BY <2>1
  <2> QED BY <2>1, <2>2, <2>3
<1>2. N - align * (n - 1) > 0 /\ 2 * (N - align * (n - 1)) >= align BY <1>1
<1>3. \A a \in Nat \ {0} : \A b \in Nat \ {0} : CeilDiv(a, b) \in Nat \ {0}
  BY RoundsCoverPlaces
<1>4. N \in Nat \ {0} BY <1>1
<1>5. CeilDiv(N, n) \in Nat \ {0} BY <1>3, <1>4
<1>6. CeilDiv(CeilDiv(N, n), align) \in Nat \ {0} BY <1>3, <1>5
<1>7. 1 \in 1 .. CeilDiv(CeilDiv(N, n), align) BY <1>6
<1>8. align * 1 = align OBVIOUS
<1>9. align \in Widths(N, n, align) BY <1>2, <1>7, <1>8 DEF Widths
<1> QED BY <1>9

\* A slice starts and ends at a block of u columns, if the expert is whole
\* blocks and a team of several has room for an alignment that is.
LEMMA SlicesAreWhole ==
  ASSUME NEW N \in Nat, NEW n \in Nat \ {0}, NEW align \in Nat, NEW u \in Nat \ {0},
         Divides(u, N),
         n > 1 => u = 1 \/ (align > 1 /\ Divides(u, align) /\ align * n <= N),
         NEW l \in 0 .. n - 1, NEW cols, cols = AlignedNSplit(N, n, l, align)
  PROVE  cols[1] % u = 0 /\ cols[2] % u = 0
<1>1. PICK s : s = Spans(N, n, align) OBVIOUS
<1>2. s[l] = cols BY <1>1 DEF Spans
<1>3. cols[1] \in Nat /\ cols[2] \in Nat
  <2>1. IsSplit(N, n, s) BY <1>1, SplitHoldsEachColumn
  <2> QED BY <1>2, <2>1 DEF IsSplit
<1>4. CASE u = 1 BY <1>3, <1>4
<1>5. CASE n = 1
  <2>1. l = 0 BY <1>5
  <2>2. cols = <<(N * 0) \div 1, (N * (0 + 1)) \div 1>> BY <1>5, <2>1 DEF AlignedNSplit
  <2>3. (N * 0) \div 1 = 0 /\ (N * (0 + 1)) \div 1 = N OBVIOUS
  <2>4. cols[1] = 0 /\ cols[2] = N BY <2>2, <2>3
  <2>5. N % u = 0 BY DividesRem
  <2>6. 0 % u = 0 OBVIOUS
  <2> QED BY <2>4, <2>5, <2>6
<1>6. CASE n > 1 /\ u # 1
  <2>1. align > 1 /\ Divides(u, align) /\ align * n <= N BY <1>6
  <2>2. Widths(N, n, align) # {} BY <1>6, <2>1, RoomForAlign
  <2>3. IsAlignedSplit(N, n, align, s) BY <1>1, <1>6, <2>1, <2>2, SplitIsAligned
  <2>4. Divides(align, cols[1]) BY <1>2, <2>3 DEF Divides, IsAlignedSplit
  <2>5. Divides(u, cols[1]) BY <2>1, <2>4, DividesTrans
  <2>6. Divides(u, cols[2])
    <3>1. CASE l = n - 1 BY <1>2, <2>3, <3>1 DEF IsAlignedSplit
    <3>2. CASE l # n - 1
      <4>1. l \in 0 .. n - 2 BY <3>2
      <4>2. Divides(align, cols[2]) BY <1>2, <2>3, <4>1 DEF Divides, IsAlignedSplit
      <4> QED BY <2>1, <4>2, DividesTrans
    <3> QED BY <3>1, <3>2
  <2> QED BY <1>3, <2>5, <2>6, DividesRem
<1> QED BY <1>4, <1>5, <1>6

\* A team of several has room for the alignment, if no tile is asked to be
\* narrower.
LEMMA ParticipantsHaveRoom ==
  ASSUME NEW c, IsSummary(c), NEW plan, plan.minNTile \in Nat \ {0},
         plan.stable \in [Experts(c) -> Nat], NrAlign(c) <= plan.minNTile,
         NEW e \in Experts(c), NEW team \in Nat \ {0},
         NEW n, n = ParticipatingNThr(c, plan, e, team)
  PROVE  n \in Nat \ {0} /\ (n > 1 => NrAlign(c) * n <= c.N[e])
<1>1. PICK N, align \in Nat : N = c.N[e] /\ align = NrAlign(c) BY ExpertsAreFinite, AlignIsNat
<1>2. PICK w \in Nat \ {0} : w = plan.minNTile /\ align <= w BY <1>1
<1>3. PICK a \in Nat \ {0} : a = AtLeastOne(align) /\ align <= a BY DEF AtLeastOne
<1>4. PICK v \in Nat : v = plan.stable[e] OBVIOUS
<1>5. n \in Nat \ {0} BY ParticipantsFit
<1>6. ASSUME n > 1, NEW b \in Nat \ {0}, align <= b, n <= N \div b
      PROVE  align * n <= N
  <2>1. PICK q \in Nat : q = N \div b /\ b * q <= N BY DivBounds
  <2>2. b * n <= b * q /\ b * n \in Nat /\ b * q \in Nat BY <1>5, <1>6, <2>1, TimesMonotone
  <2>3. n * align <= n * b BY <1>5, <1>6, TimesMonotone
  <2>4. n * align = align * n /\ n * b = b * n /\ align * n \in Nat BY <1>5
  <2> QED BY <2>1, <2>2, <2>3, <2>4
<1>7. CASE ~UseCustom(c) /\ v > 0
  <2>1. PICK p \in Nat : p = N \div a BY DivBounds
  <2>2. PICK b \in Nat \ {0} : b = AtLeastOne(p) BY DEF AtLeastOne
  <2>3. n = AtLeastOne(Min({v, b, team}))
    BY <1>1, <1>3, <1>4, <1>7, <2>1, <2>2 DEF ParticipatingNThr
  <2>4. PICK x \in Nat : x = Min({v, b, team}) /\ x <= b
    <3>1. Min({v, b, team}) \in {v, b, team} /\ Min({v, b, team}) <= b BY MinOfThree
    <3> QED BY <3>1
  <2>5. n > 1 => n <= p BY <2>2, <2>3, <2>4 DEF AtLeastOne
  <2> QED BY <1>1, <1>3, <1>5, <1>6, <2>1, <2>5
<1>8. CASE ~(~UseCustom(c) /\ v > 0)
  <2>1. PICK q \in Nat : q = N \div w BY DivBounds
  <2>2. n = AtLeastOne(AtMost(team, q))
    BY <1>1, <1>2, <1>4, <1>8, <2>1 DEF ParticipatingNThr
  <2>3. n > 1 => n <= q BY <2>2 DEF AtLeastOne, AtMost
  <2> QED BY <1>1, <1>2, <1>5, <1>6, <2>1, <2>3
<1> QED BY <1>7, <1>8

LEMMA MaxOfThree ==
  ASSUME NEW a \in Nat, NEW b \in Nat, NEW d \in Nat
  PROVE  Max({a, b, d}) \in {a, b, d}
         /\ Max({a, b, d}) >= a /\ Max({a, b, d}) >= b /\ Max({a, b, d}) >= d
<1> DEFINE S == {a, b, d}
<1>1. S \in SUBSET Nat /\ S # {} OBVIOUS
<1>2. a + b + d \in Nat /\ \A x \in S : x <= a + b + d OBVIOUS
<1> HIDE DEF S
<1>3. Max(S) \in S /\ \A x \in S : x <= Max(S) BY <1>1, <1>2, MaxOfBounded
<1>4. Max(S) \in Nat BY <1>1, <1>3
<1>5. a \in S /\ b \in S /\ d \in S BY DEF S
<1> QED BY <1>3, <1>4, <1>5 DEF S

\* The block of expert e in the tiles of schedule s.
BlockOf(s, e) == IF e \in s.custom THEN s.packNr ELSE IF s.inTile THEN 2 ELSE 1
HoldsWholeBlocks(s, y) == y.lo % BlockOf(s, y.e) = 0 /\ y.hi % BlockOf(s, y.e) = 0
CustomExperts(c, plan) ==
  {e \in Experts(c) : UseCustom(c) /\ ~(plan.strategy = "Sequential")
                      /\ ~(c.int8 /\ e \in c.badHoist)}

\* The custom kernel's alignment is whole blocks of its own ...
LEMMA CustomAligns ==
  ASSUME NEW c, IsSummary(c), BlocksFit(c), UseCustom(c)
  PROVE  /\ c.packNr \in Nat \ {0} /\ NrAlign(c) \in Nat
         /\ Divides(c.packNr, NrAlign(c)) /\ NrAlign(c) >= c.packNr
<1>1. PICK p, b \in Nat : p = c.packNr /\ b = c.backendAlign BY DEF IsSummary
<1>2. UseCustomAtGuard(c) /\ p > 0 BY <1>1 DEF UseCustom, UseCustomAtGuard
<1>3. NrAlign(c) = Max({b, p, 1}) BY <1>1, <1>2 DEF NrAlign
<1>4. PICK m : m = Max({b, p, 1}) OBVIOUS
<1>5. m \in {b, p, 1} /\ m >= b /\ m >= p /\ m >= 1 BY <1>4, MaxOfThree
<1>6. b <= p \/ b % p = 0 BY <1>1 DEF BlocksFit
<1>7. m \in Nat /\ (m = p \/ (m = b /\ b % p = 0)) BY <1>2, <1>5, <1>6
<1>8. Divides(p, m)
  <2>1. CASE m = p
    <3>1. p = p * 1 OBVIOUS
    <3> QED BY <2>1, <3>1 DEF Divides
  <2>2. CASE m = b /\ b % p = 0 BY <1>2, <2>2, DividesRem
  <2> QED BY <1>7, <2>1, <2>2
<1> QED BY <1>1, <1>2, <1>3, <1>4, <1>5, <1>7, <1>8

\* ... and without it that of a tile that activates its columns is even.
LEMMA PairsAlign ==
  ASSUME NEW c, IsSummary(c), BlocksFit(c), TightEpilogue(c)
  PROVE  NrAlign(c) \in Nat /\ NrAlign(c) > 1 /\ Divides(2, NrAlign(c))
<1>1. PICK p, b \in Nat : p = c.packNr /\ b = c.backendAlign BY DEF IsSummary
<1>2. PICK q : q = IF ~UseCustomAtGuard(c) THEN 2 ELSE 1 OBVIOUS
<1>3. q \in Nat /\ q \in {1, 2} BY <1>2
<1>4. Fused(c) /\ c.tight BY DEF TightEpilogue
<1>5. NrAlign(c) = Max({b, p, q}) BY <1>1, <1>2, <1>4 DEF NrAlign
<1>6. PICK m : m = Max({b, p, q}) OBVIOUS
<1>7. m \in {b, p, q} /\ m >= b /\ m >= p /\ m >= q BY <1>3, <1>6, MaxOfThree
<1>8. (b <= 1 \/ b % 2 = 0) /\ p % 2 = 0 BY <1>1 DEF BlocksFit
<1>9. q = 1 => p > 0 BY <1>1, <1>2 DEF UseCustomAtGuard
<1>10. m \in Nat /\ m > 1 /\ m % 2 = 0
  <2>1. p > 0 => p > 1 BY <1>8
  <2>2. m > 1 BY <1>3, <1>7, <1>9, <2>1
  <2>3. CASE m = b BY <1>8, <2>2, <2>3
  <2>4. CASE m = p BY <1>8, <2>2, <2>4
  <2>5. CASE m = q BY <1>3, <2>2, <2>5
  <2> QED BY <1>7, <2>2, <2>3, <2>4, <2>5
<1>11. Divides(2, m) BY <1>10, DividesRem
<1> QED BY <1>5, <1>6, <1>10, <1>11

\* The block of an expert divides its width, and the alignment of its teams.
LEMMA BlocksDivide ==
  ASSUME NEW c, IsSummary(c), BlocksFit(c), NEW plan, NEW S,
         NEW s, s = ScheduleOf(c, plan, S), NEW e \in Active(c), NEW u, u = BlockOf(s, e)
  PROVE  /\ u \in Nat \ {0} /\ Divides(u, c.N[e])
         /\ plan.strategy # "Sequential" =>
              u = 1 \/ (NrAlign(c) > 1 /\ Divides(u, NrAlign(c)))
<1>1. e \in Experts(c) /\ c.N[e] \in Nat BY ExpertsAreFinite
<1>2. s.packNr = c.packNr /\ s.custom = CustomExperts(c, plan)
  BY DEF ScheduleOf, CustomExperts
<1>3. CASE e \in s.custom
  <2>1. UseCustom(c) BY <1>2, <1>3 DEF CustomExperts
  <2>2. u = c.packNr BY <1>2, <1>3 DEF BlockOf
  <2>3. /\ u \in Nat \ {0} /\ NrAlign(c) \in Nat
        /\ Divides(u, NrAlign(c)) /\ NrAlign(c) >= u
    BY <2>1, <2>2, CustomAligns
  <2>4. c.N[e] % u = 0 BY <2>1, <2>2 DEF BlocksFit
  <2>5. Divides(u, c.N[e]) BY <1>1, <2>3, <2>4, DividesRem
  <2>6. u = 1 \/ NrAlign(c) > 1 BY <2>3
  <2> QED BY <2>3, <2>5, <2>6
<1>4. CASE e \notin s.custom /\ s.inTile
  <2>1. u = 2 BY <1>4 DEF BlockOf
  <2>2. Fused(c)
    <3>1. s.inTile => Fused(c) BY DEF ScheduleOf
    <3> QED BY <1>4, <3>1
  <2>3. c.N[e] % 2 = 0 BY <2>2 DEF BlocksFit
  <2>4. Divides(u, c.N[e]) BY <1>1, <2>1, <2>3, DividesRem
  <2>5. ASSUME plan.strategy # "Sequential" PROVE TightEpilogue(c)
    <3>1. s.inTile => UseCustom(c) \/ TightEpilogue(c) BY <2>2, <2>5 DEF ScheduleOf
    <3>2. ~UseCustom(c)
      <4> SUFFICES ASSUME UseCustom(c) PROVE FALSE OBVIOUS
      <4>1. c.int8 /\ e \in c.badHoist BY <1>1, <1>2, <1>4, <2>5 DEF CustomExperts
      <4>2. c.badHoist \cap Active(c) # {} BY <4>1
      <4> QED BY <2>2, <4>1, <4>2 DEF UseCustom
    <3> QED BY <1>4, <3>1, <3>2
  <2> QED BY <2>1, <2>4, <2>5, PairsAlign
<1>5. CASE e \notin s.custom /\ ~s.inTile
  <2>1. u = 1 BY <1>5 DEF BlockOf
  <2>2. c.N[e] = 1 * c.N[e] BY <1>1
  <2> QED BY <1>1, <2>1, <2>2 DEF Divides
<1> QED BY <1>3, <1>4, <1>5

\* The tiles of a call whose widths agree are whole blocks.
TilesAreWhole(s) ==
  \A r \in DOMAIN s.tiles : \A t \in DOMAIN s.tiles[1] : \A k \in DOMAIN s.tiles[r][t] :
    HoldsWholeBlocks(s, s.tiles[r][t][k])

LEMMA PlannedTilesAreWhole ==
  ASSUME NEW c, IsSummary(c), BlocksFit(c), NEW s, s = Schedule(c)
  PROVE  TilesAreWhole(s)
<1>1. PICK P, S : P = Plan(c) /\ S = Seats(c, P) OBVIOUS
<1>2. s = ScheduleOf(c, P, S) BY <1>1 DEF Schedule, Planned
<1>3. TilesArePlanned(c, P, s.tiles) BY <1>1, PlannedTiles
<1>4. ASSUME NEW y, IsPlannedTile(c, P, y) PROVE HoldsWholeBlocks(s, y)
  <2>1. PICK e : e = y.e /\ e \in Experts(c) /\ c.M[e] > 0
    BY <1>4 DEF IsPlannedTile, IsWholeExpert, IsSliceOf
  <2>2. e \in Active(c) BY <2>1 DEF Active
  <2>3. PICK N, align \in Nat : N = c.N[e] /\ align = NrAlign(c)
    BY <2>1, ExpertsAreFinite, AlignIsNat
  <2>4. PICK u : u = BlockOf(s, e) OBVIOUS
  <2>5. /\ u \in Nat \ {0} /\ Divides(u, N)
        /\ P.strategy # "Sequential" => u = 1 \/ (align > 1 /\ Divides(u, align))
    BY <1>2, <2>2, <2>3, <2>4, BlocksDivide
  <2>6. CASE P.strategy = "Sequential"
    <3>1. y.lo = 0 /\ y.hi = N BY <1>4, <2>1, <2>3, <2>6 DEF IsPlannedTile, IsWholeExpert
    <3>2. N % u = 0 /\ 0 % u = 0 BY <2>5, DividesRem
    <3> QED BY <2>1, <2>4, <3>1, <3>2 DEF HoldsWholeBlocks
  <2>7. CASE P.strategy # "Sequential"
    <3>1. IsSeated(c, P, S)
      <4>1. PlanFits(c, P) BY <1>1, PlansFit
      <4> QED BY <1>1, <2>7, <4>1, PlansAreSeated
    <3>2. /\ P.minNTile \in Nat \ {0} /\ P.stable \in [Experts(c) -> Nat]
          /\ P.minNTile \in {AbMinTile(c), EffectiveDecodeNTile(c)}
      BY <3>1 DEF IsSeated
    <3>3. align <= P.minNTile BY <2>3, <3>2 DEF BlocksFit, AbMinTile
    <3>4. PICK team \in Nat \ {0} : IsSliceOf(c, ParticipatingNThr(c, P, e, team), y)
      BY <1>4, <2>1, <2>7 DEF IsPlannedTile
    <3>5. PICK n : n = ParticipatingNThr(c, P, e, team) OBVIOUS
    <3>6. n \in Nat \ {0} /\ (n > 1 => align * n <= N)
      BY <2>1, <2>3, <3>2, <3>3, <3>5, ParticipantsHaveRoom
    <3>7. PICK l, cols : l \in 0 .. n - 1 /\
            cols = AlignedNSplit(N, n, l, align) /\ y.lo = cols[1] /\ y.hi = cols[2]
      <4>1. \E l \in 0 .. n - 1 : LET cols == AlignedNSplit(c.N[y.e], n, l, NrAlign(c))
                                  IN  y.lo = cols[1] /\ y.hi = cols[2]
        BY <3>4, <3>5 DEF IsSliceOf
      <4> QED BY <2>1, <2>3, <4>1
    <3>8. cols[1] % u = 0 /\ cols[2] % u = 0
      BY <2>5, <2>7, <3>6, <3>7, SlicesAreWhole
    <3> QED BY <2>1, <2>4, <3>7, <3>8 DEF HoldsWholeBlocks
  <2> QED BY <2>6, <2>7
<1>5. \A r \in DOMAIN s.tiles : \A t \in DOMAIN s.tiles[1] : \A k \in DOMAIN s.tiles[r][t] :
        HoldsWholeBlocks(s, s.tiles[r][t][k])
  BY <1>3, <1>4 DEF TilesArePlanned
<1> QED BY <1>5 DEF TilesAreWhole

-----------------------------------------------------------------------------
(* Warmed tiles *)

\* The columns a tile asks the standard kernel's cache for.
KeyOf(y) == [e |-> y.e, lo |-> y.lo, hi |-> y.hi]
TilesAreWarmed(s) ==
  \A i \in DOMAIN s.warmed :
    \A r \in DOMAIN s.tiles : \A t \in DOMAIN s.tiles[1] : \A k \in DOMAIN s.tiles[r][t] :
      KeyOf(s.tiles[r][t][k]) \in s.warmed[i]

\* Rounds with a fixed number of threads per expert have teams of that many.
TeamsAre(S, n) ==
  \A r \in DOMAIN S : \A t \in DOMAIN S[r] : \A i \in DOMAIN S[r][t] : S[r][t][i].team = n

LEMMA FixedTeams ==
  ASSUME NEW c, NEW plan, plan.perExpert = FALSE, plan.nThrFixed > 0
  PROVE  TeamsAre(RoundsSeats(c, plan), plan.nThrFixed)
<1>11. PICK S : S = RoundsSeats(c, plan) OBVIOUS
<1> SUFFICES ASSUME NEW r \in DOMAIN S, NEW t \in DOMAIN S[r], NEW i \in DOMAIN S[r][t]
             PROVE  S[r][t][i].team = plan.nThrFixed
    BY <1>11 DEF TeamsAre
<1>1. PICK first : first = 1 + (r - 1) * plan.batch OBVIOUS
<1>2. PICK size : size = RoundSize(c, plan, first) OBVIOUS
<1>3. S[r] = RoundSeats(c, plan, first) BY <1>1, <1>11 DEF RoundsSeats
<1>4. S[r][t] = EvenSeat(plan, first, size, UniformThr(c, plan, size), t)
  BY <1>2, <1>3 DEF RoundSeats
<1>5. UniformThr(c, plan, size) = plan.nThrFixed BY DEF UniformThr
<1>6. PICK thr : thr = plan.nThrFixed OBVIOUS
<1>7. PICK x : x = Seat(plan.order[first + ((t - 1) \div thr)], (t - 1) % thr, thr) OBVIOUS
<1>8. S[r][t] = IF t <= size * thr THEN <<x>> ELSE <<>>
  BY <1>4, <1>5, <1>6, <1>7 DEF EvenSeat
<1>9. S[r][t] = <<x>> /\ i = 1 BY <1>8
<1>10. x.team = thr BY <1>7 DEF Seat
<1> QED BY <1>6, <1>9, <1>10

\* The threads the executor gives an expert of the strict-stable plan are the
\* threads prepack counted.
WarmedThreads(c, e) ==
  AtLeastOne(AtMost(AoclStableNThr(c), AtLeastOne(c.N[e] \div AtLeastOne(NrAlign(c)))))
WarmedOf(c, e) ==
  {LET cols == AlignedNSplit(c.N[e], WarmedThreads(c, e), t, NrAlign(c))
   IN  [e |-> e, lo |-> cols[1], hi |-> cols[2]] : t \in 0 .. WarmedThreads(c, e) - 1}

LEMMA StableThreads ==
  ASSUME NEW c, IsSummary(c), StrictStable(c), StableFits(c),
         NEW plan, plan = StablePlan(c), NEW e \in Active(c)
  PROVE  /\ plan.nThrFixed = AoclStableNThr(c) /\ plan.nThrFixed > 0
         /\ ParticipatingNThr(c, plan, e, plan.nThrFixed) = WarmedThreads(c, e)
<1>1. PICK n \in Nat \ {0} : n = AoclStableNThr(c)
  <2>1. PICK T \in Nat, g \in Nat \ {0} : T = c.threads /\ g = c.env.targetSlots
    BY DEF IsSummary, Tunings
  <2>2. T \div g \in Nat BY <2>1, DivBounds
  <2> QED BY <2>1, <2>2 DEF AoclStableNThr, AtLeastOne
<1>2. plan.nThrFixed = n /\ plan.stable = [f \in Experts(c) |-> IF c.M[f] > 0 THEN n ELSE 0]
  BY <1>1 DEF StablePlan, SequentialPlan
<1>3. e \in Experts(c) /\ c.M[e] > 0 BY ExpertsAreFinite DEF Active
<1>4. plan.stable[e] = n BY <1>2, <1>3
<1>5. PICK N \in Nat : N = c.N[e] BY <1>3, ExpertsAreFinite
<1>6. PICK a \in Nat \ {0} : a = AtLeastOne(NrAlign(c)) BY AlignIsNat DEF AtLeastOne
<1>7. PICK p \in Nat : p = N \div a BY DivBounds
<1>8. PICK b \in Nat \ {0} : b = AtLeastOne(p) BY DEF AtLeastOne
<1>9. ParticipatingNThr(c, plan, e, n) = AtLeastOne(Min({n, b, n}))
  BY <1>1, <1>4, <1>5, <1>6, <1>7, <1>8 DEF ParticipatingNThr, StrictStable
<1>10. Min({n, b, n}) = AtMost(n, b)
  <2>1. PICK m : m = Min({n, b, n}) OBVIOUS
  <2>2. m \in {n, b} /\ m <= n /\ m <= b BY <2>1, MinOfThree
  <2> QED BY <2>1, <2>2 DEF AtMost
<1>11. WarmedThreads(c, e) = AtLeastOne(AtMost(n, b))
  BY <1>1, <1>5, <1>6, <1>7, <1>8 DEF WarmedThreads
<1> QED BY <1>1, <1>2, <1>9, <1>10, <1>11

\* prepack_for_algo_3 warms every tile of a call on the strict-stable plan.
LEMMA PlannedTilesAreWarmed ==
  ASSUME NEW c, IsSummary(c), NEW s, s = Schedule(c)
  PROVE  TilesAreWarmed(s)
<1> SUFFICES ASSUME NEW i \in DOMAIN s.warmed, NEW r \in DOMAIN s.tiles,
                    NEW t \in DOMAIN s.tiles[1], NEW k \in DOMAIN s.tiles[r][t],
                    NEW y, y = s.tiles[r][t][k]
             PROVE  KeyOf(y) \in s.warmed[i]
    BY DEF TilesAreWarmed
<1>1. PICK P, S : P = Plan(c) /\ S = Seats(c, P) OBVIOUS
<1>2. s = ScheduleOf(c, P, S) BY <1>1 DEF Schedule, Planned
<1>3. s.warmed = IF StrictStable(c) /\ c.packNr = 0 /\ P = StablePlan(c)
                 THEN <<WarmedTiles(c)>> ELSE <<>>
  BY <1>2 DEF ScheduleOf
<1>4. StrictStable(c) /\ P = StablePlan(c) /\ s.warmed[i] = WarmedTiles(c) BY <1>3
<1>5. CASE ~StableFits(c)
  <2>1. P.strategy = "Sequential" BY <1>4, <1>5 DEF StablePlan, SequentialPlan
  <2>2. TilesArePlanned(c, P, s.tiles) BY <1>1, PlannedTiles
  <2>3. IsWholeExpert(c, y) BY <2>1, <2>2 DEF TilesArePlanned, IsPlannedTile
  <2>4. KeyOf(y) = [e |-> y.e, lo |-> 0, hi |-> c.N[y.e]] /\ y.e \in Experts(c)
    BY <2>3, SMTT(20) DEF IsWholeExpert, KeyOf
  <2>5. KeyOf(y) \in WarmedTiles(c) BY <1>5, <2>4 DEF WarmedTiles
  <2> QED BY <1>4, <2>5
<1>6. CASE StableFits(c)
  <2>1. IsRoundsPlan(c, P) BY <1>4, <1>6, StablePlanFits
  <2>2. P.strategy # "Sequential" /\ P.perExpert = FALSE BY <2>1 DEF IsRoundsPlan
  <2>3. S = RoundsSeats(c, P) BY <1>1, <2>1 DEF Seats, IsRoundsPlan
  <2>4. IsSeated(c, P, S)
    <3>1. PlanFits(c, P) BY <2>1 DEF PlanFits
    <3> QED BY <1>1, <2>2, <3>1, PlansAreSeated
  <2>5. PICK team, home : SeatsFit(c, S, team, home) BY <2>4 DEF IsSeated
  <2>6. PICK tiles : tiles = PlanTiles(c, P) OBVIOUS
  <2>7. s.tiles = tiles BY <1>1, <1>2, <2>2, <2>6 DEF ScheduleOf, PlanTiles
  <2>8. /\ DOMAIN tiles = DOMAIN S /\ \A q \in DOMAIN S : DOMAIN tiles[q] = DOMAIN S[1]
        /\ TilesAreSlices(c, P, S, tiles)
    BY <1>1, <2>4, <2>5, <2>6, SeatsMakeSlices DEF IsSeated
  <2>9. 1 \in DOMAIN S /\ \A q \in DOMAIN S : DOMAIN S[q] = DOMAIN S[1]
    BY <2>5 DEF SeatsFit, SeatsAreExperts
  <2>10. r \in DOMAIN S /\ t \in DOMAIN S[1] /\ t \in DOMAIN S[r] /\ y = tiles[r][t][k]
    BY <2>7, <2>8, <2>9
  <2>11. PICK j \in DOMAIN S[r][t] :
           IsSliceOf(c, ParticipatingNThr(c, P, y.e, S[r][t][j].team), y)
    BY <2>7, <2>8, <2>10, SMTT(20) DEF TilesAreSlices
  <2>12. y.e \in Active(c) /\ y.e \in Experts(c) BY <2>11 DEF IsSliceOf, Active
  <2>13. PICK e : e = y.e /\ e \in Active(c) /\ e \in Experts(c) BY <2>12
  <2>14. /\ P.nThrFixed > 0
         /\ ParticipatingNThr(c, P, e, P.nThrFixed) = WarmedThreads(c, e)
    BY <1>4, <1>6, <2>13, StableThreads
  <2>15. S[r][t][j].team = P.nThrFixed
    <3>1. r \in DOMAIN S /\ t \in DOMAIN S[r] /\ j \in DOMAIN S[r][t] BY <2>10, <2>11
    <3>2. P.perExpert = FALSE /\ P.nThrFixed > 0 BY <2>2, <2>14
    <3>3. TeamsAre(S, P.nThrFixed) BY <2>3, <3>2, FixedTeams
    <3> QED BY <3>1, <3>3 DEF TeamsAre
  <2>16. PICK n : n = WarmedThreads(c, e) OBVIOUS
  <2>17. IsSliceOf(c, n, y) BY <2>11, <2>13, <2>14, <2>15, <2>16
  <2>18. \E l \in 0 .. n - 1 : LET cols == AlignedNSplit(c.N[e], n, l, NrAlign(c))
                               IN  y.lo = cols[1] /\ y.hi = cols[2]
    BY <2>13, <2>17 DEF IsSliceOf
  <2>19. PICK l \in 0 .. n - 1 :
           KeyOf(y) = LET cols == AlignedNSplit(c.N[e], n, l, NrAlign(c))
                         IN  [e |-> e, lo |-> cols[1], hi |-> cols[2]]
    BY <2>13, <2>18 DEF KeyOf
  <2>20. KeyOf(y) \in WarmedOf(c, e) BY <2>16, <2>19 DEF WarmedOf
  <2>21. WarmedTiles(c) = UNION {WarmedOf(c, f) : f \in Experts(c)}
    BY <1>6 DEF WarmedTiles, WarmedThreads, WarmedOf
  <2>22. KeyOf(y) \in WarmedTiles(c) BY <2>13, <2>20, <2>21
  <2> QED BY <1>4, <2>22
<1> QED BY <1>5, <1>6

-----------------------------------------------------------------------------
(* What is multiplied *)

LEMMA ScheduleInit == Init => sched \in Schedules
BY DEF Init
LEMMA ScheduleStep == sched \in Schedules /\ [Next]_vars => (sched \in Schedules)'
BY ScheduleIsFixed
LEMMA ScheduleKept == Spec => [](sched \in Schedules)
BY ScheduleInit, ScheduleStep, PTL DEF Spec

\* What is multiplied are columns of an item of the schedule.
LEMMA MultipliedAreItems ==
  ASSUME IInv, NEW x \in multiplied
  PROVE  \E r \in DOMAIN sched.tiles : \E t \in DOMAIN sched.tiles[1] :
           \E k \in DOMAIN sched.tiles[r][t] :
             LET y == sched.tiles[r][t][k] IN x.e = y.e /\ x.lo = y.lo /\ x.hi = y.hi
<1>1. x.round \in Rounds /\ x.by \in Threads BY DEF IInv, TypeOK, MultipliedTile
<1>2. PICK k \in DOMAIN sched.tiles[x.round][x.by] : x = TileAt(x.round, x.by, k)
  BY DEF IInv, TilesInv
<1>3. PICK y : y = sched.tiles[x.round][x.by][k] OBVIOUS
<1>4. x.e = y.e /\ x.lo = y.lo /\ x.hi = y.hi BY <1>2, <1>3 DEF TileAt
<1> QED BY <1>1, <1>3, <1>4 DEF Rounds, Threads

LEMMA WarmedFromInv ==
  ASSUME Schedules \subseteq CallSchedules
  PROVE  IInv /\ sched \in Schedules => TilesWereWarmed
<1> SUFFICES ASSUME IInv, sched \in Schedules PROVE TilesWereWarmed OBVIOUS
<1>1. TilesAreWarmed(sched)
  <2>1. PICK c \in Calls : sched = Schedule(Summarised(c)) BY DEF CallSchedules
  <2> QED BY <2>1, CallsAreRuns, SummaryOfCall, PlannedTilesAreWarmed
<1>2. ASSUME NEW i \in DOMAIN sched.warmed, NEW x \in multiplied
      PROVE  [e |-> x.e, lo |-> x.lo, hi |-> x.hi] \in sched.warmed[i]
  <2>1. PICK r \in DOMAIN sched.tiles, t \in DOMAIN sched.tiles[1] :
          \E k \in DOMAIN sched.tiles[r][t] :
            LET y == sched.tiles[r][t][k] IN x.e = y.e /\ x.lo = y.lo /\ x.hi = y.hi
    BY <1>2, MultipliedAreItems
  <2>2. PICK k \in DOMAIN sched.tiles[r][t] :
          LET y == sched.tiles[r][t][k] IN x.e = y.e /\ x.lo = y.lo /\ x.hi = y.hi
    BY <2>1
  <2>3. KeyOf(sched.tiles[r][t][k]) \in sched.warmed[i]
    BY <1>1, <1>2, <2>1, <2>2 DEF TilesAreWarmed
  <2> QED BY <2>2, <2>3 DEF KeyOf
<1> QED BY <1>2 DEF TilesWereWarmed

LEMMA WholeFromInv ==
  ASSUME Schedules \subseteq CallSchedules, CallsFitBlocks
  PROVE  IInv /\ sched \in Schedules => TilesHoldWholeBlocks
<1> SUFFICES ASSUME IInv, sched \in Schedules PROVE TilesHoldWholeBlocks OBVIOUS
<1>1. TilesAreWhole(sched)
  <2>1. PICK c \in Calls : sched = Schedule(Summarised(c)) BY DEF CallSchedules
  <2>2. IsSummary(Summarised(c)) BY CallsAreRuns, SummaryOfCall
  <2>3. BlocksFit(Summarised(c)) BY DEF CallsFitBlocks
  <2> QED BY <2>1, <2>2, <2>3, PlannedTilesAreWhole
<1>2. ASSUME NEW x \in multiplied
      PROVE  x.lo % BlockOf(sched, x.e) = 0 /\ x.hi % BlockOf(sched, x.e) = 0
  <2>1. PICK r \in DOMAIN sched.tiles, t \in DOMAIN sched.tiles[1] :
          \E k \in DOMAIN sched.tiles[r][t] :
            LET y == sched.tiles[r][t][k] IN x.e = y.e /\ x.lo = y.lo /\ x.hi = y.hi
    BY <1>2, MultipliedAreItems
  <2>2. PICK k \in DOMAIN sched.tiles[r][t] :
          LET y == sched.tiles[r][t][k] IN x.e = y.e /\ x.lo = y.lo /\ x.hi = y.hi
    BY <2>1
  <2>3. HoldsWholeBlocks(sched, sched.tiles[r][t][k])
    BY <1>1, <2>1, <2>2 DEF TilesAreWhole
  <2> QED BY <2>2, <2>3 DEF HoldsWholeBlocks
<1> QED BY <1>2 DEF TilesHoldWholeBlocks, BlockOf

\* Every tile a call on the strict-stable plan multiplies is one that
\* prepack_for_algo_3 warmed.
THEOREM PlannedTilesWarmed ==
  ASSUME Schedules \subseteq CallSchedules
  PROVE  Spec => []TilesWereWarmed
<1>1. Spec => []IInv BY PlannedAreSound, TeamInvariant
<1> QED BY <1>1, ScheduleKept, WarmedFromInv, PTL

\* Every tile is whole blocks of its kernel, and whole gate-up pairs, for
\* calls whose widths agree.
THEOREM PlannedTilesWhole ==
  ASSUME Schedules \subseteq CallSchedules, CallsFitBlocks
  PROVE  Spec => []TilesHoldWholeBlocks
<1>1. Spec => []IInv BY PlannedAreSound, TeamInvariant
<1> QED BY <1>1, ScheduleKept, WholeFromInv, PTL
=============================================================================
