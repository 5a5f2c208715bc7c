------------------------------- MODULE NTile -------------------------------
(***************************************************************************)
(* flat_n_tile: the planner's schedules run by the team, and what the      *)
(* call promises.  A call the prepacked guard refuses returns at once with *)
(* its outputs untouched and runs no team; it is not among the schedules.  *)
(***************************************************************************)
EXTENDS NTilePlan, TileTeam

CONSTANT Calls
ASSUME CallsAreRuns == \A c \in Calls : IsCall(c) /\ ~Refused(c)

CallSchedules == {Schedule(Summarised(c)) : c \in Calls}

---------------------------------------------------------------------------
(* What the widths of a call owe its kernels *)

\* The widths of the kernels' blocks and the fewest columns of a tile agree:
\* prepare_for_call refuses an active expert that is not whole blocks, and
\* the gated activations an odd number of columns; the backend's alignment
\* is 1 or as wide as the widest block; no tile is asked to be narrower than
\* the alignment.
BlocksFit(c) ==
    /\ NrAlign(c) <= MinNTile /\ NrAlign(c) <= EffectiveDecodeNTile(c)
    /\ UseCustom(c) =>
        /\ c.backendAlign <= c.packNr \/ c.backendAlign % c.packNr = 0
        /\ \A e \in Active(c) : c.N[e] % c.packNr = 0
    /\ Fused(c) => \A e \in Active(c) : c.N[e] % 2 = 0
    /\ TightEpilogue(c) =>
        /\ c.backendAlign <= 1 \/ c.backendAlign % 2 = 0
        /\ c.packNr % 2 = 0
CallsFitBlocks == \A c \in Calls : BlocksFit(Summarised(c))

---------------------------------------------------------------------------
(* Properties *)

\* A tile that activates its own columns holds whole gate-up pairs, and a
\* tile of the custom kernel whole blocks of the packed weight: the kernel
\* drops the columns past the last whole block (dispatch_tile's assertions).
TilesHoldWholeBlocks ==
    \A x \in multiplied :
        LET unit == IF x.e \in sched.custom THEN sched.packNr
                    ELSE IF sched.inTile THEN 2 ELSE 1
        IN  x.lo % unit = 0 /\ x.hi % unit = 0

\* Every tile of a call on the strict-stable plan is one prepack_for_algo_3
\* warmed, whatever the rows of the call: "every key the runtime builds has
\* a populated cache entry post-warm-up" (prepack.cpp).
TilesWereWarmed ==
    \A i \in DOMAIN sched.warmed : \A x \in multiplied :
        [e |-> x.e, lo |-> x.lo, hi |-> x.hi] \in sched.warmed[i]
=============================================================================
