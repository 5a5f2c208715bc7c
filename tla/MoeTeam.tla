------------------------------ MODULE MoeTeam ------------------------------
(***************************************************************************)
(* The threads of a grouped matmul that splits its experts by rows, with   *)
(* the second multiplication of a fused MoE call.  The M-tile pipeline     *)
(* multiplies a slice of rows by both weights in one thread, through a     *)
(* scratch buffer the thread must first get; when one cannot be had the    *)
(* call falls back to two passes over all experts, one per weight, that    *)
(* must find nothing written.  A pass is a sequence of parallel regions,   *)
(* joined one after the other.                                             *)
(***************************************************************************)
EXTENDS Integers, Sequences, FiniteSets

CONSTANTS
    Jobs,       \* the jobs a call can have
    MaxTeam     \* bound: threads of the largest team

VARIABLES
    job,        \* the job of the call, never changed
    phase,      \* where the calling thread is
    pass,       \* 1 for Op1, 2 for Op2
    region,     \* the parallel region of the pass
    at,         \* [Threads -> stage and item the thread is at]
    next,       \* light_next: the next entry of the region's queue
    done,       \* the multiplications done
    allocFail,  \* alloc_fail
    status      \* what the call returns

vars == <<job, phase, pass, region, at, next, done, allocFail, status>>

Threads == DOMAIN job.slices
Phases == {"start", "pipeline", "enter", "pass", "failed", "returned"}

Place(stage, i) == [stage |-> stage, item |-> i]
Done == Place("done", 1)

\* Where a thread stands after its own items of region g: at the queue if
\* it is of the pool, else done.
AfterItems(g, t) == IF t \in g.pool THEN Place("queue", 1) ELSE Done
AtItem(g, t, i) == IF i \in DOMAIN g.items[t] THEN Place("items", i) ELSE AfterItems(g, t)

\* The team at the start of region r of pass p; a pass may have none.
TeamAt(p, r) ==
    [t \in Threads |->
        IF r \in DOMAIN job.regions[p] THEN AtItem(job.regions[p][r], t, 1) ELSE Done]
Regn == job.regions[pass][region]

Init ==
    /\ job \in Jobs
    /\ phase = "start" /\ pass = 1 /\ region = 1
    /\ at = [t \in Threads |-> Done]
    /\ next = 1
    /\ done = {}
    /\ allocFail = FALSE
    /\ status = "success"

\* One expert's rows lo .. hi - 1 multiplied by the weight of op.
Mult(op, x, t) == [op |-> op, e |-> x.e, lo |-> x.lo, hi |-> x.hi, by |-> t, via |-> phase]

Go(t, p) == at' = [at EXCEPT ![t] = p]
TeamIsDone == \A t \in Threads : at[t] = Done

---------------------------------------------------------------------------
(* The pipeline *)

\* The buffers of the INT8 pipeline are acquired before the team starts;
\* without them the call takes the two passes.
Begin ==
    /\ phase = "start"
    /\ \/ /\ job.tries
          /\ phase' = "pipeline"
          /\ at' = [t \in Threads |-> Place("grow", 1)]
       \/ /\ ~job.tries \/ job.int8
          /\ phase' = "enter"
          /\ at' = at
    /\ UNCHANGED <<job, pass, region, next, done, allocFail, status>>

HasSlice(t) == job.slices[t] # <<>>

\* grow_scratch
Grow(t) ==
    /\ phase = "pipeline" /\ at[t].stage = "grow"
    /\ Go(t, Place("barrier", 1))
    /\ \/ allocFail' = allocFail
       \/ HasSlice(t) /\ allocFail' = TRUE
    /\ UNCHANGED <<job, phase, pass, region, next, done, status>>

\* Where a thread goes from the barrier: on only if every thread has its
\* buffer.
PastBarrier(t) == IF HasSlice(t) /\ ~allocFail THEN Place("w13", 1) ELSE Done
\* Mutant: the barrier between the allocations and the first write is lost.
PassBarrier_NoWait(t) ==
    /\ phase = "pipeline" /\ at[t].stage = "barrier"
    /\ Go(t, PastBarrier(t))
    /\ UNCHANGED <<job, phase, pass, region, next, done, allocFail, status>>
PassBarrier(t) ==
    /\ phase = "pipeline" /\ at[t].stage = "barrier"
    /\ \A u \in Threads : at[u].stage # "grow"
    /\ Go(t, PastBarrier(t))
    /\ UNCHANGED <<job, phase, pass, region, next, done, allocFail, status>>

\* Op1 of the slice into the scratch buffer, and its activation.
W13(t) ==
    /\ phase = "pipeline" /\ at[t].stage = "w13"
    /\ done' = done \cup {Mult(1, job.slices[t][1], t)}
    /\ Go(t, Place("w2", 1))
    /\ UNCHANGED <<job, phase, pass, region, next, allocFail, status>>

\* Op2 of the slice, from the scratch buffer to the output.
W2(t) ==
    /\ phase = "pipeline" /\ at[t].stage = "w2"
    /\ done' = done \cup {Mult(2, job.slices[t][1], t)}
    /\ Go(t, Done)
    /\ UNCHANGED <<job, phase, pass, region, next, allocFail, status>>

\* The end of the pipeline's parallel region.
Join ==
    /\ phase = "pipeline" /\ TeamIsDone
    /\ phase' = IF allocFail THEN "enter" ELSE "returned"
    /\ UNCHANGED <<job, pass, region, at, next, done, allocFail, status>>

---------------------------------------------------------------------------
(* The passes *)

\* With ENABLE_GROUP_DQ the sources of a pass are quantised together before
\* its first region, which can fail and fails the call.
EnterPass ==
    /\ phase = "enter"
    /\ \/ /\ phase' = "pass"
          /\ at' = TeamAt(pass, 1)
       \/ /\ job.groupDq
          /\ phase' = "failed"
          /\ at' = at
    /\ region' = 1 /\ next' = 1
    /\ UNCHANGED <<job, pass, done, allocFail, status>>

\* The thread's own rows: an M-tile slice, or whole experts in order.
RunItem(t) ==
    /\ phase = "pass" /\ at[t].stage = "items"
    /\ done' = done \cup {Mult(pass, Regn.items[t][at[t].item], t)}
    /\ Go(t, AtItem(Regn, t, at[t].item + 1))
    /\ UNCHANGED <<job, phase, pass, region, next, allocFail, status>>

\* Mutant: the counter is read and not advanced.
Take_NoAdvance(t) ==
    /\ phase = "pass" /\ at[t].stage = "queue"
    /\ Go(t, IF next <= Len(Regn.queue) THEN Place("taken", next) ELSE Done)
    /\ UNCHANGED <<job, phase, pass, region, next, done, allocFail, status>>
\* Mutant: one entry past the last is handed out.
Take_PastEnd(t) ==
    /\ phase = "pass" /\ at[t].stage = "queue"
    /\ Go(t, IF next <= Len(Regn.queue) + 1 THEN Place("taken", next) ELSE Done)
    /\ next' = next + 1
    /\ UNCHANGED <<job, phase, pass, region, done, allocFail, status>>
\* light_next.fetch_add(1), or the OpenMP runtime's dynamic schedule.
Take(t) ==
    /\ phase = "pass" /\ at[t].stage = "queue"
    /\ Go(t, IF next <= Len(Regn.queue) THEN Place("taken", next) ELSE Done)
    /\ next' = next + 1
    /\ UNCHANGED <<job, phase, pass, region, done, allocFail, status>>

\* execute_light_expert, or the body of the dynamic loop.
RunTaken(t) ==
    /\ phase = "pass" /\ at[t].stage = "taken"
    /\ done' = done \cup {Mult(pass, Regn.queue[at[t].item], t)}
    /\ Go(t, Place("queue", 1))
    /\ UNCHANGED <<job, phase, pass, region, next, allocFail, status>>

LastRegion == region >= Len(job.regions[pass])
RegionEnds == phase = "pass" /\ TeamIsDone

NextRegion ==
    /\ RegionEnds /\ ~LastRegion
    /\ region' = region + 1 /\ next' = 1
    /\ at' = TeamAt(pass, region + 1)
    /\ UNCHANGED <<job, phase, pass, done, allocFail, status>>

\* Op2 of a fused call, even if Op1 was refused: run_fused_moe_legacy_two_pass
\* takes the dispatcher's false for an activation still to do and discards
\* the mode string that says why.
NextPass ==
    /\ RegionEnds /\ LastRegion
    /\ job.fusedMoe /\ pass = 1
    /\ phase' = "enter" /\ pass' = 2
    /\ UNCHANGED <<job, region, at, next, done, allocFail, status>>

\* Mutant: a fused call may end with its first pass.
EndCall_FirstPass ==
    /\ RegionEnds /\ LastRegion
    /\ phase' = IF job.refused /\ ~job.fusedMoe THEN "failed" ELSE "returned"
    /\ UNCHANGED <<job, pass, region, at, next, done, allocFail, status>>
\* A plain call that was refused fails.
EndCall ==
    /\ RegionEnds /\ LastRegion
    /\ job.fusedMoe => pass = 2
    /\ phase' = IF job.refused /\ ~job.fusedMoe THEN "failed" ELSE "returned"
    /\ UNCHANGED <<job, pass, region, at, next, done, allocFail, status>>

ReturnFailure ==
    /\ phase = "failed" /\ phase' = "returned"
    /\ status' = "failure"
    /\ UNCHANGED <<job, pass, region, at, next, done, allocFail>>

---------------------------------------------------------------------------

ThreadStep(t) ==
    \/ Grow(t) \/ PassBarrier(t) \/ W13(t) \/ W2(t)
    \/ RunItem(t) \/ Take(t) \/ RunTaken(t)
CallerStep ==
    Begin \/ Join \/ EnterPass \/ NextRegion \/ NextPass \/ EndCall \/ ReturnFailure
Next == CallerStep \/ \E t \in Threads : ThreadStep(t)

\* The operating system runs every thread of the team, and the caller.
Fairness ==
    /\ WF_vars(CallerStep)
    /\ \A t \in 1 .. MaxTeam : WF_vars(t \in Threads /\ ThreadStep(t))
Spec == Init /\ [][Next]_vars /\ Fairness

---------------------------------------------------------------------------
(* What the planners owe the team *)

Lanes(j) == {0} \cup DOMAIN j.slices
\* The rows in place i of a thread's items, or of the queue (lane 0).
Lane(j, p, r, t) == IF t = 0 THEN j.regions[p][r].queue ELSE j.regions[p][r].items[t]

IsRows(j, x) ==
    /\ x.e \in DOMAIN j.M /\ x.lo \in Nat /\ x.hi \in Nat
    /\ x.lo < x.hi /\ x.hi <= j.M[x.e]
Apart(x, y) == x.e # y.e \/ x.hi <= y.lo \/ y.hi <= x.lo
Holds(x, e, m) == x.e = e /\ x.lo <= m /\ m < x.hi

IsJob(j) ==
    /\ Len(j.M) \in Nat /\ DOMAIN j.M = 1 .. Len(j.M) /\ \A e \in DOMAIN j.M : j.M[e] \in Nat
    /\ \E n \in 1 .. MaxTeam : DOMAIN j.slices = 1 .. n
    /\ {j.fusedMoe, j.reuse, j.int8, j.groupDq, j.refused, j.tries} \subseteq BOOLEAN
    /\ j.tries => j.fusedMoe
\* A thread has at most one slice; the slices hold every row once.
SlicesPartition(j) ==
    /\ \A t \in DOMAIN j.slices : j.slices[t] # <<>> => IsRows(j, j.slices[t][1])
    /\ \A t, u \in DOMAIN j.slices :
        t # u /\ j.slices[t] # <<>> /\ j.slices[u] # <<>> => Apart(j.slices[t][1], j.slices[u][1])
    /\ j.tries => \A e \in DOMAIN j.M : \A m \in 0 .. j.M[e] - 1 :
        \E t \in DOMAIN j.slices : j.slices[t] # <<>> /\ Holds(j.slices[t][1], e, m)
\* The regions of a pass hold every row once, and none queues rows for an
\* empty pool.
RegionsPartition(j, p) ==
    /\ DOMAIN j.regions[p] = 1 .. Len(j.regions[p]) /\ Len(j.regions[p]) \in Nat
    /\ \A r \in DOMAIN j.regions[p] :
        /\ DOMAIN j.regions[p][r].items = DOMAIN j.slices
        /\ j.regions[p][r].pool \subseteq DOMAIN j.slices
        /\ j.regions[p][r].queue # <<>> => j.regions[p][r].pool # {}
        /\ \A t \in Lanes(j) :
            /\ Len(Lane(j, p, r, t)) \in Nat /\ DOMAIN Lane(j, p, r, t) = 1 .. Len(Lane(j, p, r, t))
            /\ \A i \in DOMAIN Lane(j, p, r, t) : IsRows(j, Lane(j, p, r, t)[i])
    /\ \A r, s \in DOMAIN j.regions[p] : \A t, u \in Lanes(j) :
        \A i \in DOMAIN Lane(j, p, r, t) : \A k \in DOMAIN Lane(j, p, s, u) :
            <<r, t, i>> # <<s, u, k>> => Apart(Lane(j, p, r, t)[i], Lane(j, p, s, u)[k])
    /\ ~(p = 1 /\ j.refused) => \A e \in DOMAIN j.M : \A m \in 0 .. j.M[e] - 1 :
        \E r \in DOMAIN j.regions[p] : \E t \in Lanes(j) : \E i \in DOMAIN Lane(j, p, r, t) :
            Holds(Lane(j, p, r, t)[i], e, m)
IsSoundJob(j) ==
    /\ IsJob(j) /\ SlicesPartition(j)
    /\ RegionsPartition(j, 1)
    /\ j.fusedMoe => RegionsPartition(j, 2)
JobsAreSound == \A j \in Jobs : IsSoundJob(j)

---------------------------------------------------------------------------
(* Properties *)

Stages == {"grow", "barrier", "w13", "w2", "items", "queue", "taken", "done"}
Multiplication ==
    [op : 1 .. 2, e : DOMAIN job.M, lo : Nat, hi : Nat, by : Threads, via : {"pipeline", "pass"}]

\* A thread is at something its job gave it, and only rows of the call's
\* experts are multiplied.
TypeOK ==
    /\ phase \in Phases /\ pass \in 1 .. 2 /\ region \in Nat \ {0} /\ next \in Nat \ {0}
    /\ at \in [Threads -> [stage : Stages, item : Nat \ {0}]]
    /\ done \subseteq Multiplication
    /\ allocFail \in BOOLEAN /\ status \in {"success", "failure"}
    /\ pass = 2 => job.fusedMoe
    /\ \A t \in Threads :
        /\ at[t].stage \in {"grow", "barrier", "w13", "w2"} => phase = "pipeline"
        /\ at[t].stage \in {"w13", "w2"} => HasSlice(t)
        /\ at[t].stage \in {"items", "queue", "taken"} =>
            phase = "pass" /\ region \in DOMAIN job.regions[pass]
        /\ at[t].stage = "items" => at[t].item \in DOMAIN Regn.items[t]
        /\ at[t].stage \in {"queue", "taken"} => t \in Regn.pool
        /\ at[t].stage = "taken" => at[t].item \in DOMAIN Regn.queue
        /\ at[t].stage = "done" => at[t] = Done

RowIsDone(op, e, m) == \E x \in done : x.op = op /\ Holds(x, e, m)
IsDoneBy(op, e) == \A m \in 0 .. job.M[e] - 1 : RowIsDone(op, e, m)
LastOp == IF job.fusedMoe THEN 2 ELSE 1
Finished == phase = "returned" /\ status = "success"

\* However the rows are split over the threads, and whether or not the
\* pipeline gave up, no row is multiplied twice by the same weight, by two
\* threads or in two attempts, and a call that returns success has
\* multiplied every row by every weight.
EachRowOnce ==
    /\ \A x, y \in done : x # y /\ x.op = y.op => Apart(x, y)
    /\ Finished /\ ~job.refused => \A op \in 1 .. LastOp : \A e \in DOMAIN job.M : IsDoneBy(op, e)

\* Op1 reads source rows Op2 has not written over, and Op2 reads rows Op1
\* has already produced, in the pipeline as in the two passes; with
\* op2_internal the output of Op2 is the source of Op1.
SourceIsIntact(x) == x.op = 1 /\ job.reuse => \A y \in done : y.op = 2 => Apart(x, y)
InputIsProduced(x) ==
    x.op = 2 /\ ~job.refused => \A m \in x.lo .. x.hi - 1 : RowIsDone(1, x.e, m)
StepsReadTheirInput ==
    [][\A x \in done' \ done : SourceIsIntact(x) /\ InputIsProduced(x)]_vars

\* When the pipeline gives the call up "NO writes have been made to
\* op1_dst / op2_dst" (group_matmul_fused_moe.cpp): no thread has
\* multiplied anything, though others may already have their buffers.
FallbackFindsNothingDone == phase = "enter" /\ pass = 1 => done = {}

\* A call whose weight is packed for the custom kernel and cannot be routed
\* to it "fails rather than mis-reading it" (lowoha_common.hpp).
PrepackedFails == job.refused /\ phase = "returned" => status = "failure"

---------------------------------------------------------------------------
ActiveExperts == {e \in DOMAIN job.M : job.M[e] > 0}

\* An expert's output is its product when Op1 has done its rows, and final
\* when the last operation has.
OutputOf(e) ==
    CASE IsDoneBy(LastOp, e) -> "final"
      [] ~IsDoneBy(LastOp, e) /\ IsDoneBy(1, e) -> "product"
      [] OTHER -> "none"

\* The refinement.
Promise == INSTANCE GroupedCall WITH
    experts <- ActiveExperts,
    pass <- job.fusedMoe,
    out <- [e \in ActiveExperts |-> OutputOf(e)],
    failed <- phase = "failed" \/ status = "failure",
    returned <- phase = "returned"
\* The pipeline, its fallback and the regions of the two passes implement
\* the promise to the caller: an expert's Op1 is complete before its Op2 is,
\* nothing changes after the call returns, and it does return.
KeepsPromise == Promise!Spec
KeepsPromiseSafety == Promise!Init /\ [][Promise!Next]_(Promise!vars)
=============================================================================
