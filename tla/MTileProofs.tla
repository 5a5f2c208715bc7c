----------------------------- MODULE MTileProofs -----------------------------
(***************************************************************************)
(* Proofs about MTile.                                                     *)
(*                                                                         *)
(* The team, for every set of jobs whose slices and regions partition the  *)
(* rows of the experts, and teams of any size: no row is multiplied twice  *)
(* or left out, every multiplication finds its input, and the pipeline     *)
(* gives a call up before it has written anything.  The work that is still *)
(* pending shares no row with what was multiplied, and the work that is    *)
(* not pending was multiplied: the first keeps rows from being multiplied  *)
(* twice, the second makes a pass complete when its last region is joined. *)
(*                                                                         *)
(* What the planners owe the team, for calls of any shape and tuning: the  *)
(* jobs are ones that the theorems about the team assume.  Threads are     *)
(* handed out and taken back until the teams of the experts fit, a team's  *)
(* slices partition its expert's rows, the members of the teams find a     *)
(* seat each, and every executor gives every row to one lane of one        *)
(* region.                                                                 *)
(***************************************************************************)
EXTENDS MTile, GroupedProofs

InPass == phase = "pass"

\* Place i of lane t of region r of the running pass has not been done.
Pending(r, t, i) ==
    \/ r > region
    \/ /\ r = region
       /\ \/ t = 0 /\ (i >= next \/ \E u \in Threads : at[u] = Place("taken", i))
          \/ t # 0 /\ at[t].stage = "items" /\ at[t].item <= i

\* Quantifies over the places of the running pass.
PendingIsApart ==
    InPass => \A r \in DOMAIN job.regions[pass] : \A t \in Lanes(job) :
        \A i \in DOMAIN Lane(job, pass, r, t) : Pending(r, t, i) =>
            \A x \in done : x.op = pass => Apart(x, Lane(job, pass, r, t)[i])
\* Every row of x has been multiplied by the weight of op.
AllDone(op, x) == \A m \in x.lo .. x.hi - 1 : RowIsDone(op, x.e, m)
OthersAreDone ==
    InPass => \A r \in DOMAIN job.regions[pass] : \A t \in Lanes(job) :
        \A i \in DOMAIN Lane(job, pass, r, t) : ~Pending(r, t, i) =>
            AllDone(pass, Lane(job, pass, r, t)[i])

\* An entry of the queue is in one hand, and the queue is empty once a
\* thread of the pool has left it.
TakenIsPast == \A t \in Threads : at[t].stage = "taken" => at[t].item < next
TakenByOne ==
    \A t, u \in Threads :
        at[t].stage = "taken" /\ at[u].stage = "taken" /\ at[t].item = at[u].item => t = u
LeavesAtTheEnd ==
    region \in DOMAIN job.regions[pass] =>
        \A t \in Regn.pool : at[t] = Done => next > Len(Regn.queue)
QueueInv == InPass => TakenIsPast /\ TakenByOne /\ LeavesAtTheEnd

\* The first pass has multiplied by no second weight, and the second finds
\* every row of the first unless that was refused.
PassInv ==
    /\ phase = "enter" /\ pass = 1 => done = {}
    /\ phase \in {"enter", "pass"} /\ pass = 1 => \A x \in done : x.op = 1
    /\ phase = "enter" /\ pass = 2 => \A x \in done : x.op = 1
    /\ pass = 2 /\ ~job.refused => \A e \in DOMAIN job.M : IsDoneBy(1, e)

Slice(t) == job.slices[t][1]
\* In the pipeline nothing is multiplied before every thread has its buffer,
\* and a slice is multiplied by its own thread, Op1 first.
PipelineInv ==
    /\ phase \in {"start", "pipeline"} => pass = 1
    /\ phase = "start" => done = {} /\ ~allocFail
    /\ phase = "pipeline" =>
        /\ job.tries
        /\ (\E t \in Threads : at[t].stage \in {"w13", "w2", "done"}) =>
            \A u \in Threads : at[u].stage # "grow"
        /\ allocFail => done = {} /\ \A t \in Threads : at[t].stage \notin {"w13", "w2"}
        /\ \A x \in done :
            /\ HasSlice(x.by) /\ x.e = Slice(x.by).e
            /\ x.lo = Slice(x.by).lo /\ x.hi = Slice(x.by).hi
            /\ x.op = 1 => at[x.by].stage \in {"w2", "done"}
            /\ x.op = 2 => at[x.by].stage = "done"
        /\ \A t \in Threads : HasSlice(t) =>
            /\ at[t].stage = "w2" => AllDone(1, Slice(t))
            /\ at[t].stage = "done" /\ ~allocFail => AllDone(1, Slice(t)) /\ AllDone(2, Slice(t))

IInv ==
    /\ TypeOK /\ job \in Jobs /\ IsSoundJob(job)
    /\ PendingIsApart /\ OthersAreDone /\ QueueInv /\ PassInv /\ PipelineInv
    /\ EachRowOnce

Typed == TypeOK /\ job \in Jobs /\ IsSoundJob(job)

----------------------------------------------------------------------------
(* What the planners owe the team, of the call's job and the running pass. *)
LEMMA JobIsSound ==
  ASSUME Typed
  PROVE  /\ IsJob(job) /\ SlicesPartition(job) /\ RegionsPartition(job, pass)
         /\ RegionsPartition(job, 1) /\ (job.fusedMoe => RegionsPartition(job, 2))
<1>1. IsSoundJob(job) /\ pass \in 1 .. 2 /\ (pass = 2 => job.fusedMoe)
  BY DEF Typed, TypeOK
<1>2. /\ IsJob(job) /\ SlicesPartition(job)
      /\ RegionsPartition(job, 1) /\ (job.fusedMoe => RegionsPartition(job, 2))
  BY <1>1 DEF IsSoundJob
<1>3. pass = 1 \/ pass = 2
  BY <1>1
<1> QED
  BY <1>1, <1>2, <1>3

(* A multiplication of rows of the call, and its parts. *)
LEMMA MultIsTyped ==
  ASSUME NEW op \in 1 .. 2, NEW x, NEW t \in Threads, IsRows(job, x),
         phase \in {"pipeline", "pass"}
  PROVE  /\ Mult(op, x, t) \in Multiplication
         /\ Mult(op, x, t).op = op /\ Mult(op, x, t).by = t
         /\ Mult(op, x, t).e = x.e /\ Mult(op, x, t).lo = x.lo /\ Mult(op, x, t).hi = x.hi
  BY DEF Mult, Multiplication, IsRows

(* The rows of an item, a queue entry or a slice are rows of the call. *)
LEMMA WorkIsRows ==
  ASSUME Typed, pass \in 1 .. 2
  PROVE  /\ \A r \in DOMAIN job.regions[pass] : \A t \in Threads :
              \A i \in DOMAIN job.regions[pass][r].items[t] :
                  IsRows(job, job.regions[pass][r].items[t][i])
         /\ \A r \in DOMAIN job.regions[pass] : \A i \in DOMAIN job.regions[pass][r].queue :
              IsRows(job, job.regions[pass][r].queue[i])
         /\ \A t \in Threads : HasSlice(t) => IsRows(job, Slice(t))
<1>1. RegionsPartition(job, pass) /\ SlicesPartition(job)
  BY JobIsSound DEF Typed
<1>2. \A t \in Threads : t \in Lanes(job)
  BY DEF Threads, Lanes
<1>3. \A t \in Threads : HasSlice(t) => IsRows(job, Slice(t))
  BY <1>1 DEF SlicesPartition, Threads, HasSlice, Slice
<1>4. \A r \in DOMAIN job.regions[pass] : \A t \in Lanes(job) :
          \A i \in DOMAIN Lane(job, pass, r, t) : IsRows(job, Lane(job, pass, r, t)[i])
  BY <1>1 DEF RegionsPartition
<1>5. 0 \in Lanes(job) /\ \A t \in Threads : t # 0
  BY JobIsSound DEF Lanes, Threads, IsJob, Typed
<1> QED
  BY <1>2, <1>3, <1>4, <1>5 DEF Lane

(* Where AtItem puts a thread. *)
LEMMA AtItemIsAPlace ==
  ASSUME NEW g, NEW t, NEW i \in Nat \ {0}
  PROVE  \/ AtItem(g, t, i) = Place("items", i) /\ i \in DOMAIN g.items[t]
         \/ AtItem(g, t, i) = Place("queue", 1) /\ i \notin DOMAIN g.items[t] /\ t \in g.pool
         \/ AtItem(g, t, i) = Done /\ i \notin DOMAIN g.items[t] /\ t \notin g.pool
  BY DEF AtItem, AfterItems

(* A call's job never changes, nor its team. *)
LEMMA JobIsFixed ==
  ASSUME [Next]_vars
  PROVE  job' = job /\ Threads' = Threads
  BY DEF Next, CallerStep, ThreadStep, vars, Begin, Join, EnterPass, NextRegion, NextPass,
         EndCall, ReturnFailure, Grow, PassBarrier, W13, W2, RunItem, Take, RunTaken, Threads

LEMMA TypeInit == JobsAreSound /\ Init => Typed
<1> SUFFICES ASSUME JobsAreSound, Init PROVE Typed
  OBVIOUS
<1>1. job \in Jobs /\ IsSoundJob(job)
  BY DEF Init, JobsAreSound
<1>2. Done \in [stage : Stages, item : Nat \ {0}] /\ Done.stage = "done"
  BY DEF Done, Place, Stages
<1>3. at \in [Threads -> [stage : Stages, item : Nat \ {0}]] /\ \A t \in Threads : at[t] = Done
  BY <1>2 DEF Init
<1>4. phase \in Phases /\ pass \in 1 .. 2 /\ region \in Nat \ {0} /\ next \in Nat \ {0}
  BY DEF Init, Phases
<1>5. done \subseteq Multiplication /\ allocFail \in BOOLEAN /\ status \in {"success", "failure"}
  BY DEF Init
<1>6. pass # 2
  BY DEF Init
<1> QED
  BY <1>1, <1>2, <1>3, <1>4, <1>5, <1>6 DEF Typed, TypeOK

\* A thread is at something the running region gives it.
StageOK(t, p) ==
    /\ p \in [stage : Stages, item : Nat \ {0}]
    /\ p.stage \in {"grow", "barrier", "w13", "w2"} => phase = "pipeline"
    /\ p.stage \in {"w13", "w2"} => HasSlice(t)
    /\ p.stage \in {"items", "queue", "taken"} =>
            phase = "pass" /\ region \in DOMAIN job.regions[pass]
    /\ p.stage = "items" => p.item \in DOMAIN Regn.items[t]
    /\ p.stage \in {"queue", "taken"} => t \in Regn.pool
    /\ p.stage = "taken" => p.item \in DOMAIN Regn.queue
    /\ p.stage = "done" => p = Done

(* One thread moves, within what the region gives it. *)
LEMMA TypeOfAStep ==
  ASSUME TypeOK, NEW t \in Threads, NEW p, StageOK(t, p), Go(t, p),
         UNCHANGED <<job, phase, pass, region, status>>,
         next' \in Nat \ {0}, allocFail' \in BOOLEAN, done' \subseteq Multiplication
  PROVE  TypeOK'
<1>1. Threads' = Threads /\ \A u \in Threads : at'[u] = IF u = t THEN p ELSE at[u]
  BY DEF TypeOK, Go, Threads
<1>2. at' \in [Threads -> [stage : Stages, item : Nat \ {0}]]
  BY DEF TypeOK, StageOK, Go
<1>3. \A u \in Threads : StageOK(u, at'[u])
  BY <1>1 DEF TypeOK, StageOK
<1>4. Multiplication' = Multiplication
  BY <1>1 DEF Multiplication
<1>5. Regn' = Regn /\ \A u \in Threads : HasSlice(u)' = HasSlice(u)
  BY DEF Regn, HasSlice
<1> QED
  BY <1>1, <1>2, <1>3, <1>4, <1>5 DEF TypeOK, StageOK

(* The whole team starts a region of a pass. *)
LEMMA TypeOfATeam ==
  ASSUME Typed, UNCHANGED <<job, pass, done, allocFail, status>>,
         phase' = "pass", region' \in Nat \ {0}, next' \in Nat \ {0},
         at' = TeamAt(pass, region')
  PROVE  TypeOK'
<1> DEFINE g == job.regions[pass][region']
<1>1. \A t \in Threads :
          at'[t] = IF region' \in DOMAIN job.regions[pass] THEN AtItem(g, t, 1) ELSE Done
  BY DEF TeamAt
<1>2. ASSUME NEW t \in Threads
      PROVE  /\ at'[t] \in [stage : Stages, item : Nat \ {0}]
             /\ at'[t].stage \in {"items", "queue", "done"}
             /\ at'[t].stage # "done" => region' \in DOMAIN job.regions[pass]
             /\ at'[t].stage = "items" => at'[t].item \in DOMAIN g.items[t]
             /\ at'[t].stage = "queue" => t \in g.pool
             /\ at'[t].stage = "done" => at'[t] = Done
  <2>1. \/ AtItem(g, t, 1) = Place("items", 1) /\ 1 \in DOMAIN g.items[t]
        \/ AtItem(g, t, 1) = Place("queue", 1) /\ t \in g.pool
        \/ AtItem(g, t, 1) = Done
    BY AtItemIsAPlace
  <2> QED
    BY <1>1, <2>1 DEF Place, Done, Stages
<1>3. Threads' = Threads /\ Multiplication' = Multiplication /\ Regn' = g
  BY DEF Threads, Multiplication, Regn
<1>4. at' \in [Threads -> [stage : Stages, item : Nat \ {0}]]
  BY <1>2 DEF TeamAt
<1> QED
  BY <1>2, <1>3, <1>4 DEF Typed, TypeOK, Phases

LEMMA TypeStep == Typed /\ [Next]_vars => Typed'
<1> SUFFICES ASSUME Typed, [Next]_vars PROVE TypeOK'
  BY JobIsFixed DEF Typed
<1>1. job' = job /\ Threads' = Threads
  BY JobIsFixed
<1>2. TypeOK /\ pass \in 1 .. 2
  BY DEF Typed, TypeOK
<1>3. /\ \A t \in Threads : \A i \in DOMAIN Regn.items[t] :
            region \in DOMAIN job.regions[pass] => IsRows(job, Regn.items[t][i])
      /\ \A i \in DOMAIN Regn.queue :
            region \in DOMAIN job.regions[pass] => IsRows(job, Regn.queue[i])
      /\ \A t \in Threads : HasSlice(t) => IsRows(job, Slice(t))
  BY <1>2, WorkIsRows DEF Regn
<1>4. ASSUME Begin PROVE TypeOK'
  <2>1. at' \in [Threads -> [stage : Stages, item : Nat \ {0}]]
    BY <1>2, <1>4 DEF Begin, TypeOK, Place, Stages
  <2>2. \A t \in Threads : at'[t].stage = "grow" \/ at'[t] = at[t]
    BY <1>4 DEF Begin, Place
  <2>3. \A t \in Threads : at[t].stage = "done" /\ at[t] = Done
    BY <1>2, <1>4 DEF Begin, TypeOK, Stages
  <2>4. phase' \in {"pipeline", "enter"} /\ (phase' = "enter" => at' = at)
    BY <1>4 DEF Begin
  <2>5. Multiplication' = Multiplication
    BY <1>1 DEF Multiplication
  <2> QED
    BY <1>1, <1>2, <1>4, <2>1, <2>2, <2>3, <2>4, <2>5 DEF Begin, TypeOK, Phases, Done, Place
<1>5. ASSUME NEW t \in Threads, Grow(t) PROVE TypeOK'
  <2>1. StageOK(t, Place("barrier", 1))
    BY <1>5 DEF Grow, StageOK, Place, Stages
  <2> QED
    BY <1>2, <1>5, <2>1, TypeOfAStep DEF Grow, TypeOK
<1>6. ASSUME NEW t \in Threads, PassBarrier(t) PROVE TypeOK'
  <2>1. StageOK(t, PastBarrier(t))
    BY <1>6 DEF PassBarrier, PastBarrier, StageOK, Place, Done, Stages
  <2> QED
    BY <1>2, <1>6, <2>1, TypeOfAStep DEF PassBarrier, TypeOK
<1>7. ASSUME NEW t \in Threads, W13(t) PROVE TypeOK'
  <2>1. HasSlice(t) /\ phase = "pipeline"
    BY <1>2, <1>7 DEF W13, TypeOK
  <2>2. StageOK(t, Place("w2", 1))
    BY <2>1 DEF StageOK, Place, Stages
  <2>3. Mult(1, job.slices[t][1], t) \in Multiplication
    BY <1>3, <2>1, MultIsTyped DEF Slice
  <2> QED
    BY <1>2, <1>7, <2>2, <2>3, TypeOfAStep DEF W13, TypeOK
<1>8. ASSUME NEW t \in Threads, W2(t) PROVE TypeOK'
  <2>1. HasSlice(t) /\ phase = "pipeline"
    BY <1>2, <1>8 DEF W2, TypeOK
  <2>2. StageOK(t, Done)
    BY DEF StageOK, Done, Place, Stages
  <2>3. Mult(2, job.slices[t][1], t) \in Multiplication
    BY <1>3, <2>1, MultIsTyped DEF Slice
  <2> QED
    BY <1>2, <1>8, <2>2, <2>3, TypeOfAStep DEF W2, TypeOK
<1>9. ASSUME Join PROVE TypeOK'
  <2>1. \A t \in Threads : at[t] = Done
    BY <1>9 DEF Join, TeamIsDone
  <2> QED
    BY <1>1, <1>2, <1>9, <2>1 DEF Join, TypeOK, Phases, Multiplication, Done, Place
<1>10. ASSUME EnterPass PROVE TypeOK'
  <2>1. CASE phase' = "pass" /\ at' = TeamAt(pass, 1)
    BY <1>10, <2>1, TypeOfATeam DEF EnterPass
  <2>2. CASE phase' = "failed" /\ at' = at
    BY <1>1, <1>2, <1>10, <2>2 DEF EnterPass, TypeOK, Phases, Multiplication
  <2> QED
    BY <1>10, <2>1, <2>2 DEF EnterPass
<1>11. ASSUME NEW t \in Threads, RunItem(t) PROVE TypeOK'
  <2> DEFINE i == at[t].item
  <2>1. /\ region \in DOMAIN job.regions[pass] /\ i \in DOMAIN Regn.items[t]
        /\ i \in Nat \ {0} /\ phase = "pass"
    BY <1>2, <1>11 DEF RunItem, TypeOK
  <2>2. StageOK(t, AtItem(Regn, t, i + 1))
    BY <2>1, AtItemIsAPlace DEF StageOK, Place, Done, Stages
  <2>3. Mult(pass, Regn.items[t][i], t) \in Multiplication
    BY <1>2, <1>3, <2>1, MultIsTyped
  <2> QED
    BY <1>2, <1>11, <2>2, <2>3, TypeOfAStep DEF RunItem, TypeOK
<1>12. ASSUME NEW t \in Threads, Take(t) PROVE TypeOK'
  <2>1. /\ region \in DOMAIN job.regions[pass] /\ t \in Regn.pool
        /\ next \in Nat \ {0} /\ phase = "pass"
    BY <1>2, <1>12 DEF Take, TypeOK
  <2>2. DOMAIN Regn.queue = 1 .. Len(Regn.queue) /\ Len(Regn.queue) \in Nat
    <3>1. RegionsPartition(job, pass) /\ 0 \in Lanes(job)
      BY <1>2, JobIsSound DEF Typed, Lanes
    <3> QED
      BY <3>1, <2>1 DEF RegionsPartition, Lane, Regn
  <2>3. StageOK(t, IF next <= Len(Regn.queue) THEN Place("taken", next) ELSE Done)
    BY <2>1, <2>2 DEF StageOK, Place, Done, Stages
  <2> QED
    BY <1>2, <1>12, <2>1, <2>3, TypeOfAStep DEF Take, TypeOK
<1>13. ASSUME NEW t \in Threads, RunTaken(t) PROVE TypeOK'
  <2> DEFINE i == at[t].item
  <2>1. /\ region \in DOMAIN job.regions[pass] /\ t \in Regn.pool
        /\ i \in DOMAIN Regn.queue /\ phase = "pass"
    BY <1>2, <1>13 DEF RunTaken, TypeOK
  <2>2. StageOK(t, Place("queue", 1))
    BY <2>1 DEF StageOK, Place, Stages
  <2>3. Mult(pass, Regn.queue[i], t) \in Multiplication
    BY <1>2, <1>3, <2>1, MultIsTyped
  <2> QED
    BY <1>2, <1>13, <2>2, <2>3, TypeOfAStep DEF RunTaken, TypeOK
<1>14. ASSUME NextRegion PROVE TypeOK'
  <2>1. region + 1 \in Nat \ {0} /\ phase = "pass"
    BY <1>2, <1>14 DEF NextRegion, RegionEnds, TypeOK
  <2> QED
    BY <1>14, <2>1, TypeOfATeam DEF NextRegion
<1>15. ASSUME NextPass \/ EndCall PROVE TypeOK'
  <2>1. \A t \in Threads : at[t] = Done
    BY <1>15 DEF NextPass, EndCall, RegionEnds, TeamIsDone
  <2> QED
    BY <1>1, <1>2, <1>15, <2>1 DEF NextPass, EndCall, TypeOK, Phases, Multiplication, Done, Place
<1>16. ASSUME ReturnFailure PROVE TypeOK'
  BY <1>1, <1>2, <1>16 DEF ReturnFailure, TypeOK, Phases, Multiplication
<1>17. CASE UNCHANGED vars
  BY <1>1, <1>2, <1>17 DEF vars, TypeOK, Multiplication, Regn, HasSlice
<1> QED
  BY <1>4, <1>5, <1>6, <1>7, <1>8, <1>9, <1>10, <1>11, <1>12, <1>13, <1>14, <1>15, <1>16, <1>17
     DEF Next, CallerStep, ThreadStep

----------------------------------------------------------------------------
(* The places of a pass: their domains, and that no two share a row. *)
LEMMA PlacesArePartition ==
  ASSUME Typed
  PROVE  /\ 0 \in Lanes(job) /\ Lanes(job) = {0} \cup Threads /\ 0 \notin Threads
         /\ \A r \in DOMAIN job.regions[pass] :
              /\ r \in Nat /\ r <= Len(job.regions[pass]) /\ Len(job.regions[pass]) \in Nat
              /\ job.regions[pass][r].pool \subseteq Threads
              /\ job.regions[pass][r].queue # <<>> => job.regions[pass][r].pool # {}
              /\ \A t \in Lanes(job) :
                    /\ Len(Lane(job, pass, r, t)) \in Nat
                    /\ DOMAIN Lane(job, pass, r, t) = 1 .. Len(Lane(job, pass, r, t))
         /\ \A r, s \in DOMAIN job.regions[pass] : \A t, u \in Lanes(job) :
              \A i \in DOMAIN Lane(job, pass, r, t) : \A k \in DOMAIN Lane(job, pass, s, u) :
                  <<r, t, i>> # <<s, u, k>> =>
                      Apart(Lane(job, pass, r, t)[i], Lane(job, pass, s, u)[k])
<1>1. RegionsPartition(job, pass) /\ IsJob(job)
  BY JobIsSound DEF Typed, TypeOK
<1>2. Lanes(job) = {0} \cup Threads /\ 0 \notin Threads
  BY <1>1 DEF Lanes, Threads, IsJob
<1> QED
  BY <1>1, <1>2 DEF RegionsPartition, Threads

(* Region r of pass p starts with the first item of every thread. *)
TeamStarts ==
    /\ phase' = "pass" /\ next' = 1 /\ UNCHANGED <<job, pass, done>>
    /\ at' = TeamAt(pass, region')

(* The steps that leave the call in a pass. *)
LEMMA PassSteps ==
  ASSUME Typed, [Next]_vars, phase' = "pass"
  PROVE  \/ EnterPass /\ TeamStarts /\ region' = 1
         \/ NextRegion /\ TeamStarts /\ region' = region + 1
         \/ phase = "pass" /\ \E t \in Threads : RunItem(t) \/ Take(t) \/ RunTaken(t)
         \/ UNCHANGED vars
<1>1. \A t \in Threads : ~(Grow(t) \/ PassBarrier(t) \/ W13(t) \/ W2(t))
  BY DEF Grow, PassBarrier, W13, W2
<1>2. ~(Begin \/ Join \/ NextPass \/ EndCall \/ ReturnFailure)
  BY DEF Begin, Join, NextPass, EndCall, ReturnFailure
<1>3. EnterPass => TeamStarts /\ region' = 1
  BY DEF EnterPass, TeamStarts
<1>4. NextRegion => TeamStarts /\ region' = region + 1
  BY DEF NextRegion, RegionEnds, TeamStarts
<1>5. \A t \in Threads : RunItem(t) \/ Take(t) \/ RunTaken(t) => phase = "pass"
  BY DEF RunItem, Take, RunTaken
<1> QED
  BY <1>1, <1>2, <1>3, <1>4, <1>5 DEF Next, CallerStep, ThreadStep

(* At the start of a region no entry is taken, and every item lies ahead. *)
LEMMA TeamIsFresh ==
  ASSUME Typed, TeamStarts, NEW t \in Threads
  PROVE  /\ at'[t].stage # "taken"
         /\ region' \in DOMAIN job.regions[pass] =>
              /\ t \in job.regions[pass][region'].pool => at'[t] # Done
              /\ \A i \in DOMAIN job.regions[pass][region'].items[t] :
                    at'[t].stage = "items" /\ at'[t].item <= i
<1> DEFINE g == job.regions[pass][region']
<1>1. at'[t] = IF region' \in DOMAIN job.regions[pass] THEN AtItem(g, t, 1) ELSE Done
  BY DEF TeamStarts, TeamAt
<1>2. CASE region' \notin DOMAIN job.regions[pass]
  BY <1>1, <1>2 DEF Done, Place
<1>3. CASE region' \in DOMAIN job.regions[pass]
  <2>1. DOMAIN g.items[t] = 1 .. Len(g.items[t]) /\ Len(g.items[t]) \in Nat
    BY <1>3, PlacesArePartition DEF Lane
  <2>2. \/ at'[t] = Place("items", 1) /\ 1 \in DOMAIN g.items[t]
        \/ at'[t] = Place("queue", 1) /\ 1 \notin DOMAIN g.items[t] /\ t \in g.pool
        \/ at'[t] = Done /\ 1 \notin DOMAIN g.items[t] /\ t \notin g.pool
    BY <1>1, <1>3, AtItemIsAPlace
  <2> QED
    BY <1>3, <2>1, <2>2 DEF Place, Done
<1> QED
  BY <1>2, <1>3

LEMMA QueueStep == Typed /\ QueueInv /\ [Next]_vars => QueueInv'
<1> SUFFICES ASSUME Typed, QueueInv, [Next]_vars, phase' = "pass" PROVE QueueInv'
  BY DEF QueueInv, InPass
<1> USE DEF TakenIsPast, TakenByOne, LeavesAtTheEnd
<1>1. job' = job /\ Threads' = Threads /\ Typed'
  BY JobIsFixed, TypeStep
<1>2. at \in [Threads -> [stage : Stages, item : Nat \ {0}]] /\ next \in Nat \ {0}
  BY DEF Typed, TypeOK
<1>0. region \in DOMAIN job.regions[pass] => Regn.pool \subseteq Threads
  BY PlacesArePartition DEF Regn
<1>3. ASSUME TeamStarts PROVE QueueInv'
  BY <1>1, <1>3, TeamIsFresh, PlacesArePartition DEF QueueInv, TeamStarts, Regn
<1>4. ASSUME NEW t \in Threads, phase = "pass", RunItem(t) PROVE QueueInv'
  <2>1. UNCHANGED <<pass, region, next>> /\ Regn' = Regn
    BY <1>1, <1>4 DEF RunItem, Regn
  <2>2. \A u \in Threads : at'[u] = IF u = t THEN AtItem(Regn, t, at[t].item + 1) ELSE at[u]
    BY <1>2, <1>4 DEF RunItem, Go
  <2>3. at'[t].stage # "taken" /\ (at'[t] = Done => t \notin Regn.pool)
    BY <1>2, <2>2, AtItemIsAPlace DEF Place, Done
  <2>4. TakenIsPast' /\ TakenByOne'
    BY <1>1, <1>4, <2>1, <2>2, <2>3 DEF QueueInv, InPass
  <2>5. LeavesAtTheEnd'
    BY <1>1, <1>4, <2>1, <2>2, <2>3, <1>0 DEF QueueInv, InPass
  <2> QED
    BY <2>4, <2>5 DEF QueueInv
<1>5. ASSUME NEW t \in Threads, phase = "pass", Take(t) PROVE QueueInv'
  <2>1. UNCHANGED <<pass, region>> /\ Regn' = Regn /\ next' = next + 1
    BY <1>1, <1>5 DEF Take, Regn
  <2>2. \A u \in Threads : at'[u] = IF u # t THEN at[u]
                                    ELSE IF next <= Len(Regn.queue) THEN Place("taken", next)
                                    ELSE Done
    BY <1>2, <1>5 DEF Take, Go
  <2>3. region \in DOMAIN job.regions[pass] => Len(Regn.queue) \in Nat
    BY PlacesArePartition DEF Lane, Regn
  <2>4. \A u \in Threads : at'[u].stage = "taken" =>
            IF u = t THEN at'[u].item = next ELSE at'[u] = at[u] /\ at[u].item < next
    BY <1>5, <2>2 DEF QueueInv, InPass, Place, Done
  <2>5. TakenIsPast' /\ TakenByOne'
    BY <1>1, <1>2, <1>5, <2>1, <2>2, <2>4 DEF QueueInv, InPass
  <2>6. ASSUME region \in DOMAIN job.regions[pass], NEW u \in Regn.pool, at'[u] = Done
        PROVE  next' > Len(Regn.queue)
    <3>1. u \in Threads /\ Len(Regn.queue) \in Nat
      BY <1>0, <2>3, <2>6
    <3>2. CASE u = t
      BY <1>2, <2>1, <2>2, <2>6, <3>1, <3>2 DEF Place, Done
    <3>3. CASE u # t
      <4>1. next > Len(Regn.queue)
        BY <1>5, <2>2, <2>6, <3>1, <3>3 DEF QueueInv, InPass
      <4> QED
        BY <1>2, <2>1, <3>1, <4>1
    <3> QED
      BY <3>2, <3>3
  <2>7. LeavesAtTheEnd'
    BY <1>1, <2>1, <2>6
  <2> QED
    BY <2>5, <2>7 DEF QueueInv
<1>6. ASSUME NEW t \in Threads, phase = "pass", RunTaken(t) PROVE QueueInv'
  <2>1. UNCHANGED <<pass, region, next>> /\ Regn' = Regn
    BY <1>1, <1>6 DEF RunTaken, Regn
  <2>2. \A u \in Threads : at'[u] = IF u = t THEN Place("queue", 1) ELSE at[u]
    BY <1>2, <1>6 DEF RunTaken, Go
  <2>3. TakenIsPast' /\ TakenByOne'
    BY <1>1, <1>6, <2>1, <2>2 DEF QueueInv, InPass, Place
  <2>4. LeavesAtTheEnd'
    BY <1>1, <1>6, <2>1, <2>2, <1>0 DEF QueueInv, InPass, Place, Done
  <2> QED
    BY <2>3, <2>4 DEF QueueInv
<1>7. CASE UNCHANGED vars
  BY <1>1, <1>7 DEF vars, QueueInv, InPass, Regn
<1> QED
  BY <1>3, <1>4, <1>5, <1>6, <1>7, PassSteps

----------------------------------------------------------------------------
(* What has been multiplied stays multiplied. *)
LEMMA DoneGrows ==
  ASSUME [Next]_vars
  PROVE  done \subseteq done'
  BY DEF Next, CallerStep, ThreadStep, vars, Begin, Join, EnterPass, NextRegion, NextPass,
         EndCall, ReturnFailure, Grow, PassBarrier, W13, W2, RunItem, Take, RunTaken

LEMMA AllDoneStays ==
  ASSUME NEW op, NEW x, done \subseteq done', AllDone(op, x)
  PROVE  AllDone(op, x)'
  BY DEF AllDone, RowIsDone

LEMMA AllDoneByMult ==
  ASSUME NEW op \in 1 .. 2, NEW x, NEW t \in Threads, IsRows(job, x),
         phase \in {"pipeline", "pass"}, Mult(op, x, t) \in done'
  PROVE  AllDone(op, x)'
<1> DEFINE y == Mult(op, x, t)
<1>1. y.op = op /\ y.e = x.e /\ y.lo = x.lo /\ y.hi = x.hi /\ x.lo \in Nat /\ x.hi \in Nat
  BY MultIsTyped DEF IsRows
<1>2. \A m \in x.lo .. x.hi - 1 : y.op = op /\ Holds(y, x.e, m)
  BY <1>1 DEF Holds
<1> QED
  BY <1>2 DEF AllDone, RowIsDone

(* The pipeline: buffers before writes, Op1 before Op2, each slice by its   *)
(* own thread.                                                              *)
LEMMA PipelineStep == Typed /\ PipelineInv /\ [Next]_vars => PipelineInv'
<1> SUFFICES ASSUME Typed, PipelineInv, [Next]_vars, phase' \in {"start", "pipeline"}
             PROVE  PipelineInv'
  BY DEF PipelineInv
<1>1. job' = job /\ Threads' = Threads /\ done \subseteq done' /\ Typed'
  BY JobIsFixed, DoneGrows, TypeStep
<1>2. \A t \in Threads : HasSlice(t)' = HasSlice(t) /\ Slice(t)' = Slice(t)
  BY <1>1 DEF HasSlice, Slice
<1>3. /\ at \in [Threads -> [stage : Stages, item : Nat \ {0}]]
      /\ done \subseteq Multiplication /\ allocFail \in BOOLEAN
  BY DEF Typed, TypeOK
<1>4. \A t \in Threads : HasSlice(t) => IsRows(job, Slice(t))
  BY WorkIsRows DEF Typed, TypeOK
<1>5. \A x \in done : x.by \in Threads
  BY <1>3 DEF Multiplication
<1>6. ASSUME Begin PROVE PipelineInv'
  BY <1>1, <1>6 DEF Begin, PipelineInv, Place
<1>7. ASSUME NEW t \in Threads, phase = "pipeline", Grow(t) PROVE PipelineInv'
  <2>1. UNCHANGED <<phase, pass, done>> /\ at[t].stage = "grow"
    BY <1>7 DEF Grow
  <2>2. \A u \in Threads : at'[u] = IF u = t THEN Place("barrier", 1) ELSE at[u]
    BY <1>3, <1>7 DEF Grow, Go
  <2>3. /\ job.tries
        /\ \A u \in Threads : at[u].stage \notin {"w13", "w2", "done"}
    BY <1>7, <2>1 DEF PipelineInv
  <2>4. done = {}
    BY <1>3, <1>5, <1>7, <2>3 DEF PipelineInv, Multiplication
  <2> QED
    BY <1>1, <1>7, <2>1, <2>2, <2>3, <2>4 DEF PipelineInv, Place
<1>8. ASSUME NEW t \in Threads, phase = "pipeline", PassBarrier(t) PROVE PipelineInv'
  <2>1. UNCHANGED <<phase, pass, done, allocFail>> /\ at[t].stage = "barrier"
    BY <1>8 DEF PassBarrier
  <2>2. \A u \in Threads : at'[u] = IF u = t THEN PastBarrier(t) ELSE at[u]
    BY <1>3, <1>8 DEF PassBarrier, Go
  <2>3. \A u \in Threads : at'[u].stage # "grow"
    BY <1>8, <2>2 DEF PassBarrier, PastBarrier, Place, Done
  <2>4. \/ HasSlice(t) /\ ~allocFail /\ at'[t].stage = "w13"
        \/ ~(HasSlice(t) /\ ~allocFail) /\ at'[t].stage = "done"
    BY <2>2 DEF PastBarrier, Place, Done
  <2>5. \A x \in done : x.by # t
    BY <1>3, <1>8, <2>1 DEF PipelineInv, Multiplication
  <2>6. job.tries /\ (allocFail => done = {} /\ \A u \in Threads : at'[u].stage \notin {"w13", "w2"})
    BY <1>8, <2>2, <2>4 DEF PipelineInv
  <2>7. \A x \in done :
            /\ HasSlice(x.by) /\ x.e = Slice(x.by).e
            /\ x.lo = Slice(x.by).lo /\ x.hi = Slice(x.by).hi
            /\ x.op = 1 => at'[x.by].stage \in {"w2", "done"}
            /\ x.op = 2 => at'[x.by].stage = "done"
    BY <1>5, <1>8, <2>2, <2>5 DEF PipelineInv
  <2>8. \A u \in Threads : HasSlice(u) =>
            /\ at'[u].stage = "w2" => AllDone(1, Slice(u))'
            /\ at'[u].stage = "done" /\ ~allocFail => AllDone(1, Slice(u))' /\ AllDone(2, Slice(u))'
    BY <1>1, <1>2, <1>8, <2>1, <2>2, <2>4 DEF PipelineInv, AllDone, RowIsDone
  <2>9. pass' = 1 /\ phase' = "pipeline"
    BY <1>8, <2>1 DEF PipelineInv
  <2> QED
    BY <1>1, <1>2, <1>5, <2>1, <2>3, <2>6, <2>7, <2>8, <2>9 DEF PipelineInv
<1>9. ASSUME NEW t \in Threads, phase = "pipeline", W13(t) \/ W2(t) PROVE PipelineInv'
  <2>0. PICK op \in 1 .. 2 : (W13(t) /\ op = 1) \/ (W2(t) /\ op = 2)
    BY <1>9
  <2> DEFINE x == Mult(op, Slice(t), t)
             after == IF op = 1 THEN "w2" ELSE "done"
  <2>1. /\ UNCHANGED <<phase, pass, allocFail>> /\ done' = done \cup {x}
        /\ at[t].stage = IF op = 1 THEN "w13" ELSE "w2"
    BY <1>9, <2>0 DEF W13, W2, Slice
  <2>2. \A u \in Threads : IF u = t THEN at'[u].stage = after ELSE at'[u] = at[u]
    BY <1>3, <1>9, <2>0 DEF W13, W2, Go, Place, Done
  <2>3. HasSlice(t) /\ IsRows(job, Slice(t))
    BY <1>4, <2>1 DEF Typed, TypeOK
  <2>4. /\ x.op = op /\ x.by = t /\ x.e = Slice(t).e
        /\ x.lo = Slice(t).lo /\ x.hi = Slice(t).hi
    BY <1>9, <2>0, <2>3, MultIsTyped
  <2>5. AllDone(op, Slice(t))'
    BY <1>2, <1>9, <2>0, <2>1, <2>3, AllDoneByMult DEF AllDone, RowIsDone
  <2>6. op = 2 => AllDone(1, Slice(t))'
    BY <1>1, <1>2, <1>9, <2>0, <2>1, <2>3, AllDoneStays DEF PipelineInv, AllDone, RowIsDone
  <2>7. ~allocFail
    BY <1>9, <2>0, <2>1 DEF PipelineInv
  <2>8. \A y \in done' :
            /\ HasSlice(y.by) /\ y.e = Slice(y.by).e
            /\ y.lo = Slice(y.by).lo /\ y.hi = Slice(y.by).hi
            /\ y.op = 1 => at'[y.by].stage \in {"w2", "done"}
            /\ y.op = 2 => at'[y.by].stage = "done"
    BY <1>5, <1>9, <2>0, <2>1, <2>2, <2>3, <2>4 DEF PipelineInv
  <2>9. \A u \in Threads : HasSlice(u) =>
            /\ at'[u].stage = "w2" => AllDone(1, Slice(u))'
            /\ at'[u].stage = "done" => AllDone(1, Slice(u))' /\ AllDone(2, Slice(u))'
    <3>1. ASSUME NEW u \in Threads, u # t, HasSlice(u)
          PROVE  /\ at'[u].stage = "w2" => AllDone(1, Slice(u))'
                 /\ at'[u].stage = "done" => AllDone(1, Slice(u))' /\ AllDone(2, Slice(u))'
      BY <1>1, <1>2, <1>9, <2>0, <2>2, <2>7, <3>1 DEF PipelineInv, AllDone, RowIsDone
    <3> QED
      BY <2>2, <2>5, <2>6, <3>1
  <2>10. pass' = 1 /\ phase' = "pipeline" /\ job.tries /\ \A u \in Threads : at'[u].stage # "grow"
    BY <1>9, <2>0, <2>1, <2>2 DEF PipelineInv
  <2>11. \A y \in done' : y.by \in Threads
    BY <1>5, <2>1, <2>4
  <2> QED
    BY <1>1, <1>2, <2>1, <2>7, <2>8, <2>9, <2>10, <2>11 DEF PipelineInv
<1>10. CASE UNCHANGED vars
  BY <1>1, <1>10 DEF vars, PipelineInv, HasSlice, Slice, AllDone, RowIsDone
<1>11. ~(Join \/ EnterPass \/ NextRegion \/ NextPass \/ EndCall \/ ReturnFailure)
  BY DEF Join, EnterPass, NextRegion, RegionEnds, NextPass, EndCall, ReturnFailure
<1>12. \A t \in Threads : ~(RunItem(t) \/ Take(t) \/ RunTaken(t))
  BY DEF RunItem, Take, RunTaken
<1>13. \A t \in Threads : Grow(t) \/ PassBarrier(t) \/ W13(t) \/ W2(t) => phase = "pipeline"
  BY DEF Grow, PassBarrier, W13, W2
<1> QED
  BY <1>6, <1>7, <1>8, <1>9, <1>10, <1>11, <1>12, <1>13 DEF Next, CallerStep, ThreadStep

----------------------------------------------------------------------------
(* Where the threads of a pass go, and what they add. *)
LEMMA ItemStep ==
  ASSUME Typed, phase = "pass", NEW t \in Threads, RunItem(t)
  PROVE  /\ UNCHANGED <<job, phase, pass, region, next>>
         /\ region \in DOMAIN job.regions[pass] /\ t \in Lanes(job)
         /\ at[t].stage = "items" /\ at[t].item \in DOMAIN Lane(job, pass, region, t)
         /\ done' = done \cup {Mult(pass, Lane(job, pass, region, t)[at[t].item], t)}
         /\ \A u \in Threads : u # t => at'[u] = at[u]
         /\ at'[t].stage # "taken"
         /\ \A i \in DOMAIN Lane(job, pass, region, t) :
              at'[t].stage = "items" /\ at'[t].item <= i <=> at[t].item < i
<1>1. t \in Lanes(job) /\ t # 0
  BY PlacesArePartition
<1>2. Lane(job, pass, region, t) = Regn.items[t]
  BY <1>1 DEF Lane, Regn
<1>3. /\ at \in [Threads -> [stage : Stages, item : Nat \ {0}]] /\ at[t].stage = "items"
      /\ region \in DOMAIN job.regions[pass] /\ at[t].item \in DOMAIN Regn.items[t]
  BY DEF RunItem, Typed, TypeOK
<1>4. DOMAIN Regn.items[t] = 1 .. Len(Regn.items[t]) /\ Len(Regn.items[t]) \in Nat
  BY <1>1, <1>2, <1>3, PlacesArePartition
<1>5. \A u \in Threads : at'[u] = IF u = t THEN AtItem(Regn, t, at[t].item + 1) ELSE at[u]
  BY <1>3 DEF RunItem, Go
<1>6. \/ at'[t] = Place("items", at[t].item + 1) /\ at[t].item + 1 \in DOMAIN Regn.items[t]
      \/ at'[t] = Place("queue", 1) /\ at[t].item + 1 \notin DOMAIN Regn.items[t]
      \/ at'[t] = Done /\ at[t].item + 1 \notin DOMAIN Regn.items[t]
  BY <1>3, <1>5, AtItemIsAPlace
<1>7. at'[t].stage # "taken" /\ \A i \in DOMAIN Regn.items[t] :
          at'[t].stage = "items" /\ at'[t].item <= i <=> at[t].item < i
  BY <1>3, <1>4, <1>6 DEF Place, Done
<1> QED
  BY <1>1, <1>2, <1>3, <1>5, <1>7 DEF RunItem

LEMMA TakenStep ==
  ASSUME Typed, phase = "pass", NEW t \in Threads, RunTaken(t)
  PROVE  /\ UNCHANGED <<job, phase, pass, region, next>>
         /\ region \in DOMAIN job.regions[pass] /\ 0 \in Lanes(job)
         /\ at[t].stage = "taken" /\ at[t].item \in DOMAIN Lane(job, pass, region, 0)
         /\ done' = done \cup {Mult(pass, Lane(job, pass, region, 0)[at[t].item], t)}
         /\ \A u \in Threads : u # t => at'[u] = at[u]
         /\ at'[t].stage = "queue"
<1>1. Lane(job, pass, region, 0) = Regn.queue /\ 0 \in Lanes(job)
  BY DEF Lane, Lanes, Regn
<1>2. /\ at \in [Threads -> [stage : Stages, item : Nat \ {0}]] /\ at[t].stage = "taken"
      /\ region \in DOMAIN job.regions[pass] /\ at[t].item \in DOMAIN Regn.queue
  BY DEF RunTaken, Typed, TypeOK
<1>3. \A u \in Threads : at'[u] = IF u = t THEN Place("queue", 1) ELSE at[u]
  BY <1>2 DEF RunTaken, Go
<1> QED
  BY <1>1, <1>2, <1>3 DEF RunTaken, Place

LEMMA TakeStep ==
  ASSUME Typed, phase = "pass", NEW t \in Threads, Take(t)
  PROVE  /\ UNCHANGED <<job, phase, pass, region, done>> /\ next' = next + 1 /\ next \in Nat
         /\ region \in DOMAIN job.regions[pass] /\ at[t].stage = "queue"
         /\ \A u \in Threads : u # t => at'[u] = at[u]
         /\ \/ at'[t] = Place("taken", next)
            \/ at'[t] = Done /\ next > Len(Lane(job, pass, region, 0))
<1>1. Lane(job, pass, region, 0) = Regn.queue
  BY DEF Lane, Regn
<1>2. /\ at \in [Threads -> [stage : Stages, item : Nat \ {0}]] /\ at[t].stage = "queue"
      /\ region \in DOMAIN job.regions[pass] /\ next \in Nat
  BY DEF Take, Typed, TypeOK
<1>3. Len(Regn.queue) \in Nat
  BY <1>1, <1>2, PlacesArePartition
<1>4. \A u \in Threads : at'[u] = IF u # t THEN at[u]
                                  ELSE IF next <= Len(Regn.queue) THEN Place("taken", next)
                                  ELSE Done
  BY <1>2 DEF Take, Go
<1> QED
  BY <1>1, <1>2, <1>3, <1>4 DEF Take

(* Nothing becomes pending again, and a step in a pass takes exactly what   *)
(* it multiplies off the pending work.                                      *)
LEMMA PendingStep == Typed /\ QueueInv /\ PassInv /\ PendingIsApart /\ [Next]_vars => PendingIsApart'
<1> SUFFICES ASSUME Typed, QueueInv, PassInv, PendingIsApart, [Next]_vars, phase' = "pass",
                    NEW r \in DOMAIN (job.regions[pass])', NEW l \in Lanes(job)',
                    NEW i \in DOMAIN Lane(job, pass, r, l)', Pending(r, l, i)',
                    NEW x \in done', x.op = pass'
             PROVE  Apart(x, Lane(job, pass, r, l)[i])'
  BY DEF PendingIsApart, InPass
<1>1. job' = job /\ Threads' = Threads
  BY JobIsFixed
<1>2. /\ at \in [Threads -> [stage : Stages, item : Nat \ {0}]] /\ next \in Nat
      /\ region \in Nat /\ pass \in 1 .. 2
  BY DEF Typed, TypeOK
<1>3. Lanes(job) = {0} \cup Threads /\ 0 \notin Threads
  BY PlacesArePartition
<1>4. CASE EnterPass
  <2>1. x \in done /\ x.op = pass /\ pass = 2
    BY <1>2, <1>4 DEF EnterPass, PassInv
  <2> QED
    BY <1>4, <2>1 DEF EnterPass, PassInv
<1>5. CASE NextRegion
  <2>1. /\ UNCHANGED <<pass, done>> /\ phase = "pass" /\ region' = region + 1
    BY <1>5 DEF NextRegion, RegionEnds
  <2>2. r > region /\ r \in DOMAIN job.regions[pass]
    BY <1>1, <1>2, <2>1, PlacesArePartition DEF Pending
  <2> QED
    BY <1>1, <2>1, <2>2 DEF PendingIsApart, InPass, Pending
<1>6. CASE phase = "pass" /\ \E t \in Threads : RunItem(t) \/ Take(t) \/ RunTaken(t)
  <2>1. PICK t \in Threads : RunItem(t) \/ Take(t) \/ RunTaken(t)
    BY <1>6
  <2>2. UNCHANGED <<pass, region>> /\ r \in DOMAIN job.regions[pass] /\ l \in Lanes(job)
        /\ i \in DOMAIN Lane(job, pass, r, l)
        /\ Lane(job, pass, r, l)' = Lane(job, pass, r, l)
    BY <1>1, <1>6, <2>1, ItemStep, TakenStep, TakeStep DEF Lane
  <2>3. i \in Nat
    BY <2>2, PlacesArePartition
  <2>4. CASE RunItem(t)
    <3>1. Pending(r, l, i) /\ <<r, l, i>> # <<region, t, at[t].item>>
      BY <1>1, <1>2, <1>3, <1>6, <2>2, <2>3, <2>4, ItemStep DEF Pending, Place
    <3>2. CASE x \in done
      BY <1>6, <2>2, <3>1, <3>2 DEF PendingIsApart, InPass
    <3>3. CASE x = Mult(pass, Lane(job, pass, region, t)[at[t].item], t)
      <4> DEFINE y == Lane(job, pass, region, t)[at[t].item]
      <4>1. /\ region \in DOMAIN job.regions[pass] /\ t \in Lanes(job)
            /\ at[t].item \in DOMAIN Lane(job, pass, region, t)
        BY <1>6, <2>4, ItemStep
      <4>2. Apart(y, Lane(job, pass, r, l)[i])
        BY <2>2, <3>1, <4>1, PlacesArePartition
      <4>3. x.e = y.e /\ x.lo = y.lo /\ x.hi = y.hi
        BY <3>3 DEF Mult
      <4> HIDE DEF y
      <4> QED
        BY <2>2, <4>2, <4>3 DEF Apart
    <3> QED
      BY <1>6, <2>2, <2>4, <3>2, <3>3, ItemStep
  <2>5. CASE Take(t)
    <3>1. Pending(r, l, i)
      BY <1>1, <1>2, <1>3, <1>6, <2>2, <2>3, <2>5, TakeStep DEF Pending, Place, Done
    <3> QED
      BY <1>6, <2>2, <2>5, <3>1, TakeStep DEF PendingIsApart, InPass
  <2>6. CASE RunTaken(t)
    <3>1. Pending(r, l, i) /\ <<r, l, i>> # <<region, 0, at[t].item>>
      BY <1>1, <1>2, <1>3, <1>6, <2>2, <2>3, <2>6, TakenStep
         DEF Pending, Place, QueueInv, InPass, TakenIsPast, TakenByOne
    <3>2. CASE x \in done
      BY <1>6, <2>2, <3>1, <3>2 DEF PendingIsApart, InPass
    <3>3. CASE x = Mult(pass, Lane(job, pass, region, 0)[at[t].item], t)
      <4> DEFINE y == Lane(job, pass, region, 0)[at[t].item]
      <4>1. /\ region \in DOMAIN job.regions[pass] /\ 0 \in Lanes(job)
            /\ at[t].item \in DOMAIN Lane(job, pass, region, 0)
        BY <1>6, <2>6, TakenStep
      <4>2. Apart(y, Lane(job, pass, r, l)[i])
        BY <2>2, <3>1, <4>1, PlacesArePartition
      <4>3. x.e = y.e /\ x.lo = y.lo /\ x.hi = y.hi
        BY <3>3 DEF Mult
      <4> HIDE DEF y
      <4> QED
        BY <2>2, <4>2, <4>3 DEF Apart
    <3> QED
      BY <1>6, <2>2, <2>6, <3>2, <3>3, TakenStep
  <2> QED
    BY <2>1, <2>4, <2>5, <2>6
<1>7. CASE UNCHANGED vars
  BY <1>1, <1>7 DEF vars, PendingIsApart, InPass, Pending, Lane
<1> QED
  BY <1>4, <1>5, <1>6, <1>7, PassSteps

(* Once a region is joined, none of it is pending. *)
LEMMA JoinedIsDone ==
  ASSUME Typed, QueueInv, RegionEnds, NEW r \in DOMAIN job.regions[pass], r <= region,
         NEW l \in Lanes(job), NEW i \in DOMAIN Lane(job, pass, r, l)
  PROVE  ~Pending(r, l, i)
<1>1. InPass /\ \A t \in Threads : at[t] = Done
  BY DEF RegionEnds, TeamIsDone, InPass
<1>2. region \in Nat /\ r \in Nat /\ i \in 1 .. Len(Lane(job, pass, r, l)) /\ next \in Nat
      /\ Len(Lane(job, pass, r, l)) \in Nat
  BY PlacesArePartition DEF Typed, TypeOK
<1>3. CASE r = region /\ l = 0
  <2>1. Lane(job, pass, r, 0) = Regn.queue /\ Regn = job.regions[pass][r]
    BY <1>3 DEF Lane, Regn
  <2>2. Regn.queue # <<>>
    BY <1>2, <1>3, <2>1
  <2>3. PICK t \in Regn.pool : t \in Threads
    BY <2>1, <2>2, PlacesArePartition
  <2>4. next > Len(Regn.queue)
    BY <1>1, <1>3, <2>1, <2>3 DEF QueueInv, LeavesAtTheEnd
  <2> QED
    BY <1>1, <1>2, <1>3, <2>1, <2>4 DEF Pending, Done, Place
<1>4. CASE l # 0
  BY <1>1, <1>2, <1>4, PlacesArePartition DEF Pending, Done, Place
<1>5. CASE r # region
  BY <1>2, <1>5 DEF Pending
<1> QED
  BY <1>3, <1>4, <1>5

(* A step in a pass multiplies what it takes off the pending work. *)
LEMMA OthersStep == Typed /\ QueueInv /\ OthersAreDone /\ [Next]_vars => OthersAreDone'
<1> SUFFICES ASSUME Typed, QueueInv, OthersAreDone, [Next]_vars, phase' = "pass",
                    NEW r \in DOMAIN (job.regions[pass])', NEW l \in Lanes(job)',
                    NEW i \in DOMAIN Lane(job, pass, r, l)', ~Pending(r, l, i)'
             PROVE  AllDone(pass, Lane(job, pass, r, l)[i])'
  BY DEF OthersAreDone, InPass
<1>1. job' = job /\ Threads' = Threads /\ done \subseteq done' /\ Lanes(job)' = Lanes(job)
  BY JobIsFixed, DoneGrows DEF Lanes
<1>2. /\ at \in [Threads -> [stage : Stages, item : Nat \ {0}]] /\ next \in Nat
      /\ region \in Nat \ {0} /\ pass \in 1 .. 2 /\ Typed'
  BY TypeStep DEF Typed, TypeOK
<1>3. Lanes(job) = {0} \cup Threads /\ 0 \notin Threads
  BY PlacesArePartition
<1>4. ASSUME TeamStarts PROVE r < region'
  <2>1. /\ pass' = pass /\ next' = 1 /\ r \in DOMAIN job.regions[pass]
        /\ Lane(job, pass, r, l)' = Lane(job, pass, r, l)
    BY <1>1, <1>4 DEF TeamStarts, Lane
  <2>2. r \in Nat /\ i \in Nat \ {0} /\ region' \in Nat
    BY <1>1, <1>2, <2>1, PlacesArePartition DEF Typed, TypeOK
  <2>3. r <= region'
    BY <2>2 DEF Pending
  <2>4. ASSUME r = region' PROVE FALSE
    <3>1. CASE l = 0
      BY <2>1, <2>2, <2>4, <3>1 DEF Pending
    <3>2. CASE l \in Threads
      <4>1. i \in DOMAIN job.regions[pass][region'].items[l]
        BY <1>1, <1>3, <2>1, <2>4, <3>2 DEF Lane
      <4>2. at'[l].stage = "items" /\ at'[l].item <= i
        BY <1>4, <2>1, <2>4, <3>2, <4>1, TeamIsFresh
      <4> QED
        BY <1>3, <2>4, <3>2, <4>2 DEF Pending
    <3> QED
      BY <1>1, <1>3, <3>1, <3>2
  <2> QED
    BY <2>2, <2>3, <2>4
<1>5. CASE EnterPass /\ TeamStarts /\ region' = 1
  <2>1. r \in Nat \ {0}
    BY <1>1, <1>2, JobIsSound DEF RegionsPartition, Typed, TypeOK
  <2> QED
    BY <1>4, <1>5, <2>1
<1>6. CASE NextRegion /\ TeamStarts /\ region' = region + 1
  <2>1. /\ UNCHANGED <<pass, done>> /\ InPass /\ RegionEnds
        /\ r \in DOMAIN job.regions[pass] /\ i \in DOMAIN Lane(job, pass, r, l)
        /\ Lane(job, pass, r, l)' = Lane(job, pass, r, l)
    BY <1>1, <1>6 DEF NextRegion, RegionEnds, InPass, Lane
  <2>2. r <= region
    BY <1>2, <1>4, <1>6, <2>1, PlacesArePartition
  <2>3. AllDone(pass, Lane(job, pass, r, l)[i])
    BY <1>1, <2>1, <2>2, JoinedIsDone DEF OthersAreDone
  <2> QED
    BY <2>1, <2>3 DEF AllDone, RowIsDone
<1>7. CASE phase = "pass" /\ \E t \in Threads : RunItem(t) \/ Take(t) \/ RunTaken(t)
  <2>1. PICK t \in Threads : RunItem(t) \/ Take(t) \/ RunTaken(t)
    BY <1>7
  <2>2. UNCHANGED <<pass, region>> /\ r \in DOMAIN job.regions[pass] /\ l \in Lanes(job)
        /\ i \in DOMAIN Lane(job, pass, r, l)
        /\ Lane(job, pass, r, l)' = Lane(job, pass, r, l)
    BY <1>1, <1>7, <2>1, ItemStep, TakenStep, TakeStep DEF Lane
  <2>3. i \in Nat
    BY <2>2, PlacesArePartition
  <2>4. CASE ~Pending(r, l, i)
    BY <1>1, <1>7, <2>2, <2>4 DEF OthersAreDone, InPass, AllDone, RowIsDone
  <2>5. CASE Pending(r, l, i)
    <3>1. PICK u \in Threads : Mult(pass, Lane(job, pass, r, l)[i], u) \in done'
      <4>1. CASE RunItem(t)
        <5>1. r = region /\ l = t /\ i = at[t].item
          BY <1>1, <1>2, <1>3, <1>7, <2>2, <2>3, <2>5, <4>1, ItemStep DEF Pending, Place
        <5> QED
          BY <1>7, <4>1, <5>1, ItemStep
      <4>2. CASE Take(t)
        <5>1. i <= Len(Lane(job, pass, r, l)) /\ Len(Lane(job, pass, r, l)) \in Nat
          BY <2>2, PlacesArePartition
        <5>2. /\ UNCHANGED region /\ next' = next + 1 /\ at[t].stage = "queue"
              /\ \A u \in Threads : u # t => at'[u] = at[u]
              /\ \/ at'[t] = Place("taken", next)
                 \/ next > Len(Lane(job, pass, region, 0))
          BY <1>7, <4>2, TakeStep
        <5>3. r = region
          BY <2>5, <5>2 DEF Pending
        <5>4. CASE l # 0
          BY <1>1, <1>3, <2>2, <2>5, <5>2, <5>3, <5>4 DEF Pending
        <5>5. CASE l = 0
          <6>1. i >= next
            BY <1>1, <2>5, <5>2, <5>3, <5>5 DEF Pending, Place
          <6>2. i < next + 1 /\ at'[t] # Place("taken", i)
            BY <1>1, <1>2, <2>3, <5>2, <5>3, <5>5 DEF Pending
          <6> QED
            BY <1>2, <2>3, <5>1, <5>2, <5>3, <5>5, <6>1, <6>2
        <5> QED
          BY <5>4, <5>5
      <4>3. CASE RunTaken(t)
        <5>1. r = region /\ l = 0 /\ i = at[t].item
          BY <1>1, <1>2, <1>3, <1>7, <2>2, <2>3, <2>5, <4>3, TakenStep DEF Pending, Place
        <5> QED
          BY <1>7, <4>3, <5>1, TakenStep
      <4> QED
        BY <2>1, <4>1, <4>2, <4>3
    <3>2. IsRows(job, Lane(job, pass, r, l)[i])
      BY <1>2, <2>2, JobIsSound DEF RegionsPartition, Typed
    <3> QED
      BY <1>2, <1>7, <2>2, <3>1, <3>2, AllDoneByMult DEF AllDone, RowIsDone
  <2> QED
    BY <2>4, <2>5
<1>8. CASE UNCHANGED vars
  BY <1>1, <1>8 DEF vars, OthersAreDone, InPass, Pending, Lane, AllDone, RowIsDone
<1> QED
  BY <1>5, <1>6, <1>7, <1>8, PassSteps

(* When the last region of a pass is joined, every row has been multiplied  *)
(* by its weight, unless the pass was refused.                              *)
LEMMA PassIsComplete ==
  ASSUME Typed, QueueInv, OthersAreDone, RegionEnds, LastRegion, ~(pass = 1 /\ job.refused)
  PROVE  \A e \in DOMAIN job.M : IsDoneBy(pass, e)
<1> SUFFICES ASSUME NEW e \in DOMAIN job.M, NEW m \in 0 .. job.M[e] - 1
             PROVE  RowIsDone(pass, e, m)
  BY DEF IsDoneBy
<1>1. pass \in 1 .. 2 /\ RegionsPartition(job, pass) /\ region \in Nat
  BY JobIsSound DEF Typed, TypeOK
<1>2. PICK r \in DOMAIN job.regions[pass] : \E l \in Lanes(job) :
          \E i \in DOMAIN Lane(job, pass, r, l) : Holds(Lane(job, pass, r, l)[i], e, m)
  BY <1>1 DEF RegionsPartition
<1>3. PICK l \in Lanes(job) : \E i \in DOMAIN Lane(job, pass, r, l) :
          Holds(Lane(job, pass, r, l)[i], e, m)
  BY <1>2
<1>4. PICK i \in DOMAIN Lane(job, pass, r, l) : Holds(Lane(job, pass, r, l)[i], e, m)
  BY <1>3
<1>5. r <= region
  BY <1>1, PlacesArePartition DEF LastRegion
<1>6. AllDone(pass, Lane(job, pass, r, l)[i])
  BY <1>5, JoinedIsDone DEF OthersAreDone, RegionEnds, InPass
<1>7. IsRows(job, Lane(job, pass, r, l)[i])
  BY <1>1 DEF RegionsPartition
<1> QED
  BY <1>4, <1>6, <1>7 DEF AllDone, Holds, IsRows

(* When the pipeline is joined and no buffer was missing, every row has     *)
(* been multiplied by both weights.                                         *)
LEMMA PipelineIsComplete ==
  ASSUME Typed, PipelineInv, phase = "pipeline", TeamIsDone, ~allocFail, NEW op \in 1 .. 2
  PROVE  \A e \in DOMAIN job.M : IsDoneBy(op, e)
<1> SUFFICES ASSUME NEW e \in DOMAIN job.M, NEW m \in 0 .. job.M[e] - 1
             PROVE  RowIsDone(op, e, m)
  BY DEF IsDoneBy
<1>1. job.tries /\ SlicesPartition(job)
  BY JobIsSound DEF PipelineInv, Typed
<1>2. PICK t \in Threads : HasSlice(t) /\ Holds(Slice(t), e, m)
  BY <1>1 DEF SlicesPartition, Threads, HasSlice, Slice
<1>3. AllDone(op, Slice(t))
  BY <1>2 DEF PipelineInv, TeamIsDone, Done, Place
<1>4. IsRows(job, Slice(t))
  BY <1>1, <1>2 DEF SlicesPartition, Threads, HasSlice, Slice
<1> QED
  BY <1>2, <1>3, <1>4 DEF AllDone, Holds, IsRows

LEMMA IsDoneByStays ==
  ASSUME [Next]_vars, NEW op, NEW e, IsDoneBy(op, e)
  PROVE  IsDoneBy(op, e)'
  BY JobIsFixed, DoneGrows DEF IsDoneBy, RowIsDone

(* Which weights have been multiplied by, at each point of the call.        *)
LEMMA PassStep ==
  Typed /\ QueueInv /\ OthersAreDone /\ PassInv /\ PipelineInv /\ [Next]_vars => PassInv'
<1> SUFFICES ASSUME Typed, QueueInv, OthersAreDone, PassInv, PipelineInv, [Next]_vars
             PROVE  PassInv'
  OBVIOUS
<1>1. job' = job /\ done \subseteq done' /\ pass \in 1 .. 2
  BY JobIsFixed, DoneGrows DEF Typed, TypeOK
<1>2. (\A e \in DOMAIN job.M : IsDoneBy(1, e)) => (\A e \in DOMAIN job.M : IsDoneBy(1, e))'
  BY <1>1, IsDoneByStays
<1>3. CASE Begin
  BY <1>1, <1>2, <1>3 DEF Begin, PassInv, PipelineInv
<1>4. CASE Join
  BY <1>1, <1>2, <1>4 DEF Join, PassInv, PipelineInv
<1>5. CASE EnterPass
  BY <1>1, <1>2, <1>5 DEF EnterPass, PassInv
<1>6. CASE NextRegion
  BY <1>1, <1>2, <1>6 DEF NextRegion, RegionEnds, PassInv
<1>7. CASE NextPass
  <2>1. ~job.refused => \A e \in DOMAIN job.M : IsDoneBy(1, e)
    BY <1>7, PassIsComplete DEF NextPass
  <2> QED
    BY <1>1, <1>2, <1>7, <2>1 DEF NextPass, RegionEnds, PassInv
<1>8. CASE EndCall
  BY <1>1, <1>2, <1>8 DEF EndCall, PassInv
<1>9. CASE ReturnFailure
  BY <1>1, <1>2, <1>9 DEF ReturnFailure, PassInv
<1>10. ASSUME NEW t \in Threads, Grow(t) \/ PassBarrier(t) \/ W13(t) \/ W2(t) PROVE PassInv'
  BY <1>1, <1>2, <1>10 DEF Grow, PassBarrier, W13, W2, PassInv, PipelineInv
<1>11. ASSUME NEW t \in Threads, RunItem(t) \/ Take(t) \/ RunTaken(t) PROVE PassInv'
  <2>1. phase = "pass" /\ phase' = "pass" /\ pass' = pass
    BY <1>11 DEF RunItem, Take, RunTaken
  <2>2. \A x \in done' : x \in done \/ x.op = pass
    BY <1>11, <2>1, ItemStep, TakenStep, TakeStep DEF Mult
  <2> QED
    BY <1>1, <1>2, <2>1, <2>2 DEF PassInv
<1>12. CASE UNCHANGED vars
  BY <1>1, <1>2, <1>12 DEF vars, PassInv
<1> QED
  BY <1>3, <1>4, <1>5, <1>6, <1>7, <1>8, <1>9, <1>10, <1>11, <1>12
     DEF Next, CallerStep, ThreadStep

----------------------------------------------------------------------------
(* What a step may add: rows apart from those of the same weight, whose     *)
(* source no Op2 has written over and whose input Op1 has produced.         *)
IsSound(z) ==
    /\ \A y \in done : y.op = z.op => Apart(y, z)
    /\ z.op = 1 => \A y \in done : y.op = 2 => Apart(z, y)
    /\ z.op = 2 /\ ~job.refused => \A m \in z.lo .. z.hi - 1 : RowIsDone(1, z.e, m)

LEMMA PipelineAddsSoundly ==
  ASSUME Typed, PipelineInv, NEW t \in Threads, W13(t) \/ W2(t)
  PROVE  \E z : done' = done \cup {z} /\ IsSound(z)
<1>1. PICK op \in 1 .. 2 : (W13(t) /\ op = 1) \/ (W2(t) /\ op = 2)
  BY Z3
<1> DEFINE z == Mult(op, Slice(t), t)
<1>2. /\ phase = "pipeline" /\ at[t].stage = IF op = 1 THEN "w13" ELSE "w2"
      /\ done' = done \cup {z}
  BY <1>1 DEF W13, W2, Slice
<1>3. HasSlice(t) /\ z.op = op /\ z.e = Slice(t).e /\ z.lo = Slice(t).lo /\ z.hi = Slice(t).hi
  BY <1>2 DEF Typed, TypeOK, Mult
<1>4. ASSUME NEW y \in done, y.by # t PROVE Apart(y, z) /\ Apart(z, y)
  <2>1. /\ y.by \in Threads /\ HasSlice(y.by) /\ y.e = Slice(y.by).e
        /\ y.lo = Slice(y.by).lo /\ y.hi = Slice(y.by).hi
    BY <1>2 DEF PipelineInv, Typed, TypeOK, Multiplication
  <2>2. Apart(Slice(y.by), Slice(t))
    BY <1>3, <1>4, <2>1, JobIsSound
       DEF SlicesPartition, Threads, HasSlice, Slice, Typed
  <2> QED
    BY <1>3, <2>1, <2>2 DEF Apart
<1>5. \A y \in done : (y.op = op => y.by # t) /\ (op = 1 /\ y.op = 2 => y.by # t)
  BY <1>2 DEF PipelineInv
<1>6. op = 2 => \A m \in z.lo .. z.hi - 1 : RowIsDone(1, z.e, m)
  BY <1>2, <1>3 DEF PipelineInv, AllDone
<1> QED
  BY <1>2, <1>3, <1>4, <1>5, <1>6 DEF IsSound

LEMMA PassAddsSoundly ==
  ASSUME Typed, QueueInv, PassInv, PendingIsApart, NEW t \in Threads, RunItem(t) \/ RunTaken(t)
  PROVE  \E z : done' = done \cup {z} /\ IsSound(z)
<1>1. phase = "pass" /\ pass \in 1 .. 2
  BY DEF RunItem, RunTaken, Typed, TypeOK
<1>2. PICK l \in Lanes(job) :
          /\ region \in DOMAIN job.regions[pass]
          /\ at[t].item \in DOMAIN Lane(job, pass, region, l)
          /\ Pending(region, l, at[t].item)
          /\ done' = done \cup {Mult(pass, Lane(job, pass, region, l)[at[t].item], t)}
  <2>1. CASE RunItem(t)
    <3>1. t # 0 /\ at[t].item <= at[t].item
      BY PlacesArePartition DEF Typed, TypeOK
    <3> QED
      BY <1>1, <2>1, <3>1, ItemStep DEF Pending
  <2>2. CASE RunTaken(t)
    <3>1. at[t] = Place("taken", at[t].item)
      BY <1>1, <2>2, TakenStep DEF Place, Typed, TypeOK
    <3> QED
      BY <1>1, <2>2, <3>1, TakenStep DEF Pending
  <2> QED
    BY <2>1, <2>2
<1> DEFINE w == Lane(job, pass, region, l)[at[t].item]
           z == Mult(pass, w, t)
<1>3. z.op = pass /\ z.e = w.e /\ z.lo = w.lo /\ z.hi = w.hi
  BY DEF Mult
<1>4. IsRows(job, w)
  BY <1>1, <1>2, JobIsSound DEF RegionsPartition, Typed
<1>5. \A y \in done : y.op = pass => Apart(y, w)
  BY <1>1, <1>2 DEF PendingIsApart, InPass
<1>6. done' = done \cup {z}
  BY <1>2
<1> HIDE DEF w
<1>7. \A y \in done : y.op = z.op => Apart(y, z)
  BY <1>3, <1>5 DEF Apart
<1>8. z.op = 1 => \A y \in done : y.op # 2
  BY <1>1, <1>3 DEF PassInv
<1>9. z.op = 2 /\ ~job.refused => \A m \in z.lo .. z.hi - 1 : RowIsDone(1, z.e, m)
  <2>1. SUFFICES ASSUME pass = 2, ~job.refused, NEW m \in w.lo .. w.hi - 1
                 PROVE  RowIsDone(1, w.e, m)
    BY <1>3
  <2>2. w.e \in DOMAIN job.M /\ job.M[w.e] \in Nat
    BY <1>4, JobIsSound DEF IsRows, IsJob, Typed
  <2>3. m \in 0 .. job.M[w.e] - 1
    BY <1>4, <2>2 DEF IsRows
  <2> QED
    BY <2>1, <2>2, <2>3 DEF PassInv, IsDoneBy
<1>10. IsSound(z)
  BY <1>7, <1>8, <1>9 DEF IsSound
<1> QED
  BY <1>6, <1>10

LEMMA StepAddsSoundly ==
  ASSUME Typed, QueueInv, PassInv, PipelineInv, PendingIsApart, [Next]_vars
  PROVE  done' = done \/ \E z : done' = done \cup {z} /\ IsSound(z)
<1>1. \A t \in Threads : W13(t) \/ W2(t) => \E z : done' = done \cup {z} /\ IsSound(z)
  BY PipelineAddsSoundly
<1>2. \A t \in Threads : RunItem(t) \/ RunTaken(t) => \E z : done' = done \cup {z} /\ IsSound(z)
  BY PassAddsSoundly
<1>3. \A t \in Threads : Grow(t) \/ PassBarrier(t) \/ Take(t) => done' = done
  BY DEF Grow, PassBarrier, Take
<1>4. CallerStep \/ UNCHANGED vars => done' = done
  BY DEF CallerStep, vars, Begin, Join, EnterPass, NextRegion, NextPass, EndCall, ReturnFailure
<1> QED
  BY <1>1, <1>2, <1>3, <1>4 DEF Next, ThreadStep

(* No row twice, and none left out when the call returns success.           *)
LEMMA OnceStep == IInv /\ [Next]_vars => EachRowOnce'
<1> SUFFICES ASSUME IInv, [Next]_vars PROVE EachRowOnce'
  OBVIOUS
<1>1. Typed /\ QueueInv /\ PassInv /\ PipelineInv /\ PendingIsApart /\ OthersAreDone /\ EachRowOnce
  BY DEF IInv, Typed
<1>2. job' = job /\ done \subseteq done' /\ pass \in 1 .. 2
  BY <1>1, JobIsFixed, DoneGrows DEF Typed, TypeOK
<1>3. \A x, y \in done' : x # y /\ x.op = y.op => Apart(x, y)
  <2>1. CASE done' = done
    BY <1>1, <2>1 DEF EachRowOnce
  <2>2. ASSUME NEW z, done' = done \cup {z}, IsSound(z)
        PROVE  \A x, y \in done' : x # y /\ x.op = y.op => Apart(x, y)
    BY <1>1, <2>2 DEF EachRowOnce, IsSound, Apart
  <2> QED
    BY <1>1, <2>1, <2>2, StepAddsSoundly
<1>4. ASSUME Finished', ~job.refused
      PROVE  \A op \in 1 .. LastOp : \A e \in DOMAIN job.M : IsDoneBy(op, e)'
  <2>1. CASE Join
    <3>1. job.fusedMoe /\ LastOp = 2
      BY <1>1, <2>1, JobIsSound DEF Join, PipelineInv, IsJob, Typed, LastOp
    <3>2. ~allocFail
      BY <1>4, <2>1 DEF Join, Finished
    <3> QED
      BY <1>1, <2>1, <3>1, <3>2, PipelineIsComplete, IsDoneByStays DEF Join
  <2>2. CASE EndCall
    <3>1. \A e \in DOMAIN job.M : IsDoneBy(pass, e)
      BY <1>1, <1>4, <2>2, PassIsComplete DEF EndCall
    <3>2. pass = 2 => \A e \in DOMAIN job.M : IsDoneBy(1, e)
      BY <1>1, <1>4 DEF PassInv
    <3>3. LastOp = pass
      BY <1>1, <1>2, <2>2 DEF LastOp, EndCall, Typed, TypeOK
    <3>4. \A op \in 1 .. LastOp : op = pass \/ (pass = 2 /\ op = 1)
      BY <1>2, <3>3
    <3> QED
      BY <3>1, <3>2, <3>4, IsDoneByStays
  <2>3. CASE phase = "returned" /\ status = "success"
    <3>1. \A op \in 1 .. LastOp : \A e \in DOMAIN job.M : IsDoneBy(op, e)
      BY <1>1, <1>4, <2>3 DEF EachRowOnce, Finished
    <3> QED
      BY <3>1, IsDoneByStays
  <2>4. Join \/ EndCall \/ (phase = "returned" /\ status = "success")
    BY <1>4 DEF Finished, Next, CallerStep, ThreadStep, vars, Begin, EnterPass, NextRegion,
                NextPass, ReturnFailure, RegionEnds, Grow, PassBarrier, W13, W2, RunItem, Take,
                RunTaken
  <2> QED
    BY <2>1, <2>2, <2>3, <2>4
<1>5. LastOp' = LastOp
  BY <1>2 DEF LastOp
<1> QED
  BY <1>2, <1>3, <1>4, <1>5 DEF EachRowOnce

LEMMA InvInit == JobsAreSound /\ Init => IInv
<1> SUFFICES ASSUME JobsAreSound, Init PROVE IInv
  OBVIOUS
<1>1. Typed
  BY TypeInit
<1>2. EachRowOnce
  BY DEF Init, EachRowOnce, Finished
<1>3. QueueInv /\ PassInv /\ PipelineInv /\ PendingIsApart /\ OthersAreDone
  BY DEF Init, QueueInv, PassInv, PipelineInv, PendingIsApart, OthersAreDone, InPass
<1> QED
  BY <1>1, <1>2, <1>3 DEF IInv, Typed

LEMMA InvStep == IInv /\ [Next]_vars => IInv'
  BY TypeStep, QueueStep, PendingStep, OthersStep, PassStep, PipelineStep, OnceStep
     DEF IInv, Typed

(* The invariant of every step of every call. *)
THEOREM TeamInvariant ==
  ASSUME JobsAreSound
  PROVE  Spec => []IInv
<1>1. Init => IInv
  BY InvInit
<1> QED
  BY <1>1, InvStep, PTL DEF Spec

(* A thread is only ever at something its call gave it, and only rows of    *)
(* the call's experts are multiplied: Take never hands out an entry past    *)
(* the end of the queue.                                                    *)
THEOREM TypeCorrect ==
  ASSUME JobsAreSound
  PROVE  Spec => []TypeOK
<1>1. IInv => TypeOK
  BY DEF IInv
<1> QED
  BY TeamInvariant, <1>1, PTL

(* No row is multiplied twice by a weight, whatever the split, the dynamic  *)
(* queue and the fallback do, and a call that returns success has left none *)
(* out.                                                                     *)
THEOREM RowsOnce ==
  ASSUME JobsAreSound
  PROVE  Spec => []EachRowOnce
<1>1. IInv => EachRowOnce
  BY DEF IInv
<1> QED
  BY TeamInvariant, <1>1, PTL

(* The two passes that follow a pipeline that gave up start from outputs no *)
(* thread has written.                                                      *)
THEOREM FallbackIsClean ==
  ASSUME JobsAreSound
  PROVE  Spec => []FallbackFindsNothingDone
<1>1. IInv => FallbackFindsNothingDone
  BY DEF IInv, PassInv, FallbackFindsNothingDone
<1> QED
  BY TeamInvariant, <1>1, PTL

(* Every multiplication finds its input: Op1 its source, not written over   *)
(* by Op2, and Op2 the rows Op1 has produced.                               *)
THEOREM InputsAreThere ==
  ASSUME JobsAreSound
  PROVE  Spec => StepsReadTheirInput
<1>1. ASSUME IInv, [Next]_vars
      PROVE  [\A x \in done' \ done : SourceIsIntact(x) /\ InputIsProduced(x)]_vars
  <2>1. Typed /\ QueueInv /\ PassInv /\ PipelineInv /\ PendingIsApart
    BY <1>1 DEF IInv, Typed
  <2>2. CASE done' = done
    BY <2>2
  <2>3. ASSUME NEW z, done' = done \cup {z}, IsSound(z)
        PROVE  \A x \in done' \ done : SourceIsIntact(x) /\ InputIsProduced(x)
    BY <2>3 DEF IsSound, SourceIsIntact, InputIsProduced
  <2> QED
    BY <1>1, <2>1, <2>2, <2>3, StepAddsSoundly
<1> QED
  BY TeamInvariant, <1>1, PTL DEF Spec, StepsReadTheirInput

----------------------------------------------------------------------------
(* The team implements GroupedCall.                                         *)

\* Op2 has multiplied only rows Op1 had produced.
InputsStay ==
    ~job.refused => \A x \in done : x.op = 2 => \A m \in x.lo .. x.hi - 1 : RowIsDone(1, x.e, m)
MapInv == IInv /\ InputsStay

LEMMA MapInvStep == MapInv /\ [Next]_vars => MapInv'
<1> SUFFICES ASSUME MapInv, [Next]_vars PROVE InputsStay'
  BY InvStep DEF MapInv
<1>1. Typed /\ QueueInv /\ PassInv /\ PipelineInv /\ PendingIsApart /\ InputsStay
  BY DEF MapInv, IInv, Typed
<1>2. job' = job /\ done \subseteq done'
  BY JobIsFixed, DoneGrows
<1>3. CASE done' = done
  BY <1>1, <1>2, <1>3 DEF InputsStay, RowIsDone
<1>4. ASSUME NEW z, done' = done \cup {z}, IsSound(z) PROVE InputsStay'
  BY <1>1, <1>2, <1>4 DEF InputsStay, IsSound, RowIsDone
<1> QED
  BY <1>1, <1>3, <1>4, StepAddsSoundly

THEOREM MapInvariant ==
  ASSUME JobsAreSound
  PROVE  Spec => []MapInv
<1>1. Init => MapInv
  BY InvInit DEF Init, MapInv, InputsStay
<1> QED
  BY <1>1, MapInvStep, PTL DEF Spec

(* When all an expert's rows have been multiplied by the second weight, all *)
(* have been by the first.                                                  *)
LEMMA SecondMeansFirst ==
  ASSUME MapInv, ~job.refused, NEW e \in DOMAIN job.M, IsDoneBy(2, e)
  PROVE  IsDoneBy(1, e)
<1> SUFFICES ASSUME NEW m \in 0 .. job.M[e] - 1 PROVE RowIsDone(1, e, m)
  BY DEF IsDoneBy
<1>1. PICK x \in done : x.op = 2 /\ Holds(x, e, m)
  BY DEF IsDoneBy, RowIsDone
<1>2. x.lo \in Nat /\ x.hi \in Nat /\ x.e = e /\ m \in x.lo .. x.hi - 1
  BY <1>1, JobIsSound DEF MapInv, IInv, Typed, TypeOK, Multiplication, Holds, IsJob
<1> QED
  BY <1>1, <1>2 DEF MapInv, InputsStay

(* A multiplication changes what is done for one expert and one weight.     *)
LEMMA OneExpertChanges ==
  ASSUME NEW z, done' = done \cup {z}, job' = job, NEW e \in DOMAIN job.M, NEW op,
         e # z.e \/ op # z.op
  PROVE  IsDoneBy(op, e)' = IsDoneBy(op, e)
  BY DEF IsDoneBy, RowIsDone, Holds

(* How a multiplication moves an expert's output: at most one step on.      *)
LEMMA OutputMovesOn ==
  ASSUME MapInv, [Next]_vars, NEW z, done' = done \cup {z}, IsSound(z), z \in Multiplication',
         ~(job.fusedMoe /\ job.refused)
  PROVE  /\ \A e \in ActiveExperts : e # z.e => OutputOf(e)' = OutputOf(e)
         /\ z.e \in ActiveExperts =>
              \/ OutputOf(z.e)' = OutputOf(z.e)
              \/ job.fusedMoe /\ OutputOf(z.e) = "none" /\ OutputOf(z.e)' = "product"
              \/ OutputOf(z.e) = (IF job.fusedMoe THEN "product" ELSE "none")
                  /\ OutputOf(z.e)' = "final"
<1>1. job' = job /\ LastOp' = LastOp /\ ActiveExperts \subseteq DOMAIN job.M
  BY JobIsFixed DEF LastOp, ActiveExperts
<1>2. \A e \in ActiveExperts : e # z.e => OutputOf(e)' = OutputOf(e)
  BY <1>1, OneExpertChanges DEF OutputOf
<1>3. ASSUME NEW e \in ActiveExperts, e = z.e
      PROVE  \/ OutputOf(e)' = OutputOf(e)
             \/ job.fusedMoe /\ OutputOf(e) = "none" /\ OutputOf(e)' = "product"
             \/ OutputOf(e) = (IF job.fusedMoe THEN "product" ELSE "none")
                  /\ OutputOf(e)' = "final"
  <2>1. \A op : IsDoneBy(op, e) => IsDoneBy(op, e)'
    BY IsDoneByStays
  <2>2. CASE ~job.fusedMoe
    BY <1>1, <2>1, <2>2 DEF OutputOf, LastOp
  <2>3. CASE job.fusedMoe
    <3>1. LastOp = 2
      BY <2>3 DEF LastOp
    <3>2. IsDoneBy(2, e) => IsDoneBy(1, e)
      BY <1>1, <2>3, SecondMeansFirst
    <3>3. CASE z.op # 2
      <4>1. IsDoneBy(2, e)' = IsDoneBy(2, e)
        BY <1>1, <3>3, OneExpertChanges
      <4> QED
        BY <1>1, <2>1, <2>3, <3>1, <4>1 DEF OutputOf
    <3>4. CASE z.op = 2
      <4>1. IsDoneBy(1, e)' = IsDoneBy(1, e)
        BY <1>1, <3>4, OneExpertChanges
      <4>2. MapInv' /\ job'.refused = job.refused
        BY <1>1, MapInvStep
      <4>3. IsDoneBy(2, e)' => IsDoneBy(1, e)'
        <5> SUFFICES ASSUME IsDoneBy(2, e)', NEW m \in 0 .. job.M[e] - 1
                     PROVE  RowIsDone(1, e, m)'
          BY <1>1 DEF IsDoneBy
        <5>1. PICK x \in done' : x.op = 2 /\ Holds(x, e, m)
          BY <1>1 DEF IsDoneBy, RowIsDone
        <5>2. done' \subseteq Multiplication' /\ (job.M[e] \in Nat)
          BY <1>1, <4>2, JobIsSound DEF MapInv, IInv, Typed, TypeOK, IsJob
        <5>3. x.lo \in Nat /\ x.hi \in Nat /\ x.e = e /\ m \in x.lo .. x.hi - 1
          BY <5>1, <5>2 DEF Multiplication, Holds
        <5> QED
          BY <1>1, <2>3, <4>2, <5>1, <5>3 DEF MapInv, InputsStay
      <4> QED
        BY <1>1, <2>1, <2>3, <3>1, <3>2, <4>1, <4>3 DEF OutputOf
    <3> QED
      BY <3>3, <3>4
  <2> QED
    BY <2>2, <2>3
<1> QED
  BY <1>2, <1>3

LEMMA PromiseInit == JobsAreSound /\ Init => Promise!Init
<1> SUFFICES ASSUME JobsAreSound, Init PROVE Promise!Init
  OBVIOUS
<1>1. Typed /\ done = {} /\ phase = "start" /\ status = "success"
  BY TypeInit DEF Init
<1>2. job.fusedMoe \in BOOLEAN /\ LastOp \in 1 .. 2
  BY <1>1, JobIsSound DEF Typed, IsJob, LastOp
<1>3. ASSUME NEW e \in ActiveExperts PROVE OutputOf(e) = "none"
  <2>1. 0 \in 0 .. job.M[e] - 1
    BY <1>1, JobIsSound DEF Typed, IsJob, ActiveExperts
  <2>2. \A op : ~IsDoneBy(op, e)
    BY <1>1, <2>1 DEF IsDoneBy, RowIsDone
  <2> QED
    BY <2>2 DEF OutputOf
<1>4. [e \in ActiveExperts |-> OutputOf(e)] = [e \in ActiveExperts |-> "none"]
  BY <1>3
<1>5. ~(phase = "failed" \/ status = "failure") /\ ~(phase = "returned")
  BY <1>1
<1> QED
  BY <1>1, <1>2, <1>4, <1>5 DEF Promise!Init

(* Every step of the team is a step of the promise or leaves it as it is.   *)
LEMMA PromiseStep ==
  ASSUME MapInv, [Next]_vars, ~(job.fusedMoe /\ job.refused)
  PROVE  [Promise!Next]_(Promise!vars)
<1>1. /\ Typed /\ Typed' /\ job' = job /\ ActiveExperts' = ActiveExperts
      /\ QueueInv /\ PassInv /\ PipelineInv /\ PendingIsApart /\ EachRowOnce'
  BY JobIsFixed, TypeStep, InvStep DEF MapInv, IInv, Typed, ActiveExperts
<1>2. CASE done' = done
  <2>1. \A e \in ActiveExperts : OutputOf(e)' = OutputOf(e)
    BY <1>1, <1>2 DEF OutputOf, IsDoneBy, RowIsDone, LastOp
  <2>2. CASE (phase = "failed" \/ status = "failure")' = (phase = "failed" \/ status = "failure")
             /\ (phase = "returned")' = (phase = "returned")
    BY <1>1, <2>1, <2>2 DEF Promise!vars
  <2>3. CASE (phase = "returned")' # (phase = "returned")
    <3>1. phase # "returned" /\ phase' = "returned" /\ (Join \/ EndCall \/ ReturnFailure)
      BY <2>3 DEF Next, CallerStep, ThreadStep, vars, Begin, Join, EnterPass, NextRegion, NextPass,
         EndCall, ReturnFailure, RegionEnds, Grow, PassBarrier, W13, W2, RunItem, Take, RunTaken
    <3>2. /\ (phase = "failed" \/ status = "failure")' = (phase = "failed" \/ status = "failure")
          /\ ~(phase = "failed" \/ status = "failure") =>
                \A e \in ActiveExperts : OutputOf(e) = "final"
      <4>1. CASE ReturnFailure
        BY <4>1 DEF ReturnFailure
      <4>2. CASE Join \/ EndCall
        <5>1. status' = status /\ phase # "failed" /\ phase' # "failed"
          BY <3>1, <4>2 DEF Join, EndCall, RegionEnds
        <5>2. ~job.refused
          BY <1>1, <3>1, <4>2, JobIsSound
             DEF Join, EndCall, PipelineInv, IsJob, Typed
        <5>3. ASSUME status # "failure" PROVE \A e \in ActiveExperts : IsDoneBy(LastOp, e)
          <6>1. Finished'
            BY <1>1, <3>1, <5>1, <5>3 DEF Finished, Typed, TypeOK
          <6>2. LastOp' = LastOp /\ LastOp \in 1 .. LastOp
            BY <1>1 DEF LastOp
          <6> QED
            BY <1>1, <1>2, <5>2, <6>1, <6>2
               DEF EachRowOnce, ActiveExperts, IsDoneBy, RowIsDone
        <5> QED
          BY <5>1, <5>3 DEF OutputOf
      <4> QED
        BY <3>1, <4>1, <4>2
    <3> QED
      BY <1>1, <2>1, <3>1, <3>2 DEF Promise!Next, Promise!Return, Promise!Call
  <2>4. CASE (phase = "failed" \/ status = "failure")' # (phase = "failed" \/ status = "failure")
             /\ (phase = "returned")' = (phase = "returned")
    <3>1. /\ phase # "returned" /\ ~(phase = "failed" \/ status = "failure")
          /\ (phase = "failed" \/ status = "failure")'
      BY <2>4 DEF Next, CallerStep, ThreadStep, vars, Begin, Join, EnterPass, NextRegion, NextPass,
         EndCall, ReturnFailure, RegionEnds, Grow, PassBarrier, W13, W2, RunItem, Take, RunTaken
    <3> QED
      BY <1>1, <2>1, <2>4, <3>1 DEF Promise!Next, Promise!Fail, Promise!Call
  <2> QED
    BY <2>2, <2>3, <2>4
<1>3. ASSUME NEW z, done' = done \cup {z}, IsSound(z), z \notin done
      PROVE  [Promise!Next]_(Promise!vars)
  <2>1. phase \in {"pipeline", "pass"} /\ UNCHANGED <<phase, status>>
    BY <1>3 DEF Next, CallerStep, ThreadStep, vars, Begin, Join, EnterPass, NextRegion, NextPass,
       EndCall, ReturnFailure, Grow, PassBarrier, W13, W2, RunItem, Take, RunTaken
  <2>2. z \in Multiplication'
    BY <1>1, <1>3 DEF Typed, TypeOK
  <2>3. \A e \in ActiveExperts : e # z.e => OutputOf(e)' = OutputOf(e)
    BY <1>3, <2>2, OutputMovesOn
  <2>4. CASE z.e \notin ActiveExperts \/ OutputOf(z.e)' = OutputOf(z.e)
    BY <1>1, <2>1, <2>3, <2>4 DEF Promise!vars
  <2>5. CASE z.e \in ActiveExperts /\ job.fusedMoe
             /\ OutputOf(z.e) = "none" /\ OutputOf(z.e)' = "product"
    BY <1>1, <2>1, <2>3, <2>5 DEF Promise!Next, Promise!Multiplied, Promise!Call
  <2>6. CASE /\ z.e \in ActiveExperts /\ OutputOf(z.e)' = "final"
             /\ OutputOf(z.e) = (IF job.fusedMoe THEN "product" ELSE "none")
    BY <1>1, <2>1, <2>3, <2>6 DEF Promise!Next, Promise!Finished, Promise!Call
  <2> QED
    BY <1>3, <2>2, <2>4, <2>5, <2>6, OutputMovesOn
<1> QED
  BY <1>1, <1>2, <1>3, StepAddsSoundly

(* The pipeline, the fallback and the two passes implement the promise to   *)
(* the caller step by step: an expert's second product only follows its     *)
(* first, nothing changes after the return, and a call returns success only *)
(* with every output final.  A fused call whose first weight was refused is *)
(* left out: it does not keep the promise.                                  *)
THEOREM ImplementsPromise ==
  ASSUME JobsAreSound, \A j \in Jobs : ~(j.fusedMoe /\ j.refused)
  PROVE  Spec => KeepsPromiseSafety
<1>1. MapInv => ~(job.fusedMoe /\ job.refused)
  BY DEF MapInv, IInv
<1>2. MapInv /\ [Next]_vars => [Promise!Next]_(Promise!vars)
  BY <1>1, PromiseStep
<1>3. (Init => Promise!Init) /\ (Spec => []MapInv)
  BY PromiseInit, MapInvariant
<1> QED
  BY <1>2, <1>3, PTL DEF Spec, KeepsPromiseSafety

(***************************************************************************)
(* The plan: calls                                                         *)
(***************************************************************************)

LEMMA CallIsShaped ==
  ASSUME NEW c, IsCall(c)
  PROVE  /\ c.threads \in Nat \ {0} /\ Ops(c) \in Nat \ {0}
         /\ Experts(c) = 1 .. Ops(c) /\ DOMAIN c.M = Experts(c) /\ IsFiniteSet(Experts(c))
         /\ \A e \in Experts(c) : e \in Nat /\ c.M[e] \in Nat
         /\ Active(c) \subseteq Experts(c) /\ IsFiniteSet(Active(c)) /\ NumActive(c) \in Nat
         /\ \A e \in Active(c) : c.M[e] \in Nat \ {0}
<1>1. c.M \in Seq(Nat) /\ c.M # <<>> /\ c.threads \in Nat \ {0} BY DEF IsCall
<1>2. PICK n \in Nat : n = Len(c.M) /\ DOMAIN c.M = 1 .. n /\ \A e \in 1 .. n : c.M[e] \in Nat
  BY <1>1
<1>3. n # 0 BY <1>1, <1>2
<1>4. Ops(c) = n /\ Experts(c) = 1 .. n BY <1>2 DEF Ops, Experts
<1>5. IsFiniteSet(Experts(c)) BY <1>4, FS_Interval
<1>6. Active(c) \subseteq Experts(c) /\ \A e \in Active(c) : c.M[e] > 0 BY DEF Active
<1>7. IsFiniteSet(Active(c)) BY <1>5, <1>6, FS_Subset
<1>8. NumActive(c) \in Nat BY <1>7, FS_CardinalityType DEF NumActive
<1> QED BY <1>1, <1>2, <1>3, <1>4, <1>5, <1>6, <1>7, <1>8

\* The CCDs of the host, the last perhaps cut short, hold every thread.
LEMMA CcdsHoldThreads ==
  ASSUME NEW c, IsCall(c)
  PROVE  /\ CcdSize(c) \in 1 .. c.threads /\ NumCcds(c) \in Nat \ {0}
         /\ \A t \in 1 .. c.threads : (t - 1) \div CcdSize(c) \in 0 .. NumCcds(c) - 1
<1>1. PICK T \in Nat \ {0} : T = c.threads BY DEF IsCall
<1>2. PICK b \in Nat \ {0} : b = CcdSize(c) /\ b <= T
  BY <1>1, CcdHasLanes DEF CcdSize, AtMost
<1>3. PICK n \in Nat \ {0} : n = NumCcds(c) /\ n = CeilDiv(T, b)
  BY <1>1, <1>2, RoundsCoverPlaces DEF NumCcds
<1>4. ASSUME NEW t \in 1 .. T PROVE (t - 1) \div b \in 0 .. n - 1
  <2>1. 1 + (t - 1) \div b \in 1 .. n BY <1>3, <1>1, <1>2, RoundsCoverPlaces
  <2>2. PICK q \in Nat : q = (t - 1) \div b
    <3>1. t - 1 \in Nat OBVIOUS
    <3> QED BY <3>1, <1>2, DivBounds
  <2> QED BY <2>1, <2>2
<1> QED BY <1>1, <1>2, <1>3, <1>4

LEMMA WantsOne ==
  ASSUME NEW c, IsCall(c)
  PROVE  /\ Wanted(c) \in [Experts(c) -> Nat]
         /\ \A e \in Active(c) : Wanted(c)[e] >= 1
<1>1. c.env.slice \in Nat \ {0} BY DEF IsCall, Tunings
<1>2. ASSUME NEW e \in Experts(c)
      PROVE  Wanted(c)[e] \in Nat /\ (c.M[e] > 0 => Wanted(c)[e] >= 1)
  <2>1. PICK m \in Nat : m = c.M[e] BY CallIsShaped
  <2>2. PICK d \in Nat : d = CeilDiv(m, c.env.slice)
    <3>1. PICK s \in Nat \ {0} : s = c.env.slice BY <1>1
    <3>2. PICK x \in Nat : x = m + s - 1 BY <3>1
    <3>3. CeilDiv(m, s) = x \div s BY <3>2 DEF CeilDiv
    <3> QED BY <3>1, <3>2, <3>3, DivBounds
  <2>3. Wanted(c)[e] = AtMost(m, AtLeastOne(d)) BY <2>1, <2>2 DEF Wanted
  <2> QED BY <2>1, <2>2, <2>3 DEF AtMost, AtLeastOne
<1>3. Wanted(c) = [e \in Experts(c) |-> Wanted(c)[e]] BY DEF Wanted
<1>4. \A e \in Active(c) : e \in Experts(c) /\ c.M[e] > 0 BY DEF Active
<1> QED BY <1>2, <1>3, <1>4

(***************************************************************************)
(* The plan: teams                                                         *)
(***************************************************************************)

ThickestFirst(c, alloc, cap, S, n) ==
  WaterFill(alloc, cap, S, n,
            LAMBDA a, e, f : \/ SliceRows(c, a, e) > SliceRows(c, a, f)
                             \/ SliceRows(c, a, e) = SliceRows(c, a, f) /\ e < f)

\* The spare threads go to some expert each, or nowhere.
LEMMA ThickestFills ==
  ASSUME NEW E, IsFiniteSet(E), NEW alloc \in [E -> Nat],
         NEW z \in Int, NEW n \in Nat, n = (IF z > 0 THEN z ELSE 0),
         NEW c, NEW cap, NEW S
  PROVE  ThickestFirst(c, alloc, cap, S, z) \in Filled(alloc, E, n)
<1> DEFINE open(a) == {e \in S : a[e] < cap[e]}
<1> DEFINE best(a) == CHOOSE e \in open(a) : \A f \in open(a) \ {e} :
                         \/ SliceRows(c, a, e) > SliceRows(c, a, f)
                         \/ SliceRows(c, a, e) = SliceRows(c, a, f) /\ e < f
<1> DEFINE Give(a, i) == IF open(a) = {} THEN a ELSE [a EXCEPT ![best(a)] = @ + 1]
<1> DEFINE res == ThickestFirst(c, alloc, cap, S, z)
<1> DEFINE seq == [i \in 1 .. z |-> i]
<1> DEFINE IsLoop(g) == g = [s \in SUBSET DOMAIN seq |->
                IF s = {} THEN alloc ELSE Give(g[s \ {Max(s)}], seq[Max(s)])]
<1>1. res = (CHOOSE g : IsLoop(g))[DOMAIN seq]
  BY DEF ThickestFirst, WaterFill, FoldLeft, MapThenFoldSet
<1>2. \A a, i : Give(a, i) = a \/ \E b : Give(a, i) = OneMore(a, b) BY DEF OneMore
<1> HIDE DEF open, best, Give, res
<1>3. /\ DOMAIN seq = 1 .. n
      /\ \A s \in SUBSET (1 .. n) : s # {} =>
            /\ Max(s) \in 1 .. n /\ seq[Max(s)] = Max(s)
            /\ s \ {Max(s)} \in SUBSET (1 .. n)
  <2>1. 1 .. z = 1 .. n OBVIOUS
  <2>2. DOMAIN seq = 1 .. n /\ \A i \in 1 .. n : seq[i] = i BY <2>1
  <2> QED BY <2>2, LoopPlaces
<1>4. \A g : IsLoop(g) <=> g = [s \in SUBSET (1 .. n) |->
                                 IF s = {} THEN alloc ELSE Give(g[s \ {Max(s)}], Max(s))]
  BY <1>3
<1> HIDE DEF IsLoop, seq
<1>5. PICK D, G : D = [E -> Nat] /\ G = [p \in D \X (1 .. n) |-> Give(p[1], p[2])] OBVIOUS
<1>6. \A a \in D : \A i \in 1 .. n : G[<<a, i>>] = Give(a, i) BY <1>5
<1>7. ASSUME NEW k \in Nat, NEW a \in Filled(alloc, E, k), NEW i \in 1 .. n
      PROVE  G[<<a, i>>] \in Filled(alloc, E, k + 1)
  <2>1. a \in D BY <1>5 DEF Filled
  <2>2. PICK d : d = Give(a, i) /\ G[<<a, i>>] = d BY <1>6, <2>1
  <2>3. d = a \/ \E b : d = OneMore(a, b) BY <1>2, <2>2
  <2> QED BY <2>2, <2>3, OneMoreIsFilled
<1>8. ASSUME NEW a \in D, NEW i \in 1 .. n PROVE G[<<a, i>>] \in D
  <2>1. a \in Filled(a, E, 0)
    <3>1. a \in [E -> Nat] BY <1>5
    <3>2. Total(a, E) \in Nat /\ Total(a, E) + 0 = Total(a, E) BY <3>1, TotalIsNat
    <3>3. \A e \in E : a[e] <= a[e] BY <3>1
    <3> QED BY <3>1, <3>2, <3>3 DEF Filled
  <2>2. PICK d : d = Give(a, i) /\ G[<<a, i>>] = d BY <1>6
  <2>3. d = a \/ \E b : d = OneMore(a, b) BY <1>2, <2>2
  <2>4. d \in Filled(a, E, 0 + 1) BY <1>5, <2>1, <2>3, OneMoreIsFilled
  <2> QED BY <1>5, <2>2, <2>4 DEF Filled
<1>9. \E g : IsLoop(g)
  <2>1. PICK h : FoldRec(h, G, alloc, n) /\ \A s \in SUBSET (1 .. n) : h[s] \in D
    BY <1>5, <1>8, LoopExists
  <2>2. \A s \in SUBSET (1 .. n) : s # {} =>
          G[<<h[s \ {Max(s)}], Max(s)>>] = Give(h[s \ {Max(s)}], Max(s))
    BY <1>3, <1>6, <2>1
  <2>3. h = [s \in SUBSET (1 .. n) |->
               IF s = {} THEN alloc ELSE Give(h[s \ {Max(s)}], Max(s))]
    BY <2>1, <2>2 DEF FoldRec
  <2> QED BY <1>4, <2>3
<1>10. PICK g : IsLoop(g) /\ res = g[1 .. n] BY <1>1, <1>3, <1>9
<1>11. Turns(g, G, D, alloc, n)
  <2>1. \A s \in SUBSET (1 .. n) :
          g[s] = IF s = {} THEN alloc ELSE Give(g[s \ {Max(s)}], Max(s))
    BY <1>4, <1>10
  <2>2. g[{}] = alloc BY <2>1
  <2>3. ASSUME NEW k \in 0 .. n - 1, g[1 .. k] \in D
        PROVE  g[1 .. k + 1] = G[<<g[1 .. k], k + 1>>]
    <3>1. k \in Nat /\ k + 1 \in 1 .. n /\ 1 .. k + 1 \in SUBSET (1 .. n) OBVIOUS
    <3>2. 1 .. k + 1 # {} /\ Max(1 .. k + 1) = k + 1 /\ (1 .. k + 1) \ {k + 1} = 1 .. k
      BY <3>1, LastTurn
    <3>3. g[1 .. k + 1] = Give(g[1 .. k], k + 1) BY <2>1, <3>1, <3>2
    <3> QED BY <1>6, <2>3, <3>1, <3>3
  <2> QED BY <2>2, <2>3 DEF Turns
<1>12. PICK X : X = [k \in 0 .. n |-> Filled(alloc, E, k)] OBVIOUS
<1>13. \A k \in 0 .. n : X[k] \subseteq D BY <1>5, <1>12 DEF Filled
<1>14. alloc \in X[0]
  <2>1. Total(alloc, E) \in Nat /\ Total(alloc, E) + 0 = Total(alloc, E) BY TotalIsNat
  <2>2. \A e \in E : alloc[e] <= alloc[e] OBVIOUS
  <2>3. alloc \in Filled(alloc, E, 0) BY <2>1, <2>2 DEF Filled
  <2>4. 0 \in 0 .. n OBVIOUS
  <2> QED BY <1>12, <2>3, <2>4
<1>15. \A k \in 0 .. n - 1 : \A a \in X[k] : G[<<a, k + 1>>] \in X[k + 1]
  <2> SUFFICES ASSUME NEW k \in 0 .. n - 1, NEW a \in X[k] PROVE G[<<a, k + 1>>] \in X[k + 1]
    OBVIOUS
  <2>1. k \in Nat /\ k \in 0 .. n /\ k + 1 \in 0 .. n /\ k + 1 \in 1 .. n OBVIOUS
  <2>2. a \in Filled(alloc, E, k) /\ X[k + 1] = Filled(alloc, E, k + 1) BY <1>12, <2>1
  <2> QED BY <1>7, <2>1, <2>2
<1>16. g[1 .. n] \in X[n]
  <2>1. n \in 0 .. n OBVIOUS
  <2>2. \A k \in 0 .. n : g[1 .. k] \in X[k] BY <1>11, <1>13, <1>14, <1>15, LoopKeeps
  <2> QED BY <2>1, <2>2
<1>17. X[n] = Filled(alloc, E, n) BY <1>12
<1>18. res \in Filled(alloc, E, n) BY <1>10, <1>16, <1>17
<1> QED BY <1>18 DEF res

\* Every team keeps a thread, and k threads have been taken back unless each
\* has only one.
Shrunk(alloc, E, S, k) ==
  {a \in [E -> Nat] : /\ \A e \in S : a[e] >= 1
                      /\ Total(a, S) + k <= Total(alloc, S) \/ \A e \in S : a[e] = 1}

Rich(a, S) == {e \in S : a[e] > 1}
Poorest(c, a, S) ==
  CHOOSE e \in Rich(a, S) : \A f \in Rich(a, S) \ {e} :
     \/ SliceRows(c, a, e) < SliceRows(c, a, f)
     \/ SliceRows(c, a, e) = SliceRows(c, a, f) /\ e < f
TookOne(c, a, S) == IF Rich(a, S) = {} THEN a ELSE [a EXCEPT ![Poorest(c, a, S)] = @ - 1]

LEMMA PoorestIsRich ==
  ASSUME NEW c, IsCall(c), NEW S \in SUBSET Experts(c), NEW a \in [Experts(c) -> Nat],
         Rich(a, S) # {}
  PROVE  Poorest(c, a, S) \in Rich(a, S)
<1>1. PICK F : F = Rich(a, S) OBVIOUS
<1>2. PICK w : w = [e \in F |-> SliceRows(c, a, e)] OBVIOUS
<1>3. F \in SUBSET Nat /\ F # {} /\ \A e \in F : e \in Experts(c)
  BY <1>1, CallIsShaped DEF Rich
<1>4. \A e \in F : w[e] \in Nat
  <2> SUFFICES ASSUME NEW e \in F PROVE w[e] \in Nat OBVIOUS
  <2>1. PICK m \in Nat, n \in Nat \ {0} : m = c.M[e] /\ n = a[e]
    <3>1. a[e] \in Nat /\ a[e] > 1 BY <1>1, <1>3 DEF Rich
    <3>2. c.M[e] \in Nat BY <1>3, CallIsShaped
    <3> QED BY <3>1, <3>2
  <2>2. PICK x \in Nat : x = m + n - 1 OBVIOUS
  <2>3. w[e] = x \div n BY <1>2, <2>1, <2>2 DEF SliceRows, CeilDiv
  <2> QED BY <2>3, DivBounds
<1>5. PICK i \in F : \A j \in F : w[i] < w[j] \/ (w[i] = w[j] /\ i <= j)
  BY <1>3, <1>4, LeastPlace
<1>6. \A f \in F \ {i} : w[i] < w[f] \/ (w[i] = w[f] /\ i < f)
  <2> SUFFICES ASSUME NEW f \in F \ {i} PROVE w[i] < w[f] \/ (w[i] = w[f] /\ i < f)
    OBVIOUS
  <2>1. i \in Nat /\ f \in Nat /\ i # f BY <1>3
  <2>2. w[i] < w[f] \/ (w[i] = w[f] /\ i <= f) BY <1>5
  <2> QED BY <2>1, <2>2
<1>7. \A f \in F \ {i} : \/ SliceRows(c, a, i) < SliceRows(c, a, f)
                         \/ SliceRows(c, a, i) = SliceRows(c, a, f) /\ i < f
  BY <1>2, <1>6
<1> QED BY <1>1, <1>7, Zenon DEF Poorest

LEMMA TookOneIsShrunk ==
  ASSUME NEW c, IsCall(c), NEW S \in SUBSET Experts(c), NEW alloc \in [Experts(c) -> Nat],
         NEW k \in Nat, NEW a \in Shrunk(alloc, Experts(c), S, k)
  PROVE  TookOne(c, a, S) \in Shrunk(alloc, Experts(c), S, k + 1)
<1>1. PICK E : E = Experts(c) OBVIOUS
<1>2. IsFiniteSet(S) BY CallIsShaped, FS_Subset
<1>3. /\ a \in [E -> Nat] /\ (\A e \in S : a[e] >= 1)
      /\ Total(a, S) + k <= Total(alloc, S) \/ \A e \in S : a[e] = 1
  BY <1>1 DEF Shrunk
<1>4. CASE Rich(a, S) = {}
  <2>1. \A e \in S : a[e] = 1
    <3> SUFFICES ASSUME NEW e \in S PROVE a[e] = 1 OBVIOUS
    <3>1. a[e] \in Nat /\ a[e] >= 1 /\ ~(a[e] > 1) BY <1>1, <1>3, <1>4 DEF Rich
    <3> QED BY <3>1
  <2> QED BY <1>1, <1>3, <1>4, <2>1 DEF Shrunk, TookOne
<1>5. CASE Rich(a, S) # {}
  <2>1. PICK b \in S : b = Poorest(c, a, S) /\ a[b] > 1
    BY <1>1, <1>3, <1>5, PoorestIsRich DEF Rich
  <2>2. PICK d : d = TookOne(c, a, S) OBVIOUS
  <2>3. d = [a EXCEPT ![b] = @ - 1] BY <1>5, <2>1, <2>2 DEF TookOne
  <2>4. a[b] \in Nat /\ a[b] - 1 \in Nat /\ a[b] - 1 >= 1 /\ b \in E BY <1>1, <1>3, <2>1
  <2>5. d \in [E -> Nat] /\ d[b] = a[b] - 1 /\ \A e \in E \ {b} : d[e] = a[e]
    BY <1>3, <2>3, <2>4
  <2>6. \A e \in S : d[e] >= 1 BY <1>1, <1>3, <2>4, <2>5
  <2>7. PICK R : R = S \ {b} /\ IsFiniteSet(R) BY <1>2, FS_Subset
  <2>8. Total(a, S) = Total(a, R) + a[b] /\ Total(d, S) = Total(d, R) + d[b]
    <3>1. (\A e \in S : a[e] \in Int) /\ \A e \in S : d[e] \in Int BY <1>1, <1>3, <2>5
    <3> QED BY <1>2, <2>7, <3>1, TotalTakesOut
  <2>9. Total(a, R) = Total(d, R)
    <3>1. \A e \in R : a[e] = d[e] BY <1>1, <2>5, <2>7
    <3> QED BY <2>7, <3>1, TotalSame
  <2>10. PICK x \in Nat, y \in Nat, z \in Nat : x = Total(a, R) /\ y = a[b] /\ z = Total(alloc, S)
    <3>1. (\A e \in R : a[e] \in Nat) /\ \A e \in S : alloc[e] \in Nat BY <1>1, <1>3, <2>7
    <3> QED BY <1>2, <2>4, <2>7, <3>1, TotalIsNat
  <2>11. Total(a, S) + k <= Total(alloc, S) BY <1>3, <2>1
  <2>12. Total(d, S) + (k + 1) <= Total(alloc, S) BY <2>4, <2>5, <2>8, <2>9, <2>10, <2>11
  <2> QED BY <1>1, <2>2, <2>5, <2>6, <2>12 DEF Shrunk
<1> QED BY <1>4, <1>5

LEMMA TakesBack ==
  ASSUME NEW c, IsCall(c), NEW S \in SUBSET Experts(c), NEW alloc \in [Experts(c) -> Nat],
         \A e \in S : alloc[e] >= 1,
         NEW z \in Int, NEW n \in Nat, n = (IF z > 0 THEN z ELSE 0)
  PROVE  TakeBack(c, alloc, S, z) \in Shrunk(alloc, Experts(c), S, n)
<1> DEFINE E == Experts(c)
<1> DEFINE res == TakeBack(c, alloc, S, z)
<1> DEFINE seq == [i \in 1 .. z |-> i]
<1> DEFINE IsLoop(g) == g = [s \in SUBSET DOMAIN seq |->
                IF s = {} THEN alloc ELSE TookOne(c, g[s \ {Max(s)}], S)]
<1>1. res = (CHOOSE g : IsLoop(g))[DOMAIN seq]
  BY DEF TakeBack, FoldLeft, MapThenFoldSet, TookOne, Poorest, Rich
<1> HIDE DEF res
<1>3. DOMAIN seq = 1 .. n
  <2>1. 1 .. z = 1 .. n OBVIOUS
  <2> QED BY <2>1
<1>4. \A g : IsLoop(g) <=> g = [s \in SUBSET (1 .. n) |->
                                 IF s = {} THEN alloc ELSE TookOne(c, g[s \ {Max(s)}], S)]
  BY <1>3
<1> HIDE DEF IsLoop, seq
<1>5. PICK D, G : D = {a \in [E -> Nat] : \E k \in Nat : a \in Shrunk(alloc, E, S, k)}
                  /\ G = [p \in D \X (1 .. n) |-> TookOne(c, p[1], S)]
  OBVIOUS
<1>6. \A a \in D : \A i \in 1 .. n : G[<<a, i>>] = TookOne(c, a, S) BY <1>5
<1>7. \A k \in Nat : Shrunk(alloc, E, S, k) \subseteq D BY <1>5 DEF Shrunk
<1>8. \A k \in Nat : \A a \in Shrunk(alloc, E, S, k) : TookOne(c, a, S) \in Shrunk(alloc, E, S, k + 1)
  BY TookOneIsShrunk
<1>9. ASSUME NEW a \in D, NEW i \in 1 .. n PROVE G[<<a, i>>] \in D
  <2>1. PICK k \in Nat : a \in Shrunk(alloc, E, S, k) BY <1>5
  <2>2. k + 1 \in Nat OBVIOUS
  <2> QED BY <1>6, <1>7, <1>8, <2>1, <2>2
<1>10. alloc \in Shrunk(alloc, E, S, 0)
  <2>1. IsFiniteSet(S) BY CallIsShaped, FS_Subset
  <2>2. Total(alloc, S) \in Nat
    <3>1. \A e \in S : alloc[e] \in Nat OBVIOUS
    <3> QED BY <2>1, <3>1, TotalIsNat
  <2>3. Total(alloc, S) + 0 <= Total(alloc, S) BY <2>2
  <2> QED BY <2>3 DEF Shrunk
<1>11. \E g : IsLoop(g)
  <2>1. PICK h : FoldRec(h, G, alloc, n) /\ \A s \in SUBSET (1 .. n) : h[s] \in D
    <3>1. alloc \in D BY <1>7, <1>10
    <3> QED BY <1>9, <3>1, LoopExists
  <2>2. \A s \in SUBSET (1 .. n) : s # {} =>
          G[<<h[s \ {Max(s)}], Max(s)>>] = TookOne(c, h[s \ {Max(s)}], S)
    BY <1>6, <2>1, LoopPlaces
  <2>3. h = [s \in SUBSET (1 .. n) |->
               IF s = {} THEN alloc ELSE TookOne(c, h[s \ {Max(s)}], S)]
    BY <2>1, <2>2 DEF FoldRec
  <2> QED BY <1>4, <2>3
<1>12. PICK g : IsLoop(g) /\ res = g[1 .. n] BY <1>1, <1>3, <1>11
<1>13. Turns(g, G, D, alloc, n)
  <2>1. \A s \in SUBSET (1 .. n) :
          g[s] = IF s = {} THEN alloc ELSE TookOne(c, g[s \ {Max(s)}], S)
    BY <1>4, <1>12
  <2>2. g[{}] = alloc BY <2>1
  <2>3. ASSUME NEW k \in 0 .. n - 1, g[1 .. k] \in D
        PROVE  g[1 .. k + 1] = G[<<g[1 .. k], k + 1>>]
    <3>1. k \in Nat /\ k + 1 \in 1 .. n /\ 1 .. k + 1 \in SUBSET (1 .. n) OBVIOUS
    <3>2. 1 .. k + 1 # {} /\ Max(1 .. k + 1) = k + 1 /\ (1 .. k + 1) \ {k + 1} = 1 .. k
      BY <3>1, LastTurn
    <3>3. g[1 .. k + 1] = TookOne(c, g[1 .. k], S) BY <2>1, <3>1, <3>2
    <3> QED BY <1>6, <2>3, <3>1, <3>3
  <2> QED BY <2>2, <2>3 DEF Turns
<1>14. PICK X : X = [k \in 0 .. n |-> Shrunk(alloc, E, S, k)] OBVIOUS
<1>15. \A k \in 0 .. n : X[k] \subseteq D BY <1>7, <1>14
<1>16. alloc \in X[0]
  <2>1. 0 \in 0 .. n OBVIOUS
  <2> QED BY <1>10, <1>14, <2>1
<1>17. \A k \in 0 .. n - 1 : \A a \in X[k] : G[<<a, k + 1>>] \in X[k + 1]
  <2> SUFFICES ASSUME NEW k \in 0 .. n - 1, NEW a \in X[k] PROVE G[<<a, k + 1>>] \in X[k + 1]
    OBVIOUS
  <2>1. k \in Nat /\ k \in 0 .. n /\ k + 1 \in 0 .. n /\ k + 1 \in 1 .. n OBVIOUS
  <2>2. a \in Shrunk(alloc, E, S, k) /\ X[k + 1] = Shrunk(alloc, E, S, k + 1) BY <1>14, <2>1
  <2> QED BY <1>6, <1>7, <1>8, <2>1, <2>2
<1>18. g[1 .. n] \in X[n]
  <2>1. n \in 0 .. n OBVIOUS
  <2>2. \A k \in 0 .. n : g[1 .. k] \in X[k] BY <1>13, <1>15, <1>16, <1>17, LoopKeeps
  <2> QED BY <2>1, <2>2
<1>19. X[n] = Shrunk(alloc, E, S, n) BY <1>14
<1>20. res \in Shrunk(alloc, E, S, n) BY <1>12, <1>18, <1>19
<1> QED BY <1>20 DEF res

\* What the teams start from: as many threads as each expert wants, or in
\* proportion to its rows.
FirstTeams(c, S, budget) ==
  [e \in Experts(c) |->
     CASE e \in S /\ Total(Wanted(c), S) <= budget -> Wanted(c)[e]
       [] e \in S /\ ~(Total(Wanted(c), S) <= budget) ->
            AtLeastOne((budget * c.M[e]) \div Total(c.M, S))
       [] OTHER -> 0]

LEMMA FirstTeamsStart ==
  ASSUME NEW c, IsCall(c), NEW S \in SUBSET Active(c), NEW budget \in Nat
  PROVE  /\ FirstTeams(c, S, budget) \in [Experts(c) -> Nat]
         /\ \A e \in S : FirstTeams(c, S, budget)[e] >= 1
         /\ \A e \in Experts(c) \ S : FirstTeams(c, S, budget)[e] = 0
<1>1. PICK E : E = Experts(c) OBVIOUS
<1>2. S \subseteq E /\ IsFiniteSet(S) /\ \A e \in S : c.M[e] \in Nat \ {0} /\ e \in Active(c)
  <2>1. S \subseteq Active(c) OBVIOUS
  <2> QED BY <1>1, <2>1, CallIsShaped, FS_Subset
<1>3. Wanted(c) \in [E -> Nat] /\ \A e \in S : Wanted(c)[e] >= 1 BY <1>1, WantsOne
<1>4. PICK f : f = FirstTeams(c, S, budget) OBVIOUS
<1>5. CASE Total(Wanted(c), S) <= budget
  <2>1. f = [e \in E |-> IF e \in S THEN Wanted(c)[e] ELSE 0]
    BY <1>1, <1>4, <1>5 DEF FirstTeams
  <2>2. f \in [E -> Nat] BY <1>3, <2>1
  <2>3. (\A e \in S : f[e] >= 1) /\ \A e \in E \ S : f[e] = 0 BY <1>2, <1>3, <2>1
  <2> QED BY <1>1, <1>4, <2>2, <2>3
<1>6. CASE ~(Total(Wanted(c), S) <= budget)
  <2>1. S # {}
    <3>1. S = {} => Total(Wanted(c), S) = 0 BY TotalOfNone
    <3> QED BY <1>6, <3>1
  <2>2. PICK p \in Nat \ {0} : p = Total(c.M, S)
    <3>1. \A e \in S : c.M[e] \in Nat BY <1>2
    <3>2. Total(c.M, S) \in Nat /\ \A e \in S : c.M[e] <= Total(c.M, S)
      BY <1>2, <3>1, TotalIsNat
    <3>3. PICK e \in S : TRUE BY <2>1
    <3>4. c.M[e] \in Nat \ {0} /\ c.M[e] <= Total(c.M, S) BY <1>2, <3>2
    <3> QED BY <3>2, <3>4
  <2>3. f = [e \in E |-> IF e \in S THEN AtLeastOne((budget * c.M[e]) \div p) ELSE 0]
    BY <1>1, <1>4, <1>6, <2>2 DEF FirstTeams
  <2>4. ASSUME NEW e \in S PROVE f[e] \in Nat /\ f[e] >= 1
    <3>1. PICK x \in Nat : x = budget * c.M[e] BY <1>2
    <3>2. PICK q \in Nat : q = x \div p BY DivBounds
    <3>3. f[e] = AtLeastOne(q) BY <1>2, <2>3, <3>1, <3>2
    <3> QED BY <3>2, <3>3 DEF AtLeastOne
  <2>5. \A e \in E \ S : f[e] = 0 BY <2>3
  <2>6. \A e \in E : f[e] \in Nat BY <2>4, <2>5
  <2>7. f = [e \in E |-> f[e]] BY <2>3
  <2>8. f \in [E -> Nat] BY <2>6, <2>7
  <2> QED BY <1>1, <1>4, <2>4, <2>5, <2>8
<1> QED BY <1>5, <1>6

TeamsFit(a, c, S, budget) ==
  /\ a \in [Experts(c) -> Nat]
  /\ \A e \in S : a[e] >= 1
  /\ Cardinality(S) <= budget => Total(a, S) <= budget

LEMMA TeamsAreMade ==
  ASSUME NEW c, IsCall(c), NEW S \in SUBSET Active(c), NEW budget \in Nat, NEW cap
  PROVE  TeamsFit(Teams(c, S, budget, cap), c, S, budget)
<1>1. PICK E : E = Experts(c) OBVIOUS
<1>2. S \subseteq E /\ IsFiniteSet(S) /\ IsFiniteSet(E)
  <2>1. S \subseteq Active(c) OBVIOUS
  <2> QED BY <1>1, <2>1, CallIsShaped, FS_Subset
<1>3. PICK f : f = FirstTeams(c, S, budget) OBVIOUS
<1>4. f \in [E -> Nat] /\ (\A e \in S : f[e] >= 1) /\ \A e \in E \ S : f[e] = 0
  BY <1>1, <1>3, FirstTeamsStart
<1>5. Total(f, S) \in Nat /\ Total(f, E) = Total(f, S)
  <2>1. (\A e \in E : f[e] \in Nat) /\ \A e \in S : f[e] \in Nat BY <1>2, <1>4
  <2> QED BY <1>2, <1>4, <2>1, TotalIsNat, TotalOfPart
<1>6. PICK z \in Int, n \in Nat : z = budget - Total(f, S) /\ n = IF z > 0 THEN z ELSE 0
  <2>1. PICK z \in Int : z = budget - Total(f, S) BY <1>5
  <2>2. (IF z > 0 THEN z ELSE 0) \in Nat OBVIOUS
  <2> QED BY <2>1, <2>2
<1>7. PICK g : g = ThickestFirst(c, f, cap, S, z) /\ g \in Filled(f, E, n)
  BY <1>2, <1>4, <1>6, ThickestFills
<1>8. g \in [E -> Nat] /\ (\A e \in S : g[e] >= 1) /\ Total(g, S) \in Nat
      /\ Total(g, S) <= Total(f, S) + n
  <2>1. /\ g \in [E -> Nat] /\ (\A e \in E : f[e] <= g[e])
        /\ Total(g, E) <= Total(f, E) + n
    BY <1>7 DEF Filled
  <2>2. ASSUME NEW e \in S PROVE g[e] >= 1
    <3>1. f[e] \in Nat /\ g[e] \in Nat /\ f[e] >= 1 /\ f[e] <= g[e] BY <1>2, <1>4, <2>1
    <3> QED BY <3>1
  <2>3. Total(g, E) \in Nat /\ Total(g, S) \in Nat /\ Total(g, S) <= Total(g, E)
    <3>1. \A e \in E : g[e] \in Nat BY <2>1
    <3>2. S \in SUBSET E BY <1>2
    <3> QED BY <1>2, <3>1, <3>2, TotalIsNat
  <2> QED BY <1>5, <2>1, <2>2, <2>3
<1>9. PICK y \in Int, m \in Nat : y = Total(g, S) - budget /\ m = IF y > 0 THEN y ELSE 0
  <2>1. PICK y \in Int : y = Total(g, S) - budget BY <1>8
  <2>2. (IF y > 0 THEN y ELSE 0) \in Nat OBVIOUS
  <2> QED BY <2>1, <2>2
<1>10. PICK a : a = TakeBack(c, g, S, y) /\ a \in Shrunk(g, E, S, m)
  BY <1>1, <1>2, <1>8, <1>9, TakesBack
<1>11. Teams(c, S, budget, cap) = a
  <2>1. Teams(c, S, budget, cap)
          = TakeBack(c, ThickestFirst(c, FirstTeams(c, S, budget), cap, S,
                                      budget - Total(FirstTeams(c, S, budget), S)), S,
                     Total(ThickestFirst(c, FirstTeams(c, S, budget), cap, S,
                                      budget - Total(FirstTeams(c, S, budget), S)), S) - budget)
    BY DEF Teams, ThickestFirst, FirstTeams
  <2> QED BY <1>3, <1>6, <1>7, <1>9, <1>10, <2>1
<1>12. a \in [E -> Nat] /\ (\A e \in S : a[e] >= 1)
       /\ (Total(a, S) + m <= Total(g, S) \/ \A e \in S : a[e] = 1)
  BY <1>10 DEF Shrunk
<1>13. ASSUME Cardinality(S) <= budget PROVE Total(a, S) <= budget
  <2>1. Total(a, S) \in Nat
    <3>1. \A e \in S : a[e] \in Nat BY <1>2, <1>12
    <3> QED BY <1>2, <3>1, TotalIsNat
  <2>2. CASE Total(a, S) + m <= Total(g, S) BY <1>8, <1>9, <2>1, <2>2
  <2>3. CASE \A e \in S : a[e] = 1
    <3>1. \A e \in S : a[e] = IF e \in {} THEN 1 + 1 ELSE 1 BY <2>3
    <3>2. Total(a, S) = 1 * Cardinality(S) + Cardinality({})
      <4>1. {} \in SUBSET S /\ 1 \in Nat OBVIOUS
      <4> QED BY <1>2, <3>1, <4>1, TotalCounts
    <3>3. Cardinality({}) = 0 /\ Cardinality(S) \in Nat BY <1>2, FS_EmptySet, FS_CardinalityType
    <3> QED BY <1>13, <3>2, <3>3
  <2> QED BY <1>12, <2>2, <2>3
<1>14. TeamsFit(a, c, S, budget) BY <1>1, <1>12, <1>13 DEF TeamsFit
<1> QED BY <1>11, <1>14

(***************************************************************************)
(* The plan: the members of the teams, in order                            *)
(***************************************************************************)

LEMMA InOrderEnumerates ==
  ASSUME NEW S \in SUBSET Nat, IsFiniteSet(S)
  PROVE  Enumerates(InOrder(S), S)
<1>1. PICK R, before : /\ R = {p \in S \X S : p[1] < p[2]}
                       /\ before = [e \in S |-> {f \in S : f < e}]
  OBVIOUS
<1>2. \A e, f \in S : <<e, f>> \in R <=> e < f BY <1>1
<1>3. IsOrder(R, S)
  <2>1. \A e, f, g \in S : ~(e < e) /\ (e < f /\ f < g => e < g) /\ (e # f => e < f \/ f < e)
    <3>1. \A e \in S : e \in Nat OBVIOUS
    <3> QED BY <3>1
  <2>2. \A e \in S : <<e, e>> \notin R BY <1>2, <2>1
  <2>3. \A e, f, g \in S : <<e, f>> \in R /\ <<f, g>> \in R => <<e, g>> \in R BY <1>2, <2>1
  <2>4. \A e, f \in S : e # f => <<e, f>> \in R \/ <<f, e>> \in R BY <1>2, <2>1
  <2> QED BY <2>2, <2>3, <2>4 DEF IsOrder
<1>4. Precedes(before, R, S) BY <1>1, <1>2 DEF Precedes
<1>5. PICK s : s = InOrder(S) OBVIOUS
<1>6. s = [i \in 1 .. Cardinality(S) |->
             CHOOSE e \in S : Cardinality({f \in S : f < e}) = i - 1]
  BY <1>5 DEF InOrder, Sorted
<1>7. TakesByRank(s, before, S)
  <2>1. DOMAIN s = 1 .. Cardinality(S) BY <1>6
  <2>2. ASSUME NEW i \in 1 .. Cardinality(S), \E e \in S : Cardinality(before[e]) = i - 1
        PROVE  s[i] \in S /\ Cardinality(before[s[i]]) = i - 1
    <3>1. PICK e \in S : Cardinality({f \in S : f < e}) = i - 1 BY <1>1, <2>2
    <3>2. s[i] = CHOOSE x \in S : Cardinality({f \in S : f < x}) = i - 1 BY <1>6
    <3>3. s[i] \in S /\ Cardinality({f \in S : f < s[i]}) = i - 1 BY <3>1, <3>2
    <3> QED BY <1>1, <3>3
  <2> QED BY <2>1, <2>2 DEF TakesByRank
<1>8. Enumerates(s, S) BY <1>3, <1>4, <1>7, RanksEnumerate
<1> QED BY <1>5, <1>8

IsConcat(q, m, w, S) ==
  /\ q \in Seq(S) /\ Len(q) = Len(m) + Len(w)
  /\ \A i \in 1 .. Len(m) : q[i] = m[i]
  /\ \A k \in 1 .. Len(w) : q[Len(m) + k] = w[k]

LEMMA ConcatPlaces ==
  ASSUME NEW S, NEW m \in Seq(S), NEW w \in Seq(S)
  PROVE  IsConcat(m \o w, m, w, S)
<1>1. PICK q : q = m \o w OBVIOUS
<1>2. q \in Seq(S) /\ Len(q) = Len(m) + Len(w) BY <1>1
<1>3. \A i \in 1 .. Len(m) + Len(w) : q[i] = IF i <= Len(m) THEN m[i] ELSE w[i - Len(m)]
  BY <1>1
<1>4. Len(m) \in Nat /\ Len(w) \in Nat OBVIOUS
<1>5. \A i \in 1 .. Len(m) : i \in 1 .. Len(m) + Len(w) /\ i <= Len(m) BY <1>4
<1>6. \A k \in 1 .. Len(w) : /\ Len(m) + k \in 1 .. Len(m) + Len(w) /\ ~(Len(m) + k <= Len(m))
                             /\ (Len(m) + k) - Len(m) = k
  BY <1>4
<1>7. IsConcat(q, m, w, S) BY <1>2, <1>3, <1>5, <1>6 DEF IsConcat
<1> QED BY <1>1, <1>7

Member == [e : Nat, k : Nat, n : Nat]
Team(a, e) == [k \in 1 .. a[e] |-> [e |-> e, k |-> k - 1, n |-> a[e]]]

\* The members of the teams of T: every place of every team once.
IsRoll(m, a, T) ==
  /\ m \in Seq(Member) /\ Len(m) = Total(a, T)
  /\ \A i \in 1 .. Len(m) :
       /\ m[i].e \in T /\ m[i].k \in 0 .. a[m[i].e] - 1 /\ m[i].n = a[m[i].e]
  /\ \A i, j \in 1 .. Len(m) : m[i].e = m[j].e /\ m[i].k = m[j].k => i = j
  /\ \A e \in T : \A k \in 0 .. a[e] - 1 : \E i \in 1 .. Len(m) : m[i].e = e /\ m[i].k = k

LEMMA RollGrows ==
  ASSUME NEW E \in SUBSET Nat, NEW a \in [E -> Nat], NEW T \in SUBSET E, IsFiniteSet(T),
         NEW m, IsRoll(m, a, T), NEW e \in E \ T
  PROVE  IsRoll(m \o Team(a, e), a, T \cup {e})
<1>1. PICK n \in Nat : n = a[e] OBVIOUS
<1>2. PICK w : w = Team(a, e) /\ w = [k \in 1 .. n |-> [e |-> e, k |-> k - 1, n |-> n]]
  BY <1>1 DEF Team
<1>3. w \in Seq(Member) /\ Len(w) = n
      /\ \A k \in 1 .. n : w[k].e = e /\ w[k].k = k - 1 /\ w[k].n = n
  <2>1. \A k \in 1 .. n : [e |-> e, k |-> k - 1, n |-> n] \in Member BY DEF Member
  <2>2. w \in Seq(Member) /\ Len(w) = n BY <1>2, <2>1
  <2> QED BY <1>2, <2>2
<1>4. PICK l \in Nat : l = Len(m) /\ m \in Seq(Member) /\ l = Total(a, T) BY DEF IsRoll
<1>5. PICK q : q = m \o w OBVIOUS
<1>6. /\ q \in Seq(Member) /\ Len(q) = l + n
      /\ \A i \in 1 .. l : q[i] = m[i]
      /\ \A k \in 1 .. n : q[l + k] = w[k]
  <2>1. m \in Seq(Member) /\ w \in Seq(Member) BY <1>3, <1>4
  <2>2. IsConcat(q, m, w, Member) BY <1>5, <2>1, ConcatPlaces
  <2> QED BY <1>3, <1>4, <2>2 DEF IsConcat
<1>7. \A i \in 1 .. l + n : i \in 1 .. l \/ \E k \in 1 .. n : i = l + k
  <2> SUFFICES ASSUME NEW i \in 1 .. l + n, i \notin 1 .. l PROVE \E k \in 1 .. n : i = l + k
    OBVIOUS
  <2>1. i - l \in 1 .. n /\ i = l + (i - l) OBVIOUS
  <2> QED BY <2>1
<1>8. Total(a, T \cup {e}) = l + n
  <2>1. \A y \in T \cup {e} : a[y] \in Int OBVIOUS
  <2>2. e \notin T OBVIOUS
  <2>3. Total(a, T \cup {e}) = Total(a, T) + a[e] BY <2>1, <2>2, TotalAdds
  <2> QED BY <1>1, <1>4, <2>3
<1>9. /\ \A i \in 1 .. l :
           /\ m[i].e \in T /\ m[i].k \in 0 .. a[m[i].e] - 1 /\ m[i].n = a[m[i].e]
      /\ \A i, j \in 1 .. l : m[i].e = m[j].e /\ m[i].k = m[j].k => i = j
      /\ \A f \in T : \A k \in 0 .. a[f] - 1 : \E i \in 1 .. l : m[i].e = f /\ m[i].k = k
  BY <1>4 DEF IsRoll
<1>10. ASSUME NEW i \in 1 .. l + n
       PROVE  /\ q[i].e \in T \cup {e} /\ q[i].k \in 0 .. a[q[i].e] - 1 /\ q[i].n = a[q[i].e]
              /\ i \in 1 .. l => q[i].e # e
              /\ i \notin 1 .. l => q[i].e = e /\ q[i].k = (i - l) - 1
  <2>1. CASE i \in 1 .. l BY <1>6, <1>9, <2>1
  <2>2. CASE i \notin 1 .. l
    <3>1. PICK k \in 1 .. n : i = l + k BY <1>7, <2>2
    <3>2. q[i].e = e /\ q[i].k = k - 1 /\ q[i].n = n BY <1>3, <1>6, <3>1
    <3>3. k - 1 \in 0 .. n - 1 /\ i - l = k BY <3>1
    <3> QED BY <1>1, <2>2, <3>2, <3>3
  <2> QED BY <2>1, <2>2
<1>11. \A i, j \in 1 .. l + n : q[i].e = q[j].e /\ q[i].k = q[j].k => i = j
  <2> SUFFICES ASSUME NEW i \in 1 .. l + n, NEW j \in 1 .. l + n,
                      q[i].e = q[j].e, q[i].k = q[j].k
               PROVE  i = j
    OBVIOUS
  <2>1. i \in 1 .. l <=> j \in 1 .. l BY <1>10
  <2>2. CASE i \in 1 .. l BY <1>6, <1>9, <2>1, <2>2
  <2>3. CASE i \notin 1 .. l
    <3>1. (i - l) - 1 = (j - l) - 1 BY <1>10, <2>1, <2>3
    <3> QED BY <3>1
  <2> QED BY <2>2, <2>3
<1>12. ASSUME NEW f \in T \cup {e}, NEW k \in 0 .. a[f] - 1
       PROVE  \E i \in 1 .. l + n : q[i].e = f /\ q[i].k = k
  <2>1. CASE f \in T
    <3>1. PICK i \in 1 .. l : m[i].e = f /\ m[i].k = k BY <1>9, <2>1
    <3>2. i \in 1 .. l + n OBVIOUS
    <3> QED BY <1>6, <3>1, <3>2
  <2>2. CASE f = e
    <3>1. k + 1 \in 1 .. n /\ l + (k + 1) \in 1 .. l + n /\ (k + 1) - 1 = k BY <1>1, <2>2
    <3>2. q[l + (k + 1)].e = e /\ q[l + (k + 1)].k = k BY <1>3, <1>6, <3>1
    <3> QED BY <2>2, <3>1, <3>2
  <2> QED BY <2>1, <2>2
<1>13. IsRoll(q, a, T \cup {e}) BY <1>6, <1>8, <1>10, <1>11, <1>12 DEF IsRoll
<1> QED BY <1>2, <1>5, <1>13

LEMMA TeamIsMembers ==
  ASSUME NEW E \in SUBSET Nat, NEW a \in [E -> Nat], NEW e \in E, NEW m \in Seq(Member)
  PROVE  m \o Team(a, e) \in Seq(Member)
<1>1. PICK n \in Nat : n = a[e] OBVIOUS
<1>2. PICK w : w = Team(a, e) /\ w = [k \in 1 .. n |-> [e |-> e, k |-> k - 1, n |-> n]]
  BY <1>1 DEF Team
<1>3. w \in Seq(Member)
  <2>1. \A k \in 1 .. n : [e |-> e, k |-> k - 1, n |-> n] \in Member BY DEF Member
  <2> QED BY <1>2, <2>1
<1>4. IsConcat(m \o w, m, w, Member) BY <1>3, ConcatPlaces
<1> QED BY <1>2, <1>4 DEF IsConcat

LEMMA MembersAreRoll ==
  ASSUME NEW E \in SUBSET Nat, NEW S \in SUBSET E, IsFiniteSet(S), NEW a \in [E -> Nat]
  PROVE  IsRoll(Members(S, a), a, S)
<1> DEFINE res == Members(S, a)
<1> DEFINE order == InOrder(S)
<1> DEFINE IsLoop(g) == g = [s \in SUBSET DOMAIN order |->
                IF s = {} THEN <<>> ELSE g[s \ {Max(s)}] \o Team(a, order[Max(s)])]
<1>1. res = (CHOOSE g : IsLoop(g))[DOMAIN order]
  BY DEF Members, FoldLeft, MapThenFoldSet, Team
<1>2. S \in SUBSET Nat OBVIOUS
<1>3. Enumerates(order, S) BY <1>2, InOrderEnumerates
<1>4. PICK n \in Nat : n = Cardinality(S) /\ DOMAIN order = 1 .. n
  BY <1>3, FS_CardinalityType DEF Enumerates
<1> HIDE DEF res, order
<1>5. \A g : IsLoop(g) <=> g = [s \in SUBSET (1 .. n) |->
                IF s = {} THEN <<>> ELSE g[s \ {Max(s)}] \o Team(a, order[Max(s)])]
  BY <1>4
<1> HIDE DEF IsLoop
<1>6. PICK D, G : D = Seq(Member) /\ G = [p \in D \X (1 .. n) |-> p[1] \o Team(a, order[p[2]])]
  OBVIOUS
<1>7. \A m \in D : \A i \in 1 .. n : G[<<m, i>>] = m \o Team(a, order[i]) BY <1>6
<1>8. \A i \in 1 .. n : order[i] \in S /\ order[i] \in E BY <1>3, <1>4 DEF Enumerates
<1>9. \A m \in D : \A i \in 1 .. n : G[<<m, i>>] \in D
  <2> SUFFICES ASSUME NEW m \in D, NEW i \in 1 .. n PROVE G[<<m, i>>] \in D OBVIOUS
  <2>1. PICK e \in E : e = order[i] BY <1>8
  <2>2. m \o Team(a, e) \in Seq(Member) BY <1>6, TeamIsMembers
  <2> QED BY <1>6, <1>7, <2>1, <2>2
<1>10. <<>> \in D BY <1>6
<1>11. \E g : IsLoop(g)
  <2>1. PICK h : FoldRec(h, G, <<>>, n) /\ \A s \in SUBSET (1 .. n) : h[s] \in D
    BY <1>9, <1>10, LoopExists
  <2>2. \A s \in SUBSET (1 .. n) : s # {} =>
          G[<<h[s \ {Max(s)}], Max(s)>>] = h[s \ {Max(s)}] \o Team(a, order[Max(s)])
    <3> SUFFICES ASSUME NEW s \in SUBSET (1 .. n), s # {}
                 PROVE  G[<<h[s \ {Max(s)}], Max(s)>>] = h[s \ {Max(s)}] \o Team(a, order[Max(s)])
      OBVIOUS
    <3>1. Max(s) \in 1 .. n /\ s \ {Max(s)} \in SUBSET (1 .. n) BY LoopPlaces
    <3>2. h[s \ {Max(s)}] \in D BY <2>1, <3>1
    <3> QED BY <1>7, <3>1, <3>2
  <2>3. h = [s \in SUBSET (1 .. n) |->
               IF s = {} THEN <<>> ELSE h[s \ {Max(s)}] \o Team(a, order[Max(s)])]
    BY <2>1, <2>2 DEF FoldRec
  <2> QED BY <1>5, <2>3
<1>12. PICK g : IsLoop(g) /\ res = g[1 .. n] BY <1>1, <1>4, <1>11
<1>13. Turns(g, G, D, <<>>, n)
  <2>1. g = [s \in SUBSET (1 .. n) |->
               IF s = {} THEN <<>> ELSE g[s \ {Max(s)}] \o Team(a, order[Max(s)])]
    BY <1>5, <1>12
  <2>2. g[{}] = <<>> BY <2>1
  <2>3. ASSUME NEW k \in 0 .. n - 1, g[1 .. k] \in D
        PROVE  g[1 .. k + 1] = G[<<g[1 .. k], k + 1>>]
    <3>1. k \in Nat /\ k + 1 \in 1 .. n /\ 1 .. k + 1 \in SUBSET (1 .. n) OBVIOUS
    <3>2. 1 .. k + 1 # {} /\ Max(1 .. k + 1) = k + 1 /\ (1 .. k + 1) \ {k + 1} = 1 .. k
      BY <3>1, LastTurn
    <3>3. g[1 .. k + 1] = g[1 .. k] \o Team(a, order[k + 1])
      <4>1. PICK s : s = 1 .. k + 1 OBVIOUS
      <4>2. g[s] = g[s \ {Max(s)}] \o Team(a, order[Max(s)]) BY <2>1, <3>1, <3>2, <4>1
      <4> QED BY <3>2, <4>1, <4>2
    <3> QED BY <1>7, <2>3, <3>1, <3>3
  <2> QED BY <2>2, <2>3 DEF Turns
<1>14. PICK first : first = [k \in 0 .. n |-> {order[j] : j \in 1 .. k}] OBVIOUS
<1>15. PICK X : X = [k \in 0 .. n |-> {m \in D : IsRoll(m, a, first[k])}] OBVIOUS
<1>16. \A k \in 0 .. n : X[k] \subseteq D BY <1>15
<1>17. <<>> \in X[0]
  <2>1. 0 \in 0 .. n /\ first[0] = {}
    <3>1. 1 .. 0 = {} /\ 0 \in 0 .. n OBVIOUS
    <3> QED BY <1>14, <3>1
  <2>2. Total(a, {}) = 0 /\ <<>> \in Seq(Member) /\ Len(<<>>) = 0 /\ 1 .. 0 = {} BY TotalOfNone
  <2>3. IsRoll(<<>>, a, {}) BY <2>2 DEF IsRoll
  <2> QED BY <1>10, <1>15, <2>1, <2>3
<1>18. \A k \in 0 .. n - 1 : \A m \in X[k] : G[<<m, k + 1>>] \in X[k + 1]
  <2> SUFFICES ASSUME NEW k \in 0 .. n - 1, NEW m \in X[k] PROVE G[<<m, k + 1>>] \in X[k + 1]
    OBVIOUS
  <2>1. k \in Nat /\ k \in 0 .. n /\ k + 1 \in 0 .. n /\ k + 1 \in 1 .. n OBVIOUS
  <2>2. PICK T : T = first[k] OBVIOUS
  <2>3. m \in D /\ IsRoll(m, a, T) BY <1>15, <2>1, <2>2
  <2>4. PICK e \in S : e = order[k + 1] BY <1>8, <2>1
  <2>5. T \subseteq S
    <3>1. \A j \in 1 .. k : j \in 1 .. n OBVIOUS
    <3> QED BY <1>8, <1>14, <2>1, <2>2, <3>1
  <2>6. e \notin T
    <3>1. \A j \in 1 .. k : j \in 1 .. n /\ j # k + 1 OBVIOUS
    <3>2. \A j \in 1 .. k : order[j] # order[k + 1]
      BY <1>3, <1>4, <2>1, <3>1 DEF Enumerates
    <3> QED BY <1>14, <2>1, <2>2, <2>4, <3>2
  <2>7. first[k + 1] = T \cup {e}
    <3>1. 1 .. k + 1 = (1 .. k) \cup {k + 1} BY <2>1
    <3> QED BY <1>14, <2>1, <2>2, <2>4, <3>1
  <2>8. IsRoll(m \o Team(a, e), a, T \cup {e})
    <3>1. T \in SUBSET E /\ IsFiniteSet(T) /\ e \in E \ T BY <2>5, <2>6, FS_Subset
    <3> QED BY <2>3, <3>1, RollGrows
  <2>9. G[<<m, k + 1>>] = m \o Team(a, e) BY <1>7, <2>1, <2>3, <2>4
  <2>10. G[<<m, k + 1>>] \in D BY <1>9, <2>1, <2>3
  <2> QED BY <1>15, <2>1, <2>7, <2>8, <2>9, <2>10
<1>19. g[1 .. n] \in X[n]
  <2>1. n \in 0 .. n OBVIOUS
  <2>2. \A k \in 0 .. n : g[1 .. k] \in X[k] BY <1>10, <1>13, <1>16, <1>17, <1>18, LoopKeeps
  <2> QED BY <2>1, <2>2
<1>20. first[n] = S
  <2>1. first[n] = {order[j] : j \in 1 .. n} BY <1>14
  <2>2. \A e \in S : \E j \in 1 .. n : order[j] = e BY <1>3, <1>4 DEF Enumerates
  <2> QED BY <1>8, <2>1, <2>2
<1>21. IsRoll(res, a, S)
  <2>1. X[n] = {m \in D : IsRoll(m, a, first[n])} BY <1>15
  <2> QED BY <1>12, <1>19, <1>20, <2>1
<1> QED BY <1>21 DEF res

(***************************************************************************)
(* The plan: slices                                                        *)
(***************************************************************************)

SliceFor(c, m) == SliceOf(c, m.e, m.k, m.n)
RowsOf(x, c, S) ==
  x.e \in S /\ x.lo \in Nat /\ x.hi \in Nat /\ x.lo < x.hi /\ x.hi <= c.M[x.e]
\* Nothing, or some rows of an expert of S.
IsLot(s, c, S) == s = <<>> \/ \E x : s = <<x>> /\ RowsOf(x, c, S)
LotsApart(s, t) == s # <<>> /\ t # <<>> => Apart(s[1], t[1])
LotHolds(s, e, m) == s # <<>> /\ Holds(s[1], e, m)

LEMMA SliceIsLot ==
  ASSUME NEW c, IsCall(c), NEW e \in Experts(c), NEW n \in Nat \ {0}
  PROVE  /\ \A k \in 0 .. n - 1 : IsLot(SliceOf(c, e, k, n), c, {e})
         /\ \A k, l \in 0 .. n - 1 :
              k # l => LotsApart(SliceOf(c, e, k, n), SliceOf(c, e, l, n))
         /\ \A m \in 0 .. c.M[e] - 1 : \E k \in 0 .. n - 1 : LotHolds(SliceOf(c, e, k, n), e, m)
<1>1. PICK N \in Nat : N = c.M[e] BY CallIsShaped
<1>2. PICK s : s = EvenSpans(N, n) /\ IsSplit(N, n, s) BY EvenSplit
<1>3. /\ \A k \in 0 .. n - 1 :
            /\ s[k][1] \in Nat /\ s[k][2] \in Nat
            /\ s[k][1] <= s[k][2] /\ s[k][2] <= N
      /\ \A k, l \in 0 .. n - 1 : k < l => s[k][2] <= s[l][1]
      /\ \A x \in 0 .. N - 1 : \E k \in 0 .. n - 1 : s[k][1] <= x /\ x < s[k][2]
  BY <1>2 DEF IsSplit
<1>4. \A k \in 0 .. n - 1 : s[k][1] = (N * k) \div n /\ s[k][2] = (N * (k + 1)) \div n
  BY <1>2 DEF EvenSpans
<1>5. \A k \in 0 .. n - 1 :
        SliceOf(c, e, k, n)
          = IF s[k][1] < s[k][2] THEN <<[e |-> e, lo |-> s[k][1], hi |-> s[k][2]]>> ELSE <<>>
  BY <1>1, <1>4 DEF SliceOf
<1>6. ASSUME NEW k \in 0 .. n - 1
      PROVE  /\ IsLot(SliceOf(c, e, k, n), c, {e})
             /\ SliceOf(c, e, k, n) # <<>> <=> s[k][1] < s[k][2]
             /\ SliceOf(c, e, k, n) # <<>> =>
                  /\ SliceOf(c, e, k, n)[1].e = e
                  /\ SliceOf(c, e, k, n)[1].lo = s[k][1] /\ SliceOf(c, e, k, n)[1].hi = s[k][2]
  <2>1. PICK lo \in Nat, hi \in Nat : lo = s[k][1] /\ hi = s[k][2] /\ lo <= hi /\ hi <= N
    BY <1>3
  <2>2. PICK x : x = [e |-> e, lo |-> lo, hi |-> hi] OBVIOUS
  <2>3. x.e = e /\ x.lo = lo /\ x.hi = hi BY <2>2
  <2>4. PICK y : y = SliceOf(c, e, k, n) /\ y = IF lo < hi THEN <<x>> ELSE <<>>
    BY <1>5, <2>1, <2>2
  <2>5. lo < hi => RowsOf(x, c, {e}) BY <1>1, <2>1, <2>3 DEF RowsOf
  <2>6. <<x>> # <<>> /\ <<x>>[1] = x OBVIOUS
  <2>7. IsLot(y, c, {e}) BY <2>4, <2>5 DEF IsLot
  <2>8. y # <<>> <=> lo < hi BY <2>4, <2>6
  <2>9. y # <<>> => y[1] = x BY <2>4, <2>6
  <2> QED BY <2>1, <2>3, <2>4, <2>7, <2>8, <2>9
<1>7. ASSUME NEW k \in 0 .. n - 1, NEW l \in 0 .. n - 1, k # l
      PROVE  LotsApart(SliceOf(c, e, k, n), SliceOf(c, e, l, n))
  <2>1. k < l \/ l < k BY <1>7
  <2>2. s[k][2] <= s[l][1] \/ s[l][2] <= s[k][1] BY <1>3, <2>1
  <2> QED BY <1>6, <2>2 DEF LotsApart, Apart
<1>8. ASSUME NEW m \in 0 .. N - 1
      PROVE  \E k \in 0 .. n - 1 : LotHolds(SliceOf(c, e, k, n), e, m)
  <2>1. PICK k \in 0 .. n - 1 : s[k][1] <= m /\ m < s[k][2] BY <1>3
  <2>2. s[k][1] < s[k][2]
    <3>1. s[k][1] \in Nat /\ s[k][2] \in Nat /\ m \in Nat BY <1>3
    <3> QED BY <2>1, <3>1
  <2>3. LotHolds(SliceOf(c, e, k, n), e, m) BY <1>6, <2>1, <2>2 DEF LotHolds, Holds
  <2> QED BY <2>3
<1> QED BY <1>1, <1>6, <1>7, <1>8

\* The lots w share no row and hold every row of the experts of S.
AreLots(w, l, c, S) ==
  /\ DOMAIN w = 1 .. l
  /\ \A i \in 1 .. l : IsLot(w[i], c, S)
  /\ \A i, j \in 1 .. l : i # j => LotsApart(w[i], w[j])
HoldAll(w, l, c, S) == \A e \in S : \A m \in 0 .. c.M[e] - 1 : \E i \in 1 .. l : LotHolds(w[i], e, m)

LEMMA RollIsSliced ==
  ASSUME NEW c, IsCall(c), NEW S \in SUBSET Experts(c), NEW a \in [Experts(c) -> Nat],
         \A e \in S : a[e] >= 1, NEW m, IsRoll(m, a, S), NEW l \in Nat, l = Len(m),
         NEW w, w = [i \in 1 .. l |-> SliceFor(c, m[i])]
  PROVE  AreLots(w, l, c, S) /\ HoldAll(w, l, c, S)
<1>1. \A i \in 1 .. l :
        /\ m[i].e \in S /\ m[i].k \in 0 .. a[m[i].e] - 1 /\ m[i].n = a[m[i].e]
        /\ w[i] = SliceOf(c, m[i].e, m[i].k, a[m[i].e])
  BY DEF IsRoll, SliceFor
<1>2. \A e \in S : e \in Experts(c) /\ a[e] \in Nat \ {0} OBVIOUS
<1>3. ASSUME NEW e \in S
      PROVE  /\ \A k \in 0 .. a[e] - 1 : IsLot(SliceOf(c, e, k, a[e]), c, {e})
             /\ \A k, h \in 0 .. a[e] - 1 :
                  k # h => LotsApart(SliceOf(c, e, k, a[e]), SliceOf(c, e, h, a[e]))
             /\ \A r \in 0 .. c.M[e] - 1 :
                  \E k \in 0 .. a[e] - 1 : LotHolds(SliceOf(c, e, k, a[e]), e, r)
  <2>1. PICK n \in Nat \ {0} : n = a[e] BY <1>2
  <2>2. e \in Experts(c) OBVIOUS
  <2>3. /\ \A k \in 0 .. n - 1 : IsLot(SliceOf(c, e, k, n), c, {e})
        /\ \A k, h \in 0 .. n - 1 :
             k # h => LotsApart(SliceOf(c, e, k, n), SliceOf(c, e, h, n))
        /\ \A r \in 0 .. c.M[e] - 1 : \E k \in 0 .. n - 1 : LotHolds(SliceOf(c, e, k, n), e, r)
    BY <2>2, SliceIsLot
  <2> QED BY <2>1, <2>3
<1>4. ASSUME NEW i \in 1 .. l PROVE IsLot(w[i], c, S) /\ (w[i] # <<>> => w[i][1].e = m[i].e)
  <2>1. PICK e \in S : e = m[i].e BY <1>1
  <2>2. IsLot(w[i], c, {e})
    <3>1. PICK k \in 0 .. a[e] - 1 : k = m[i].k BY <1>1, <2>1
    <3>2. IsLot(SliceOf(c, e, k, a[e]), c, {e}) BY <1>3
    <3>3. w[i] = SliceOf(c, e, k, a[e]) BY <1>1, <2>1, <3>1
    <3> QED BY <3>2, <3>3
  <2>3. CASE w[i] = <<>> BY <2>3 DEF IsLot
  <2>4. CASE w[i] # <<>>
    <3>1. PICK x : w[i] = <<x>> /\ RowsOf(x, c, {e}) BY <2>2, <2>4 DEF IsLot
    <3>2. RowsOf(x, c, S) /\ x.e = e BY <3>1 DEF RowsOf
    <3>3. w[i][1] = x BY <3>1
    <3> QED BY <2>1, <3>1, <3>2, <3>3 DEF IsLot
  <2> QED BY <2>3, <2>4
<1>5. ASSUME NEW i \in 1 .. l, NEW j \in 1 .. l, i # j PROVE LotsApart(w[i], w[j])
  <2>1. CASE m[i].e # m[j].e BY <1>4, <2>1 DEF LotsApart, Apart
  <2>2. CASE m[i].e = m[j].e
    <3>1. m[i].k # m[j].k BY <1>5, <2>2 DEF IsRoll
    <3>2. PICK e \in S : e = m[i].e BY <1>1
    <3>3. PICK k \in 0 .. a[e] - 1 : k = m[i].k BY <1>1, <3>2
    <3>4. PICK h \in 0 .. a[e] - 1 : h = m[j].k BY <1>1, <2>2, <3>2
    <3>5. LotsApart(SliceOf(c, e, k, a[e]), SliceOf(c, e, h, a[e])) BY <1>3, <3>1, <3>3, <3>4
    <3>6. w[i] = SliceOf(c, e, k, a[e]) BY <1>1, <3>2, <3>3
    <3>7. w[j] = SliceOf(c, e, h, a[e]) BY <1>1, <2>2, <3>2, <3>4
    <3> QED BY <3>5, <3>6, <3>7
  <2> QED BY <2>1, <2>2
<1>6. ASSUME NEW e \in S, NEW r \in 0 .. c.M[e] - 1 PROVE \E i \in 1 .. l : LotHolds(w[i], e, r)
  <2>1. PICK k \in 0 .. a[e] - 1 : LotHolds(SliceOf(c, e, k, a[e]), e, r) BY <1>3
  <2>2. PICK i \in 1 .. l : m[i].e = e /\ m[i].k = k BY <2>1 DEF IsRoll
  <2> QED BY <1>1, <2>1, <2>2
<1>7. DOMAIN w = 1 .. l OBVIOUS
<1> QED BY <1>4, <1>5, <1>6, <1>7 DEF AreLots, HoldAll

(***************************************************************************)
(* The plan: seats                                                         *)
(***************************************************************************)

LEMMA LeastIsIn ==
  ASSUME NEW S \in SUBSET Nat, S # {}
  PROVE  Min(S) \in S
<1>1. PICK m \in S : \A x \in S : m <= x BY LeastOf
<1> QED BY <1>1 DEF Min

\* Going round the CCDs from any of them meets every one.
LEMMA RingMeetsAll ==
  ASSUME NEW n \in Nat \ {0}, NEW p \in Nat, NEW q \in 0 .. n - 1
  PROVE  \E k \in 0 .. n - 1 : (p + k) % n = q
<1>1. PICK d \in Nat, r \in 0 .. n - 1 : p = n * d + r
  <2>1. p \div n \in Nat /\ p % n \in 0 .. n - 1 /\ p = n * (p \div n) + (p % n) OBVIOUS
  <2> QED BY <2>1
<1>2. n * d \in Nat /\ n * (d + 1) = n * d + n /\ n * (d + 1) \in Nat OBVIOUS
<1>3. CASE r <= q
  <2>1. PICK k \in 0 .. n - 1 : k = q - r BY <1>3
  <2>2. PICK a \in Nat : a = p + k OBVIOUS
  <2>3. a = n * d + q BY <1>1, <1>2, <2>1, <2>2
  <2>4. a % n = q BY <2>3, DivIs
  <2> QED BY <2>2, <2>4
<1>4. CASE q < r
  <2>1. PICK k \in 0 .. n - 1 : k = (n + q) - r BY <1>4
  <2>2. PICK a \in Nat : a = p + k OBVIOUS
  <2>3. a = n * (d + 1) + q BY <1>1, <1>2, <2>1, <2>2
  <2>4. d + 1 \in Nat OBVIOUS
  <2>5. a % n = q BY <2>3, <2>4, DivIs
  <2> QED BY <2>2, <2>5
<1> QED BY <1>3, <1>4

\* A member takes a free thread, unless there is none: the ring reaches
\* every CCD.
TakesSeat(after, seats, lot, T) ==
  \/ after = seats /\ \A t \in 1 .. T : seats[t] # <<>>
  \/ \E t \in 1 .. T : seats[t] = <<>> /\ after = [seats EXCEPT ![t] = lot]

LEMMA SeatTakesFree ==
  ASSUME NEW c, IsCall(c), NEW m, NEW seats
  PROVE  TakesSeat(Seat(c, seats, m), seats, SliceFor(c, m), c.threads)
<1> DEFINE ring(k) == (ActivePos(c, m.e) + k) % NumCcds(c)
           free(k) == {t \in CcdThreads(c, ring(k)) : seats[t] = <<>>}
           open == {k \in 0 .. NumCcds(c) - 1 : free(k) # {}}
<1>1. PICK n \in Nat \ {0}, T \in Nat \ {0} : n = NumCcds(c) /\ T = c.threads
  BY CallIsShaped, CcdsHoldThreads
<1>2. ActivePos(c, m.e) \in Nat
  <2>1. PICK S : S = {f \in Active(c) : f < m.e} OBVIOUS
  <2>2. IsFiniteSet(S) BY <2>1, CallIsShaped, FS_Subset
  <2> QED BY <2>1, <2>2, FS_CardinalityType DEF ActivePos
<1>3. Seat(c, seats, m)
        = IF open = {} THEN seats ELSE [seats EXCEPT ![Min(free(Min(open)))] = SliceFor(c, m)]
  BY DEF Seat, SliceFor
<1>4. \A k : free(k) \subseteq 1 .. T /\ \A t \in free(k) : seats[t] = <<>>
  BY <1>1 DEF CcdThreads
<1>5. CASE open = {}
  <2>1. ASSUME NEW t \in 1 .. T, seats[t] = <<>> PROVE FALSE
    <3>1. PICK q \in 0 .. n - 1 : q = (t - 1) \div CcdSize(c) BY <1>1, CcdsHoldThreads
    <3>2. PICK k \in 0 .. n - 1 : ring(k) = q BY <1>1, <1>2, RingMeetsAll
    <3>3. t \in CcdThreads(c, q) BY <1>1, <3>1 DEF CcdThreads
    <3>4. t \in free(k) BY <2>1, <3>2, <3>3
    <3>5. k \in open BY <1>1, <3>4
    <3> QED BY <1>5, <3>5
  <2> QED BY <1>1, <1>3, <1>5, <2>1 DEF TakesSeat
<1>6. CASE open # {}
  <2>1. open \in SUBSET Nat BY <1>1
  <2>2. PICK k : k = Min(open) /\ k \in open BY <1>6, <2>1, LeastIsIn
  <2>3. free(k) # {} BY <2>2
  <2>4. free(k) \in SUBSET Nat BY <1>4
  <2> HIDE DEF free
  <2>5. PICK t : t = Min(free(k)) /\ t \in free(k) BY <2>3, <2>4, LeastIsIn
  <2>6. t \in 1 .. T /\ seats[t] = <<>> BY <1>4, <2>5
  <2>7. Seat(c, seats, m) = [seats EXCEPT ![t] = SliceFor(c, m)] BY <1>3, <1>6, <2>2, <2>5
  <2> QED BY <1>1, <2>6, <2>7 DEF TakesSeat
<1> QED BY <1>5, <1>6

\* After k members: the threads hold lots of theirs, no two the same, and
\* every lot of theirs is held if the team has a thread for each of the l.
Taken(seats, T) == {t \in 1 .. T : seats[t] # <<>>}
Seated(seats, w, T, l, k) ==
  /\ DOMAIN seats = 1 .. T
  /\ \A t \in 1 .. T : seats[t] = <<>> \/ \E i \in 1 .. k : seats[t] = w[i]
  /\ \A t, u \in 1 .. T : t # u => LotsApart(seats[t], seats[u])
  /\ Cardinality(Taken(seats, T)) <= k
  /\ l <= T => \A i \in 1 .. k : w[i] = <<>> \/ \E t \in 1 .. T : seats[t] = w[i]

LEMMA SeatIsSeated ==
  ASSUME NEW T \in Nat, NEW l \in Nat, NEW w,
         \A i, j \in 1 .. l : i # j => LotsApart(w[i], w[j]),
         NEW k \in 0 .. l - 1, NEW seats, Seated(seats, w, T, l, k),
         NEW after, TakesSeat(after, seats, w[k + 1], T)
  PROVE  Seated(after, w, T, l, k + 1)
<1>1. /\ DOMAIN seats = 1 .. T
      /\ \A t \in 1 .. T : seats[t] = <<>> \/ \E i \in 1 .. k : seats[t] = w[i]
      /\ \A t, u \in 1 .. T : t # u => LotsApart(seats[t], seats[u])
      /\ Cardinality(Taken(seats, T)) <= k
      /\ l <= T => \A i \in 1 .. k : w[i] = <<>> \/ \E t \in 1 .. T : seats[t] = w[i]
  BY DEF Seated
<1>2. k + 1 \in 1 .. l /\ \A i \in 1 .. k : i \in 1 .. l /\ i \in 1 .. k + 1 /\ i # k + 1 OBVIOUS
<1>3. IsFiniteSet(1 .. T) /\ Cardinality(1 .. T) = T
  <2>1. T \in Int /\ (IF 1 > T THEN 0 ELSE T - 1 + 1) = T OBVIOUS
  <2> QED BY <2>1, FS_Interval
<1>4. PICK R : R = Taken(seats, T) /\ R \in SUBSET (1 .. T) BY DEF Taken
<1>5. IsFiniteSet(R) /\ Cardinality(R) \in Nat BY <1>3, <1>4, FS_Subset, FS_CardinalityType
<1>6. CASE after = seats /\ \A t \in 1 .. T : seats[t] # <<>>
  <2>1. R = 1 .. T BY <1>4, <1>6 DEF Taken
  <2>2. T <= k BY <1>1, <1>3, <1>4, <2>1
  <2>3. ~(l <= T) BY <2>2
  <2>4. Cardinality(Taken(after, T)) <= k + 1 BY <1>1, <1>4, <1>5, <1>6
  <2> QED BY <1>1, <1>2, <1>6, <2>3, <2>4 DEF Seated
<1>7. ASSUME NEW t \in 1 .. T, seats[t] = <<>>, after = [seats EXCEPT ![t] = w[k + 1]]
      PROVE  Seated(after, w, T, l, k + 1)
  <2>1. DOMAIN after = 1 .. T /\ after[t] = w[k + 1]
        /\ \A u \in 1 .. T : u # t => after[u] = seats[u]
    BY <1>1, <1>7
  <2>2. \A u \in 1 .. T : after[u] = <<>> \/ \E i \in 1 .. k + 1 : after[u] = w[i]
    BY <1>1, <1>2, <2>1
  <2>3. ASSUME NEW u \in 1 .. T, u # t
        PROVE  LotsApart(after[u], after[t]) /\ LotsApart(after[t], after[u])
    <3>1. CASE seats[u] = <<>> BY <2>1, <2>3, <3>1 DEF LotsApart
    <3>2. CASE seats[u] # <<>>
      <4>1. PICK i \in 1 .. k : seats[u] = w[i] BY <1>1, <3>2
      <4>2. LotsApart(w[i], w[k + 1]) /\ LotsApart(w[k + 1], w[i]) BY <1>2
      <4> QED BY <2>1, <2>3, <4>1, <4>2
    <3> QED BY <3>1, <3>2
  <2>4. \A u, v \in 1 .. T : u # v => LotsApart(after[u], after[v]) BY <1>1, <2>1, <2>3
  <2>5. Cardinality(Taken(after, T)) <= k + 1
    <3>1. Taken(after, T) \in SUBSET (R \cup {t}) BY <1>4, <2>1 DEF Taken
    <3>2. t \notin R BY <1>4, <1>7 DEF Taken
    <3>3. IsFiniteSet(R \cup {t}) /\ Cardinality(R \cup {t}) = Cardinality(R) + 1
      BY <1>5, <3>2, FS_AddElement
    <3>4. Cardinality(Taken(after, T)) <= Cardinality(R \cup {t})
          /\ IsFiniteSet(Taken(after, T))
      BY <3>1, <3>3, FS_Subset
    <3>5. Cardinality(Taken(after, T)) \in Nat BY <3>4, FS_CardinalityType
    <3> QED BY <1>1, <1>4, <1>5, <3>3, <3>4, <3>5
  <2>6. ASSUME l <= T, NEW i \in 1 .. k + 1
        PROVE  w[i] = <<>> \/ \E u \in 1 .. T : after[u] = w[i]
    <3>1. CASE i = k + 1 BY <2>1, <3>1
    <3>2. CASE i # k + 1
      <4>1. i \in 1 .. k BY <3>2
      <4>2. w[i] = <<>> \/ \E u \in 1 .. T : seats[u] = w[i] BY <1>1, <2>6, <4>1
      <4> QED BY <1>7, <2>1, <4>2
    <3> QED BY <3>1, <3>2
  <2> QED BY <2>1, <2>2, <2>4, <2>5, <2>6 DEF Seated
<1> QED BY <1>6, <1>7 DEF TakesSeat

SeatAll(c, m) == FoldLeft(LAMBDA seats, x : Seat(c, seats, x), Nobody(c), m)

LEMMA SeatAllSeats ==
  ASSUME NEW c, IsCall(c), NEW T \in Nat, T = c.threads, NEW l \in Nat, NEW m, DOMAIN m = 1 .. l,
         NEW w, w = [i \in 1 .. l |-> SliceFor(c, m[i])],
         \A i, j \in 1 .. l : i # j => LotsApart(w[i], w[j])
  PROVE  Seated(SeatAll(c, m), w, T, l, l)
<1> DEFINE res == SeatAll(c, m)
<1> DEFINE none == Nobody(c)
<1> DEFINE IsLoop(g) == g = [s \in SUBSET DOMAIN m |->
                IF s = {} THEN none ELSE Seat(c, g[s \ {Max(s)}], m[Max(s)])]
<1>1. res = (CHOOSE g : IsLoop(g))[DOMAIN m]
  BY DEF SeatAll, FoldLeft, MapThenFoldSet
<1>2. none = [t \in 1 .. T |-> <<>>] BY DEF Nobody
<1> HIDE DEF res, none
<1>3. \A g : IsLoop(g) <=> g = [s \in SUBSET (1 .. l) |->
                IF s = {} THEN none ELSE Seat(c, g[s \ {Max(s)}], m[Max(s)])]
  OBVIOUS
<1> HIDE DEF IsLoop
<1>4. PICK V, D : V = {<<>>} \cup {w[i] : i \in 1 .. l} /\ D = [1 .. T -> V] OBVIOUS
<1>5. PICK G : G = [p \in D \X (1 .. l) |-> Seat(c, p[1], m[p[2]])] OBVIOUS
<1>6. \A a \in D : \A i \in 1 .. l : G[<<a, i>>] = Seat(c, a, m[i]) BY <1>5
<1>7. \A a \in D : \A i \in 1 .. l : TakesSeat(G[<<a, i>>], a, w[i], T)
  <2> SUFFICES ASSUME NEW a \in D, NEW i \in 1 .. l PROVE TakesSeat(G[<<a, i>>], a, w[i], T)
    OBVIOUS
  <2>1. TakesSeat(Seat(c, a, m[i]), a, SliceFor(c, m[i]), T) BY SeatTakesFree
  <2>2. w[i] = SliceFor(c, m[i]) OBVIOUS
  <2> QED BY <1>6, <2>1, <2>2
<1>8. \A a \in D : \A i \in 1 .. l : G[<<a, i>>] \in D
  <2> SUFFICES ASSUME NEW a \in D, NEW i \in 1 .. l PROVE G[<<a, i>>] \in D OBVIOUS
  <2>1. PICK b, v : b = G[<<a, i>>] /\ v = w[i] OBVIOUS
  <2>2. v \in V BY <1>4, <2>1
  <2>3. b = a \/ \E t \in 1 .. T : b = [a EXCEPT ![t] = v] BY <1>7, <2>1 DEF TakesSeat
  <2>4. b \in D BY <1>4, <2>2, <2>3
  <2> QED BY <2>1, <2>4
<1>9. none \in D BY <1>2, <1>4
<1>10. \E g : IsLoop(g)
  <2>1. PICK h : FoldRec(h, G, none, l) /\ \A s \in SUBSET (1 .. l) : h[s] \in D
    BY <1>8, <1>9, LoopExists
  <2>2. ASSUME NEW s \in SUBSET (1 .. l), s # {}
        PROVE  G[<<h[s \ {Max(s)}], Max(s)>>] = Seat(c, h[s \ {Max(s)}], m[Max(s)])
    <3>1. Max(s) \in 1 .. l /\ s \ {Max(s)} \in SUBSET (1 .. l) BY <2>2, LoopPlaces
    <3>2. h[s \ {Max(s)}] \in D BY <2>1, <3>1
    <3> QED BY <1>6, <3>1, <3>2
  <2>3. h = [s \in SUBSET (1 .. l) |->
               IF s = {} THEN none ELSE G[<<h[s \ {Max(s)}], Max(s)>>]]
    BY <2>1 DEF FoldRec
  <2>4. h = [s \in SUBSET (1 .. l) |->
               IF s = {} THEN none ELSE Seat(c, h[s \ {Max(s)}], m[Max(s)])]
    BY <2>2, <2>3
  <2> QED BY <1>3, <2>4
<1>11. PICK g : IsLoop(g) /\ res = g[1 .. l] BY <1>1, <1>10
<1>12. Turns(g, G, D, none, l)
  <2>1. \A s \in SUBSET (1 .. l) :
          g[s] = IF s = {} THEN none ELSE Seat(c, g[s \ {Max(s)}], m[Max(s)])
    BY <1>3, <1>11
  <2>2. g[{}] = none BY <2>1
  <2>3. ASSUME NEW k \in 0 .. l - 1, g[1 .. k] \in D
        PROVE  g[1 .. k + 1] = G[<<g[1 .. k], k + 1>>]
    <3>1. k \in Nat /\ k + 1 \in 1 .. l /\ 1 .. k + 1 \in SUBSET (1 .. l) OBVIOUS
    <3>2. 1 .. k + 1 # {} /\ Max(1 .. k + 1) = k + 1 /\ (1 .. k + 1) \ {k + 1} = 1 .. k
      BY <3>1, LastTurn
    <3>3. g[1 .. k + 1] = Seat(c, g[1 .. k], m[k + 1]) BY <2>1, <3>1, <3>2
    <3> QED BY <1>6, <2>3, <3>1, <3>3
  <2> QED BY <2>2, <2>3 DEF Turns
<1>13. PICK X : X = [k \in 0 .. l |-> {a \in D : Seated(a, w, T, l, k)}] OBVIOUS
<1>14. \A k \in 0 .. l : X[k] \subseteq D BY <1>13
<1>15. none \in X[0]
  <2>1. DOMAIN none = 1 .. T /\ \A t \in 1 .. T : none[t] = <<>> BY <1>2
  <2>2. Taken(none, T) = {} BY <2>1 DEF Taken
  <2>3. Cardinality(Taken(none, T)) <= 0 BY <2>2, FS_EmptySet
  <2>4. \A t, u \in 1 .. T : t # u => LotsApart(none[t], none[u]) BY <2>1 DEF LotsApart
  <2>5. Seated(none, w, T, l, 0)
    <3>1. \A i \in 1 .. 0 : w[i] = <<>> \/ \E t \in 1 .. T : none[t] = w[i] OBVIOUS
    <3> QED BY <2>1, <2>3, <2>4, <3>1 DEF Seated
  <2>6. 0 \in 0 .. l OBVIOUS
  <2> QED BY <1>9, <1>13, <2>5, <2>6
<1>16. \A k \in 0 .. l - 1 : \A a \in X[k] : G[<<a, k + 1>>] \in X[k + 1]
  <2> SUFFICES ASSUME NEW k \in 0 .. l - 1, NEW a \in X[k] PROVE G[<<a, k + 1>>] \in X[k + 1]
    OBVIOUS
  <2>1. k \in 0 .. l /\ k + 1 \in 0 .. l /\ k + 1 \in 1 .. l OBVIOUS
  <2>2. a \in D /\ Seated(a, w, T, l, k) BY <1>13, <2>1
  <2>3. PICK b : b = G[<<a, k + 1>>] OBVIOUS
  <2>4. TakesSeat(b, a, w[k + 1], T) /\ b \in D BY <1>7, <1>8, <2>1, <2>2, <2>3
  <2>5. Seated(b, w, T, l, k + 1) BY <2>2, <2>4, SeatIsSeated
  <2> QED BY <1>13, <2>1, <2>3, <2>4, <2>5
<1>17. g[1 .. l] \in X[l]
  <2>1. l \in 0 .. l OBVIOUS
  <2>2. \A k \in 0 .. l : g[1 .. k] \in X[k] BY <1>9, <1>12, <1>14, <1>15, <1>16, LoopKeeps
  <2> QED BY <2>1, <2>2
<1>18. Seated(res, w, T, l, l)
  <2>1. l \in 0 .. l OBVIOUS
  <2>2. X[l] = {a \in D : Seated(a, w, T, l, l)} BY <1>13, <2>1
  <2> QED BY <1>11, <1>17, <2>2
<1> QED BY <1>18 DEF res


LEMMA SingleTierIsLots ==
  ASSUME NEW c, IsCall(c)
  PROVE  /\ AreLots(SingleTierSeats(c), c.threads, c, Active(c))
         /\ NumActive(c) <= c.threads => HoldAll(SingleTierSeats(c), c.threads, c, Active(c))
<1>1. PICK T \in Nat \ {0} : T = c.threads BY CallIsShaped
<1>2. PICK E, S : E = Experts(c) /\ S = Active(c) OBVIOUS
<1>3. E \in SUBSET Nat /\ S \in SUBSET E /\ IsFiniteSet(S) BY <1>2, CallIsShaped
<1>4. PICK a : a = Teams(c, S, T, CcdCap(c)) OBVIOUS
<1>5. TeamsFit(a, c, S, T) BY <1>2, <1>4, TeamsAreMade
<1>6. a \in [E -> Nat] /\ \A e \in S : a[e] >= 1 BY <1>2, <1>5 DEF TeamsFit
<1>7. PICK m : m = Members(S, a) /\ IsRoll(m, a, S) BY <1>3, <1>6, MembersAreRoll
<1>8. PICK l \in Nat : l = Len(m) /\ DOMAIN m = 1 .. l /\ l = Total(a, S) BY <1>7 DEF IsRoll
<1>9. PICK w : w = [i \in 1 .. l |-> SliceFor(c, m[i])] OBVIOUS
<1>10. AreLots(w, l, c, S) /\ HoldAll(w, l, c, S)
  <2>1. S \in SUBSET Experts(c) /\ a \in [Experts(c) -> Nat] BY <1>2, <1>3, <1>6
  <2> QED BY <1>6, <1>7, <1>8, <1>9, <2>1, RollIsSliced
<1>11. PICK s : s = SeatAll(c, m) /\ Seated(s, w, T, l, l)
  <2>1. \A i, j \in 1 .. l : i # j => LotsApart(w[i], w[j]) BY <1>10 DEF AreLots
  <2> QED BY <1>1, <1>8, <1>9, <2>1, SeatAllSeats
<1>12. s = SingleTierSeats(c) BY <1>1, <1>2, <1>4, <1>7, <1>11 DEF SingleTierSeats, SeatAll
<1>13. AreLots(s, T, c, S)
  <2>1. \A t \in 1 .. T : IsLot(s[t], c, S)
    <3> SUFFICES ASSUME NEW t \in 1 .. T PROVE IsLot(s[t], c, S) OBVIOUS
    <3>1. CASE s[t] = <<>> BY <3>1 DEF IsLot
    <3>2. CASE \E i \in 1 .. l : s[t] = w[i] BY <1>10, <3>2 DEF AreLots
    <3> QED BY <1>11, <3>1, <3>2 DEF Seated
  <2> QED BY <1>11, <2>1 DEF AreLots, Seated
<1>14. ASSUME NumActive(c) <= T PROVE HoldAll(s, T, c, S)
  <2>1. l <= T BY <1>2, <1>5, <1>8, <1>14 DEF TeamsFit, NumActive
  <2>2. ASSUME NEW e \in S, NEW r \in 0 .. c.M[e] - 1 PROVE \E t \in 1 .. T : LotHolds(s[t], e, r)
    <3>1. PICK i \in 1 .. l : LotHolds(w[i], e, r) BY <1>10, <2>2 DEF HoldAll
    <3>2. w[i] # <<>> BY <3>1 DEF LotHolds
    <3>3. \E t \in 1 .. T : s[t] = w[i] BY <1>11, <2>1, <3>2 DEF Seated
    <3> QED BY <3>1, <3>3
  <2> QED BY <2>2 DEF HoldAll
<1> QED BY <1>1, <1>2, <1>12, <1>13, <1>14

\* The threads below LightPool are the light tier's; there is at least one.
LEMMA LightPoolFits ==
  ASSUME NEW c, IsCall(c)
  PROVE  LightPool(c) \in 1 .. c.threads
<1>1. PICK T \in Nat \ {0}, b \in Nat : T = c.threads /\ b = CcdSize(c) /\ b \in 1 .. T
  BY CallIsShaped, CcdsHoldThreads
<1>2. PICK y \in Nat \ {0} : y = c.env.lightsPerThread BY DEF IsCall, Tunings
<1>3. PICK x \in Nat : x = Cardinality(Light(c))
  <2>1. Light(c) \subseteq Active(c) BY DEF Light
  <2>2. IsFiniteSet(Light(c)) BY <2>1, CallIsShaped, FS_Subset
  <2> QED BY <2>2, FS_CardinalityType
<1>4. PICK d \in Nat : d = CeilDiv(x, y)
  <2>1. PICK s \in Nat : s = x + y - 1 OBVIOUS
  <2>2. s \div y \in Nat BY DivBounds
  <2> QED BY <2>1, <2>2 DEF CeilDiv
<1>5. LightPool(c) = AtMost(b, AtLeastOne(d)) BY <1>1, <1>2, <1>3, <1>4 DEF LightPool
<1> QED BY <1>1, <1>4, <1>5 DEF AtMost, AtLeastOne

LEMMA HeavyIsLots ==
  ASSUME NEW c, IsCall(c)
  PROVE  /\ AreLots(HeavySeats(c), c.threads, c, Heavy(c))
         /\ Cardinality(Heavy(c)) <= HeavyPool(c) => HoldAll(HeavySeats(c), c.threads, c, Heavy(c))
<1>1. PICK T \in Nat \ {0}, p \in Nat : T = c.threads /\ p = LightPool(c) /\ p \in 1 .. T
  BY CallIsShaped, LightPoolFits
<1>2. PICK b \in Nat : b = HeavyPool(c) /\ b = T - p BY <1>1 DEF HeavyPool
<1>3. PICK E, S : E = Experts(c) /\ S = Heavy(c) OBVIOUS
<1>4. E \in SUBSET Nat /\ S \in SUBSET E /\ IsFiniteSet(S) /\ S \in SUBSET Active(c)
  <2>1. S \in SUBSET Active(c) BY <1>3 DEF Heavy
  <2> QED BY <1>3, <2>1, CallIsShaped, FS_Subset
<1>5. PICK a : a = Teams(c, S, b, c.M) OBVIOUS
<1>6. TeamsFit(a, c, S, b) BY <1>4, <1>5, TeamsAreMade
<1>7. a \in [E -> Nat] /\ \A e \in S : a[e] >= 1 BY <1>3, <1>6 DEF TeamsFit
<1>8. PICK m : m = Members(S, a) /\ IsRoll(m, a, S) BY <1>4, <1>7, MembersAreRoll
<1>9. PICK l \in Nat : l = Len(m) /\ DOMAIN m = 1 .. l /\ l = Total(a, S) BY <1>8 DEF IsRoll
<1>10. PICK w : w = [i \in 1 .. l |-> SliceFor(c, m[i])] OBVIOUS
<1>11. AreLots(w, l, c, S) /\ HoldAll(w, l, c, S)
  <2>1. S \in SUBSET Experts(c) /\ a \in [Experts(c) -> Nat] BY <1>3, <1>4, <1>7
  <2> QED BY <1>7, <1>8, <1>9, <1>10, <2>1, RollIsSliced
<1>12. PICK s : s = HeavySeats(c) OBVIOUS
<1>13. s = [t \in 1 .. T |-> IF t - p \in 1 .. l THEN w[t - p] ELSE <<>>]
  <2>1. HeavyTeams(c) = a BY <1>2, <1>3, <1>5 DEF HeavyTeams
  <2>2. s = [t \in 1 .. T |-> IF t - p \in DOMAIN m THEN SliceFor(c, m[t - p]) ELSE <<>>]
    BY <1>1, <1>3, <1>8, <1>12, <2>1 DEF HeavySeats, SliceFor
  <2> QED BY <1>9, <1>10, <2>2
<1>14. \A t \in 1 .. T : s[t] = <<>> \/ \E i \in 1 .. l : t = p + i /\ s[t] = w[i]
  <2> SUFFICES ASSUME NEW t \in 1 .. T, t - p \in 1 .. l
               PROVE  \E i \in 1 .. l : t = p + i /\ s[t] = w[i]
    BY <1>13
  <2>1. PICK i \in 1 .. l : i = t - p OBVIOUS
  <2>2. t = p + i BY <2>1
  <2> QED BY <1>13, <2>1, <2>2
<1>15. AreLots(s, T, c, S)
  <2>1. ASSUME NEW t \in 1 .. T PROVE IsLot(s[t], c, S)
    <3>1. CASE s[t] = <<>> BY <3>1 DEF IsLot
    <3>2. CASE \E i \in 1 .. l : s[t] = w[i] BY <1>11, <3>2 DEF AreLots
    <3> QED BY <1>14, <3>1, <3>2
  <2>2. ASSUME NEW t \in 1 .. T, NEW u \in 1 .. T, t # u PROVE LotsApart(s[t], s[u])
    <3>1. CASE s[t] = <<>> \/ s[u] = <<>> BY <3>1 DEF LotsApart
    <3>2. CASE s[t] # <<>> /\ s[u] # <<>>
      <4>1. PICK i \in 1 .. l : t = p + i /\ s[t] = w[i] BY <1>14, <3>2
      <4>2. PICK j \in 1 .. l : u = p + j /\ s[u] = w[j] BY <1>14, <3>2
      <4>3. i # j BY <2>2, <4>1, <4>2
      <4> QED BY <1>11, <4>1, <4>2, <4>3 DEF AreLots
    <3> QED BY <3>1, <3>2
  <2> QED BY <1>13, <2>1, <2>2 DEF AreLots
<1>16. ASSUME Cardinality(S) <= b PROVE HoldAll(s, T, c, S)
  <2>1. l <= b BY <1>6, <1>9, <1>16 DEF TeamsFit
  <2>2. ASSUME NEW e \in S, NEW r \in 0 .. c.M[e] - 1 PROVE \E t \in 1 .. T : LotHolds(s[t], e, r)
    <3>1. PICK i \in 1 .. l : LotHolds(w[i], e, r) BY <1>11, <2>2 DEF HoldAll
    <3>2. p + i \in 1 .. T /\ (p + i) - p = i BY <1>2, <2>1
    <3>3. s[p + i] = w[i] BY <1>13, <3>2
    <3> QED BY <3>1, <3>2, <3>3
  <2> QED BY <2>2 DEF HoldAll
<1> QED BY <1>1, <1>2, <1>3, <1>12, <1>15, <1>16

(***************************************************************************)
(* The plan: regions                                                       *)
(***************************************************************************)

\* A list of rows of experts of S, each expert's at most once and whole.
IsList(q, c, S) ==
  /\ Len(q) \in Nat /\ DOMAIN q = 1 .. Len(q)
  /\ \A i \in 1 .. Len(q) : RowsOf(q[i], c, S)
  /\ \A i, j \in 1 .. Len(q) : i # j => Apart(q[i], q[j])
ListHolds(q, c, S) ==
  \A e \in S : \A m \in 0 .. c.M[e] - 1 : \E i \in 1 .. Len(q) : Holds(q[i], e, m)

LEMMA NoneIsList ==
  ASSUME NEW c, NEW S
  PROVE  IsList(<<>>, c, S) /\ ListHolds(<<>>, c, {})
<1>1. Len(<<>>) = 0 /\ DOMAIN <<>> = {} /\ 1 .. 0 = {} OBVIOUS
<1> QED BY <1>1 DEF IsList, ListHolds

LEMMA LotIsList ==
  ASSUME NEW c, NEW S, NEW s, IsLot(s, c, S)
  PROVE  IsList(s, c, S) /\ \A i \in 1 .. Len(s) : i = 1 /\ s # <<>>
<1>1. CASE s = <<>>
  <2>1. Len(<<>>) = 0 /\ 1 .. 0 = {} OBVIOUS
  <2> QED BY <1>1, <2>1, NoneIsList
<1>2. ASSUME NEW x, s = <<x>>, RowsOf(x, c, S)
      PROVE  IsList(s, c, S) /\ \A i \in 1 .. Len(s) : i = 1 /\ s # <<>>
  <2>1. Len(s) = 1 /\ DOMAIN s = 1 .. 1 /\ s[1] = x /\ s # <<>> BY <1>2
  <2>2. \A i \in 1 .. 1 : i = 1 OBVIOUS
  <2> QED BY <1>2, <2>1, <2>2 DEF IsList
<1> QED BY <1>1, <1>2 DEF IsLot

LEMMA WholeIsList ==
  ASSUME NEW c, IsCall(c), NEW S \in SUBSET Active(c)
  PROVE  IsList(WholeOf(c, S), c, S) /\ ListHolds(WholeOf(c, S), c, S)
<1>1. S \in SUBSET Nat /\ IsFiniteSet(S) /\ \A e \in S : c.M[e] \in Nat \ {0}
  <2>1. Active(c) \subseteq Experts(c) /\ IsFiniteSet(Active(c)) BY CallIsShaped
  <2> QED BY <2>1, CallIsShaped, FS_Subset
<1>2. PICK o : o = InOrder(S) /\ Enumerates(o, S) BY <1>1, InOrderEnumerates
<1>3. PICK n \in Nat : n = Cardinality(S) BY <1>1, FS_CardinalityType
<1>4. /\ \A i \in 1 .. n : o[i] \in S
      /\ \A e \in S : \E i \in 1 .. n : o[i] = e
      /\ \A i, k \in 1 .. n : o[i] = o[k] => i = k
  BY <1>2, <1>3 DEF Enumerates
<1>5. PICK q : q = WholeOf(c, S) OBVIOUS
<1>6. q = [i \in 1 .. n |-> Whole(c, o[i])] BY <1>2, <1>3, <1>5 DEF WholeOf
<1>7. Len(q) = n /\ DOMAIN q = 1 .. n BY <1>6
<1>8. \A i \in 1 .. n : q[i].e = o[i] /\ q[i].lo = 0 /\ q[i].hi = c.M[o[i]]
  BY <1>6 DEF Whole
<1>9. \A i \in 1 .. n : RowsOf(q[i], c, S)
  <2> SUFFICES ASSUME NEW i \in 1 .. n PROVE RowsOf(q[i], c, S) OBVIOUS
  <2>1. PICK k \in Nat \ {0} : k = c.M[o[i]] BY <1>1, <1>4
  <2>2. q[i].lo = 0 /\ q[i].hi = k /\ c.M[q[i].e] = k /\ q[i].e \in S BY <1>4, <1>8, <2>1
  <2> QED BY <2>2 DEF RowsOf
<1>10. \A i, j \in 1 .. n : i # j => Apart(q[i], q[j]) BY <1>4, <1>8 DEF Apart
<1>11. ASSUME NEW e \in S, NEW m \in 0 .. c.M[e] - 1 PROVE \E i \in 1 .. n : Holds(q[i], e, m)
  <2>1. PICK i \in 1 .. n : o[i] = e BY <1>4
  <2>2. PICK k \in Nat \ {0} : k = c.M[e] BY <1>1
  <2>3. q[i].e = e /\ q[i].lo = 0 /\ q[i].hi = k /\ 0 <= m /\ m < k BY <1>8, <2>1, <2>2
  <2> QED BY <2>3 DEF Holds
<1> QED BY <1>3, <1>5, <1>7, <1>9, <1>10, <1>11 DEF IsList, ListHolds

\* A pass: regions whose lanes, the queue and the threads' items, hold rows
\* of the active experts, each row in one place.
LaneAt(g, t) == IF t = 0 THEN g.queue ELSE g.items[t]
ListsApart(q, w) == \A i \in 1 .. Len(q) : \A k \in 1 .. Len(w) : Apart(q[i], w[k])
IsRegion(g, c, T) ==
  /\ DOMAIN g.items = 1 .. T /\ g.pool \subseteq 1 .. T
  /\ g.queue # <<>> => g.pool # {}
  /\ \A t \in 0 .. T : IsList(LaneAt(g, t), c, Active(c))
IsPass(R, c, T) ==
  /\ Len(R) \in Nat /\ DOMAIN R = 1 .. Len(R)
  /\ \A r \in 1 .. Len(R) : IsRegion(R[r], c, T)
  /\ \A r, s \in 1 .. Len(R) : \A t, u \in 0 .. T :
       r # s \/ t # u => ListsApart(LaneAt(R[r], t), LaneAt(R[s], u))
PassHolds(R, c, T) ==
  \A e \in Active(c) : \A m \in 0 .. c.M[e] - 1 :
    \E r \in 1 .. Len(R) : \E t \in 0 .. T : \E i \in 1 .. Len(LaneAt(R[r], t)) :
      Holds(LaneAt(R[r], t)[i], e, m)

LEMMA PassIsPartition ==
  ASSUME NEW c, IsCall(c), NEW T, T = c.threads, NEW R, IsPass(R, c, T),
         NEW j, j.M = c.M, DOMAIN j.slices = 1 .. T, NEW p, j.regions[p] = R,
         PassHolds(R, c, T) \/ (p = 1 /\ j.refused)
  PROVE  RegionsPartition(j, p)
<1>1. T \in Nat \ {0} /\ Lanes(j) = 0 .. T
  <2>1. T \in Nat \ {0} BY CallIsShaped
  <2>2. {0} \cup (1 .. T) = 0 .. T BY <2>1
  <2> QED BY <2>1, <2>2 DEF Lanes
<1>2. PICK n \in Nat : n = Len(R) /\ DOMAIN R = 1 .. n BY DEF IsPass
<1>3. \A r, t : Lane(j, p, r, t) = LaneAt(R[r], t) BY DEF Lane, LaneAt
<1>4. \A x : RowsOf(x, c, Active(c)) => IsRows(j, x)
  BY CallIsShaped DEF RowsOf, IsRows
<1>5. ASSUME NEW r \in 1 .. n
      PROVE  /\ DOMAIN R[r].items = DOMAIN j.slices /\ R[r].pool \subseteq DOMAIN j.slices
             /\ R[r].queue # <<>> => R[r].pool # {}
             /\ \A t \in 0 .. T : IsList(LaneAt(R[r], t), c, Active(c))
  BY <1>2 DEF IsPass, IsRegion
<1>6. ASSUME NEW r \in 1 .. n, NEW t \in 0 .. T
      PROVE  /\ Len(Lane(j, p, r, t)) \in Nat
             /\ DOMAIN Lane(j, p, r, t) = 1 .. Len(Lane(j, p, r, t))
             /\ \A i \in DOMAIN Lane(j, p, r, t) : IsRows(j, Lane(j, p, r, t)[i])
  <2>1. PICK q : q = LaneAt(R[r], t) /\ IsList(q, c, Active(c)) BY <1>5
  <2> QED BY <1>3, <1>4, <2>1 DEF IsList
<1>7. ASSUME NEW r \in 1 .. n, NEW s \in 1 .. n, NEW t \in 0 .. T, NEW u \in 0 .. T,
             NEW i \in DOMAIN Lane(j, p, r, t), NEW k \in DOMAIN Lane(j, p, s, u),
             <<r, t, i>> # <<s, u, k>>
      PROVE  Apart(Lane(j, p, r, t)[i], Lane(j, p, s, u)[k])
  <2>1. PICK q : q = LaneAt(R[r], t) /\ IsList(q, c, Active(c)) BY <1>5
  <2>2. PICK w : w = LaneAt(R[s], u) /\ IsList(w, c, Active(c)) BY <1>5
  <2>3. i \in 1 .. Len(q) /\ k \in 1 .. Len(w) BY <1>3, <2>1, <2>2 DEF IsList
  <2>4. CASE r # s \/ t # u
    <3>1. ListsApart(q, w) BY <1>2, <2>1, <2>2, <2>4 DEF IsPass
    <3> QED BY <1>3, <2>1, <2>2, <2>3, <3>1 DEF ListsApart
  <2>5. CASE r = s /\ t = u
    <3>1. i # k /\ w = q BY <1>7, <2>1, <2>2, <2>5
    <3> QED BY <1>3, <2>1, <2>2, <2>3, <3>1 DEF IsList
  <2> QED BY <2>4, <2>5
<1>8. ASSUME ~(p = 1 /\ j.refused), NEW e \in DOMAIN j.M, NEW m \in 0 .. j.M[e] - 1
      PROVE  \E r \in 1 .. n : \E t \in 0 .. T : \E i \in DOMAIN Lane(j, p, r, t) :
               Holds(Lane(j, p, r, t)[i], e, m)
  <2>1. e \in Experts(c) /\ c.M[e] \in Nat /\ m \in 0 .. c.M[e] - 1 BY CallIsShaped
  <2>2. c.M[e] > 0 BY <2>1
  <2>3. e \in Active(c) BY <2>1, <2>2 DEF Active
  <2>4. PassHolds(R, c, T) BY <1>8
  <2>5. PICK r \in 1 .. n, t \in 0 .. T : \E i \in 1 .. Len(LaneAt(R[r], t)) :
                                            Holds(LaneAt(R[r], t)[i], e, m)
    BY <1>2, <2>1, <2>3, <2>4 DEF PassHolds
  <2>6. PICK q : q = LaneAt(R[r], t) /\ IsList(q, c, Active(c)) BY <1>5
  <2>7. PICK i \in 1 .. Len(q) : Holds(q[i], e, m) BY <2>5, <2>6
  <2>8. i \in DOMAIN Lane(j, p, r, t) BY <1>3, <2>6 DEF IsList
  <2> QED BY <1>3, <2>6, <2>7, <2>8
<1>9. DOMAIN R = 1 .. Len(R) /\ Len(R) \in Nat BY <1>2
<1>10. \A r \in DOMAIN R :
         /\ DOMAIN R[r].items = DOMAIN j.slices
         /\ R[r].pool \subseteq DOMAIN j.slices
         /\ R[r].queue # <<>> => R[r].pool # {}
         /\ \A t \in Lanes(j) :
              /\ Len(Lane(j, p, r, t)) \in Nat
              /\ DOMAIN Lane(j, p, r, t) = 1 .. Len(Lane(j, p, r, t))
              /\ \A i \in DOMAIN Lane(j, p, r, t) : IsRows(j, Lane(j, p, r, t)[i])
  BY <1>1, <1>2, <1>5, <1>6
<1>11. \A r, s \in DOMAIN R : \A t, u \in Lanes(j) :
         \A i \in DOMAIN Lane(j, p, r, t) : \A k \in DOMAIN Lane(j, p, s, u) :
           <<r, t, i>> # <<s, u, k>> => Apart(Lane(j, p, r, t)[i], Lane(j, p, s, u)[k])
  BY <1>1, <1>2, <1>7
<1>12. ~(p = 1 /\ j.refused) => \A e \in DOMAIN j.M : \A m \in 0 .. j.M[e] - 1 :
         \E r \in DOMAIN R : \E t \in Lanes(j) : \E i \in DOMAIN Lane(j, p, r, t) :
           Holds(Lane(j, p, r, t)[i], e, m)
  BY <1>1, <1>2, <1>8
<1> QED BY <1>9, <1>10, <1>11, <1>12, Zenon DEF RegionsPartition

\* The items of the threads, rows of experts of P, and a queue of rows of
\* others make a region.
ItemsAre(items, c, T, P) ==
  /\ DOMAIN items = 1 .. T
  /\ \A t \in 1 .. T : IsList(items[t], c, P)
  /\ \A t, u \in 1 .. T : t # u => ListsApart(items[t], items[u])
ItemsHold(items, c, T, P) ==
  \A e \in P : \A m \in 0 .. c.M[e] - 1 :
    \E t \in 1 .. T : \E i \in 1 .. Len(items[t]) : Holds(items[t][i], e, m)

LEMMA ListGrows ==
  ASSUME NEW c, NEW P, NEW S, P \subseteq S, NEW q, IsList(q, c, P)
  PROVE  IsList(q, c, S)
BY DEF IsList, RowsOf

LEMMA ListsOfOthers ==
  ASSUME NEW c, NEW P, NEW Q, P \cap Q = {}, NEW q, IsList(q, c, P), NEW w, IsList(w, c, Q)
  PROVE  ListsApart(q, w) /\ ListsApart(w, q)
<1>1. \A i \in 1 .. Len(q) : q[i].e \in P BY DEF IsList, RowsOf
<1>2. \A k \in 1 .. Len(w) : w[k].e \in Q BY DEF IsList, RowsOf
<1>3. \A x, y : x.e \in P /\ y.e \in Q => Apart(x, y) /\ Apart(y, x) BY DEF Apart
<1> QED BY <1>1, <1>2, <1>3 DEF ListsApart

LEMMA OneRegionIsPass ==
  ASSUME NEW c, NEW T \in Nat, NEW P, NEW Q, P \cap Q = {}, P \cup Q = Active(c),
         NEW items, ItemsAre(items, c, T, P), NEW queue, IsList(queue, c, Q),
         NEW pool \in SUBSET (1 .. T), queue # <<>> => pool # {}
  PROVE  /\ IsPass(<<Region(items, queue, pool)>>, c, T)
         /\ ItemsHold(items, c, T, P) /\ ListHolds(queue, c, Q)
              => PassHolds(<<Region(items, queue, pool)>>, c, T)
<1>1. PICK g : g = Region(items, queue, pool) OBVIOUS
<1>2. g.items = items /\ g.queue = queue /\ g.pool = pool BY <1>1 DEF Region
<1>3. PICK R : R = <<g>> OBVIOUS
<1>4. Len(R) = 1 /\ DOMAIN R = 1 .. 1 /\ R[1] = g /\ \A r \in 1 .. 1 : r = 1 BY <1>3
<1>5. LaneAt(g, 0) = queue /\ \A t \in 1 .. T : LaneAt(g, t) = items[t] BY <1>2 DEF LaneAt
<1>6. \A t \in 0 .. T : t = 0 \/ t \in 1 .. T OBVIOUS
<1>7. ASSUME NEW t \in 0 .. T PROVE IsList(LaneAt(g, t), c, Active(c))
  <2>1. CASE t = 0 BY <1>5, <2>1, ListGrows
  <2>2. CASE t \in 1 .. T
    <3>1. PICK q : q = items[t] /\ IsList(q, c, P) BY <2>2 DEF ItemsAre
    <3>2. P \subseteq Active(c) OBVIOUS
    <3>3. IsList(q, c, Active(c)) BY <3>1, <3>2, ListGrows
    <3> QED BY <1>5, <2>2, <3>1, <3>3
  <2> QED BY <1>6, <2>1, <2>2
<1>8. IsRegion(g, c, T)
  <2>1. DOMAIN items = 1 .. T BY DEF ItemsAre
  <2> QED BY <1>2, <1>7, <2>1 DEF IsRegion
<1>9. ASSUME NEW t \in 0 .. T, NEW u \in 0 .. T, t # u
      PROVE  ListsApart(LaneAt(g, t), LaneAt(g, u))
  <2>1. ASSUME NEW v \in 1 .. T PROVE ListsApart(items[v], queue) /\ ListsApart(queue, items[v])
    <3>1. PICK q : q = items[v] /\ IsList(q, c, P) BY DEF ItemsAre
    <3>2. ListsApart(q, queue) /\ ListsApart(queue, q) BY <3>1, ListsOfOthers
    <3> QED BY <3>1, <3>2
  <2>2. CASE t = 0 \/ u = 0 BY <1>5, <1>6, <1>9, <2>1, <2>2
  <2>3. CASE t \in 1 .. T /\ u \in 1 .. T BY <1>5, <1>9, <2>3 DEF ItemsAre
  <2> QED BY <1>6, <2>2, <2>3
<1>10. IsPass(R, c, T) BY <1>4, <1>8, <1>9 DEF IsPass
<1>11. ASSUME ItemsHold(items, c, T, P), ListHolds(queue, c, Q) PROVE PassHolds(R, c, T)
  <2>1. ASSUME NEW e \in Active(c), NEW m \in 0 .. c.M[e] - 1
        PROVE  \E t \in 0 .. T : \E i \in 1 .. Len(LaneAt(g, t)) : Holds(LaneAt(g, t)[i], e, m)
    <3>1. CASE e \in P
      <4>1. PICK t \in 1 .. T : \E i \in 1 .. Len(items[t]) : Holds(items[t][i], e, m)
        BY <1>11, <2>1, <3>1 DEF ItemsHold
      <4>2. t \in 0 .. T OBVIOUS
      <4> QED BY <1>5, <4>1, <4>2
    <3>2. CASE e \in Q
      <4>1. \E i \in 1 .. Len(queue) : Holds(queue[i], e, m) BY <1>11, <2>1, <3>2 DEF ListHolds
      <4>2. 0 \in 0 .. T OBVIOUS
      <4> QED BY <1>5, <4>1, <4>2
    <3> QED BY <3>1, <3>2
  <2>2. 1 \in 1 .. Len(R) BY <1>4
  <2> QED BY <1>4, <2>1, <2>2 DEF PassHolds
<1> QED BY <1>1, <1>3, <1>10, <1>11

LEMMA LotsAreItems ==
  ASSUME NEW c, NEW T \in Nat, NEW P, NEW s, AreLots(s, T, c, P)
  PROVE  ItemsAre(s, c, T, P) /\ (HoldAll(s, T, c, P) => ItemsHold(s, c, T, P))
<1>1. ASSUME NEW t \in 1 .. T
      PROVE  /\ IsLot(s[t], c, P) /\ IsList(s[t], c, P)
             /\ \A i \in 1 .. Len(s[t]) : i = 1 /\ s[t] # <<>>
             /\ s[t] # <<>> => 1 \in 1 .. Len(s[t])
  <2>1. PICK q : q = s[t] /\ IsLot(q, c, P) BY DEF AreLots
  <2>2. IsList(q, c, P) /\ \A i \in 1 .. Len(q) : i = 1 /\ q # <<>> BY <2>1, LotIsList
  <2>3. q # <<>> => 1 \in 1 .. Len(q) BY <2>1 DEF IsLot
  <2> QED BY <2>1, <2>2, <2>3
<1>2. ASSUME NEW t \in 1 .. T, NEW u \in 1 .. T, t # u PROVE ListsApart(s[t], s[u])
  <2>1. LotsApart(s[t], s[u]) BY <1>2 DEF AreLots
  <2>2. ASSUME NEW i \in 1 .. Len(s[t]), NEW k \in 1 .. Len(s[u]) PROVE Apart(s[t][i], s[u][k])
    <3>1. i = 1 /\ k = 1 /\ s[t] # <<>> /\ s[u] # <<>> BY <1>1
    <3> QED BY <2>1, <3>1 DEF LotsApart
  <2> QED BY <2>2 DEF ListsApart
<1>3. ASSUME HoldAll(s, T, c, P) PROVE ItemsHold(s, c, T, P)
  <2>1. ASSUME NEW e \in P, NEW m \in 0 .. c.M[e] - 1
        PROVE  \E t \in 1 .. T : \E i \in 1 .. Len(s[t]) : Holds(s[t][i], e, m)
    <3>1. PICK t \in 1 .. T : LotHolds(s[t], e, m) BY <1>3 DEF HoldAll
    <3>2. s[t] # <<>> /\ Holds(s[t][1], e, m) BY <3>1 DEF LotHolds
    <3>3. 1 \in 1 .. Len(s[t]) BY <1>1, <3>2
    <3> QED BY <3>2, <3>3
  <2> QED BY <2>1 DEF ItemsHold
<1>4. DOMAIN s = 1 .. T BY DEF AreLots
<1> QED BY <1>1, <1>2, <1>3, <1>4 DEF ItemsAre

\* One thread, or none, has rows of its own.
LEMMA NobodyHasItems ==
  ASSUME NEW c, NEW T \in Nat, T = c.threads
  PROVE  ItemsAre(Nobody(c), c, T, {}) /\ ItemsHold(Nobody(c), c, T, {})
<1>1. PICK s : s = Nobody(c) OBVIOUS
<1>2. DOMAIN s = 1 .. T /\ \A t \in 1 .. T : s[t] = <<>> BY <1>1 DEF Nobody
<1>3. Len(<<>>) = 0 /\ 1 .. 0 = {} OBVIOUS
<1>4. ItemsAre(s, c, T, {}) BY <1>2, <1>3, NoneIsList DEF ItemsAre, ListsApart
<1> QED BY <1>1, <1>4 DEF ItemsHold

LEMMA FirstHasItems ==
  ASSUME NEW c, NEW T \in Nat \ {0}, T = c.threads, NEW S, NEW q, IsList(q, c, S)
  PROVE  /\ ItemsAre([Nobody(c) EXCEPT ![1] = q], c, T, S)
         /\ ListHolds(q, c, S) => ItemsHold([Nobody(c) EXCEPT ![1] = q], c, T, S)
<1>1. PICK s : s = [Nobody(c) EXCEPT ![1] = q] OBVIOUS
<1>2. 1 \in 1 .. T OBVIOUS
<1>3. DOMAIN s = 1 .. T /\ s[1] = q /\ \A t \in 1 .. T : t # 1 => s[t] = <<>>
  BY <1>1, <1>2 DEF Nobody
<1>4. Len(<<>>) = 0 /\ 1 .. 0 = {} OBVIOUS
<1>5. \A t \in 1 .. T : IsList(s[t], c, S) BY <1>3, NoneIsList
<1>6. \A t, u \in 1 .. T : t # u => ListsApart(s[t], s[u])
  <2>1. \A t, u \in 1 .. T : t # u => s[t] = <<>> \/ s[u] = <<>> BY <1>3
  <2> QED BY <1>4, <2>1 DEF ListsApart
<1>7. ListHolds(q, c, S) => ItemsHold(s, c, T, S) BY <1>2, <1>3 DEF ListHolds, ItemsHold
<1> QED BY <1>1, <1>3, <1>5, <1>6, <1>7 DEF ItemsAre

\* What a plan owes a pass.
Covers(R, c) == IsPass(R, c, c.threads) /\ PassHolds(R, c, c.threads)

LEMMA SequentialCovers == ASSUME NEW c, IsCall(c) PROVE Covers(SequentialRegions(c), c)
<1>1. PICK T \in Nat \ {0} : T = c.threads BY CallIsShaped
<1>2. PICK q : q = WholeOf(c, Active(c)) OBVIOUS
<1>3. IsList(q, c, Active(c)) /\ ListHolds(q, c, Active(c)) BY <1>2, WholeIsList
<1>4. PICK s : s = [Nobody(c) EXCEPT ![1] = q] OBVIOUS
<1>5. ItemsAre(s, c, T, Active(c)) /\ ItemsHold(s, c, T, Active(c))
  BY <1>1, <1>3, <1>4, FirstHasItems
<1>6. PICK R : R = <<Region(s, <<>>, {})>> OBVIOUS
<1>7. IsPass(R, c, T) /\ PassHolds(R, c, T)
  <2>1. IsList(<<>>, c, {}) /\ ListHolds(<<>>, c, {}) BY NoneIsList
  <2>2. Active(c) \cap {} = {} /\ Active(c) \cup {} = Active(c) OBVIOUS
  <2>3. {} \in SUBSET (1 .. T) OBVIOUS
  <2> QED BY <1>5, <1>6, <2>1, <2>2, <2>3, OneRegionIsPass
<1>8. SequentialRegions(c) = R BY <1>2, <1>4, <1>6 DEF SequentialRegions
<1> QED BY <1>1, <1>7, <1>8 DEF Covers

LEMMA PerExpertCovers == ASSUME NEW c, IsCall(c) PROVE Covers(PerExpertRegions(c), c)
<1>1. PICK T \in Nat \ {0} : T = c.threads BY CallIsShaped
<1>2. PICK q : q = WholeOf(c, Active(c)) OBVIOUS
<1>3. IsList(q, c, Active(c)) /\ ListHolds(q, c, Active(c)) BY <1>2, WholeIsList
<1>4. PICK s : s = Nobody(c) OBVIOUS
<1>5. ItemsAre(s, c, T, {}) /\ ItemsHold(s, c, T, {}) BY <1>1, <1>4, NobodyHasItems
<1>6. PICK R : R = <<Region(s, q, 1 .. T)>> OBVIOUS
<1>7. IsPass(R, c, T) /\ PassHolds(R, c, T)
  <2>1. {} \cap Active(c) = {} /\ {} \cup Active(c) = Active(c) OBVIOUS
  <2>2. 1 .. T \in SUBSET (1 .. T) /\ 1 .. T # {} OBVIOUS
  <2> QED BY <1>3, <1>5, <1>6, <2>1, <2>2, OneRegionIsPass
<1>8. PerExpertRegions(c) = R BY <1>1, <1>2, <1>4, <1>6 DEF PerExpertRegions
<1> QED BY <1>1, <1>7, <1>8 DEF Covers

LEMMA MTileCovers == ASSUME NEW c, IsCall(c) PROVE Covers(MTileRegions(c), c)
<1>1. PICK T \in Nat \ {0} : T = c.threads BY CallIsShaped
<1>2. NumActive(c) \in Nat BY CallIsShaped
<1>3. CASE NumActive(c) > c.threads
  <2>1. ~(NumActive(c) <= c.threads) BY <1>1, <1>2, <1>3
  <2>2. MTileRegions(c) = SequentialRegions(c) BY <1>3, <2>1 DEF MTileRegions
  <2> QED BY <2>2, SequentialCovers
<1>4. CASE NumActive(c) <= c.threads /\ TwoTiers(c)
  <2>1. PICK P, Q : P = Heavy(c) /\ Q = Light(c) OBVIOUS
  <2>2. P \cap Q = {} /\ P \cup Q = Active(c) /\ Q \in SUBSET Active(c)
    BY <2>1 DEF Heavy, Light
  <2>3. Cardinality(Heavy(c)) <= HeavyPool(c)
    <3>1. HeavyPool(c) >= Cardinality(Heavy(c)) BY <1>4 DEF TwoTiers, MultiTierGate
    <3>2. HeavyPool(c) \in Int BY <1>1, LightPoolFits DEF HeavyPool
    <3>3. Cardinality(Heavy(c)) \in Nat
      <4>1. Heavy(c) \subseteq Active(c) BY DEF Heavy
      <4>2. IsFiniteSet(Heavy(c)) BY <4>1, CallIsShaped, FS_Subset
      <4> QED BY <4>2, FS_CardinalityType
    <3> QED BY <3>1, <3>2, <3>3
  <2>4. PICK s : s = HeavySeats(c) OBVIOUS
  <2>5. AreLots(s, T, c, P) /\ HoldAll(s, T, c, P) BY <1>1, <2>1, <2>3, <2>4, HeavyIsLots
  <2>6. ItemsAre(s, c, T, P) /\ ItemsHold(s, c, T, P) BY <2>5, LotsAreItems
  <2>7. PICK q : q = WholeOf(c, Q) OBVIOUS
  <2>8. IsList(q, c, Q) /\ ListHolds(q, c, Q) BY <2>2, <2>7, WholeIsList
  <2>9. PICK b \in Nat \ {0} : b = LightPool(c) /\ b <= T BY <1>1, LightPoolFits
  <2>10. 1 .. b \in SUBSET (1 .. T) /\ 1 .. b # {} BY <2>9
  <2>11. PICK R : R = <<Region(s, q, 1 .. b)>> OBVIOUS
  <2>12. IsPass(R, c, T) /\ PassHolds(R, c, T)
    BY <2>2, <2>6, <2>8, <2>10, <2>11, OneRegionIsPass
  <2>13. MTileRegions(c) = R
    <3>1. ~(NumActive(c) > c.threads) BY <1>1, <1>2, <1>4
    <3> QED BY <1>4, <3>1, <2>1, <2>4, <2>7, <2>9, <2>11 DEF MTileRegions
  <2> QED BY <1>1, <2>12, <2>13 DEF Covers
<1>5. CASE NumActive(c) <= c.threads /\ ~TwoTiers(c)
  <2>1. PICK s : s = SingleTierSeats(c) OBVIOUS
  <2>2. AreLots(s, T, c, Active(c)) /\ HoldAll(s, T, c, Active(c))
    BY <1>1, <1>5, <2>1, SingleTierIsLots
  <2>3. ItemsAre(s, c, T, Active(c)) /\ ItemsHold(s, c, T, Active(c)) BY <2>2, LotsAreItems
  <2>4. PICK R : R = <<Region(s, <<>>, {})>> OBVIOUS
  <2>5. IsPass(R, c, T) /\ PassHolds(R, c, T)
    <3>1. IsList(<<>>, c, {}) /\ ListHolds(<<>>, c, {}) BY NoneIsList
    <3>2. Active(c) \cap {} = {} /\ Active(c) \cup {} = Active(c) OBVIOUS
    <3>3. {} \in SUBSET (1 .. T) OBVIOUS
    <3> QED BY <2>3, <2>4, <3>1, <3>2, <3>3, OneRegionIsPass
  <2>6. MTileRegions(c) = R
    <3>1. ~(NumActive(c) > c.threads) BY <1>1, <1>2, <1>5
    <3> QED BY <1>5, <3>1, <2>1, <2>4 DEF MTileRegions
  <2> QED BY <1>1, <2>5, <2>6 DEF Covers
<1>6. NumActive(c) > c.threads \/ NumActive(c) <= c.threads BY <1>1, <1>2
<1> QED BY <1>3, <1>4, <1>5, <1>6

\* A batch has no more experts than the team has threads.
LEMMA CcdsAreThreads ==
  ASSUME NEW c, IsCall(c)
  PROVE  NumCcds(c) <= c.threads
<1>1. PICK T \in Nat \ {0}, b \in Nat \ {0} : T = c.threads /\ b = CcdSize(c)
  BY CallIsShaped, CcdsHoldThreads
<1>2. PICK n \in Nat \ {0} : n = NumCcds(c) /\ n = CeilDiv(T, b)
  BY <1>1, RoundsCoverPlaces DEF NumCcds
<1>3. 1 + (n - 1) * b \in 1 .. T
  <2>1. n \in 1 .. CeilDiv(T, b) BY <1>2
  <2> QED BY <2>1, RoundsCoverPlaces
<1>4. PICK d \in Nat : n = d + 1
  <2>1. n - 1 \in Nat /\ n = (n - 1) + 1 OBVIOUS
  <2> QED BY <2>1
<1>5. (n - 1) * b = d * b /\ d * 1 <= d * b /\ d * b \in Nat
  <2>1. n - 1 = d BY <1>4
  <2>2. 1 <= b /\ 1 \in Nat OBVIOUS
  <2> QED BY <2>1, <2>2, TimesMonotone
<1> QED BY <1>1, <1>2, <1>3, <1>4, <1>5

LEMMA MultilevelCovers == ASSUME NEW c, IsCall(c) PROVE Covers(MultilevelRegions(c), c)
<1>1. PICK T \in Nat \ {0}, E \in Nat \ {0} : T = c.threads /\ E = Ops(c) BY CallIsShaped
<1>2. PICK b \in Nat \ {0} : b = AtMost(Ops(c), NumCcds(c)) /\ b <= T
  <2>1. NumCcds(c) \in Nat \ {0} /\ NumCcds(c) <= T BY <1>1, CcdsHoldThreads, CcdsAreThreads
  <2> QED BY <1>1, <2>1 DEF AtMost
<1>3. PICK n \in Nat \ {0} : n = CeilDiv(E, b) BY RoundsCoverPlaces
<1>4. PICK S : S = Active(c) OBVIOUS
<1>5. S \subseteq 1 .. E /\ \A e \in S : c.M[e] \in Nat \ {0} BY <1>1, <1>4, CallIsShaped
<1>6. PICK X : X = [p \in (1 .. n) \X (1 .. T) |-> (p[1] - 1) * b + p[2]] OBVIOUS
<1>7. \A r \in 1 .. n : \A t \in 1 .. T : X[<<r, t>>] = (r - 1) * b + t BY <1>6
<1>8. PICK R : R = MultilevelRegions(c) OBVIOUS
<1>9. R = [r \in 1 .. n |->
             Region([t \in 1 .. T |->
                       IF t <= b /\ (r - 1) * b + t \in S THEN <<Whole(c, (r - 1) * b + t)>> ELSE <<>>],
                    <<>>, {})]
  BY <1>1, <1>2, <1>3, <1>4, <1>8 DEF MultilevelRegions
<1>10. Len(R) = n /\ DOMAIN R = 1 .. n BY <1>9
<1>11. ASSUME NEW r \in 1 .. n
       PROVE  /\ DOMAIN R[r].items = 1 .. T /\ R[r].queue = <<>> /\ R[r].pool = {}
              /\ \A t \in 1 .. T :
                   R[r].items[t] = IF t <= b /\ X[<<r, t>>] \in S
                                   THEN <<Whole(c, X[<<r, t>>])>> ELSE <<>>
  <2>1. PICK s : s = [t \in 1 .. T |->
                        IF t <= b /\ (r - 1) * b + t \in S
                        THEN <<Whole(c, (r - 1) * b + t)>> ELSE <<>>]
    OBVIOUS
  <2>2. R[r] = Region(s, <<>>, {}) BY <1>9, <2>1
  <2>3. R[r].items = s /\ R[r].queue = <<>> /\ R[r].pool = {} BY <2>2 DEF Region
  <2>4. \A t \in 1 .. T :
          s[t] = IF t <= b /\ X[<<r, t>>] \in S THEN <<Whole(c, X[<<r, t>>])>> ELSE <<>>
    BY <1>7, <2>1
  <2>5. DOMAIN s = 1 .. T BY <2>1
  <2> QED BY <2>3, <2>4, <2>5
<1> DEFINE Own(r, t) == t # 0 /\ t <= b /\ X[<<r, t>>] \in S
<1>12. ASSUME NEW r \in 1 .. n, NEW t \in 0 .. T
       PROVE  /\ IsList(LaneAt(R[r], t), c, S)
              /\ \A i \in 1 .. Len(LaneAt(R[r], t)) :
                   Own(r, t) /\ LaneAt(R[r], t)[i] = Whole(c, X[<<r, t>>])
              /\ Own(r, t) => LaneAt(R[r], t) = <<Whole(c, X[<<r, t>>])>>
  <2>1. CASE ~Own(r, t)
    <3>1. t = 0 \/ t \in 1 .. T OBVIOUS
    <3>2. LaneAt(R[r], t) = <<>> BY <1>11, <2>1, <3>1 DEF LaneAt
    <3>3. Len(<<>>) = 0 /\ 1 .. 0 = {} OBVIOUS
    <3> QED BY <2>1, <3>2, <3>3, NoneIsList
  <2>2. CASE Own(r, t)
    <3>1. t \in 1 .. T BY <2>2
    <3>2. PICK x : x = Whole(c, X[<<r, t>>]) OBVIOUS
    <3>3. PICK e \in S : e = X[<<r, t>>] BY <2>2
    <3>4. PICK k \in Nat \ {0} : k = c.M[e] BY <1>5
    <3>5. x.e = e /\ x.lo = 0 /\ x.hi = k BY <3>2, <3>3, <3>4 DEF Whole
    <3>6. RowsOf(x, c, S) BY <3>4, <3>5 DEF RowsOf
    <3>7. LaneAt(R[r], t) = <<x>> BY <1>11, <2>2, <3>1, <3>2 DEF LaneAt
    <3>8. Len(<<x>>) = 1 /\ DOMAIN <<x>> = 1 .. 1 /\ <<x>>[1] = x /\ \A i \in 1 .. 1 : i = 1
      OBVIOUS
    <3> QED BY <2>2, <3>2, <3>6, <3>7, <3>8 DEF IsList
  <2> QED BY <2>1, <2>2
<1>13. ASSUME NEW r \in 1 .. n, NEW s \in 1 .. n, NEW t \in 1 .. T, NEW u \in 1 .. T,
              Own(r, t), Own(s, u), X[<<r, t>>] = X[<<s, u>>]
       PROVE  r = s /\ t = u
  <2>1. PICK k \in 1 .. E : k = X[<<r, t>>] BY <1>5, <1>13
  <2>2. k = (r - 1) * b + t /\ k = (s - 1) * b + u /\ t <= b /\ u <= b BY <1>7, <1>13, <2>1
  <2>3. PICK x \in Int, y \in Int : x = (r - 1) * b /\ y = (s - 1) * b
    <3>1. r - 1 \in Int /\ s - 1 \in Int BY <1>3
    <3> QED BY <3>1
  <2>4. InRound(k, r, b) /\ InRound(k, s, b) BY <2>2, <2>3 DEF InRound
  <2>5. r = 1 + (k - 1) \div b /\ s = 1 + (k - 1) \div b BY <1>3, <2>4, RoundsCoverPlaces
  <2>6. r = s BY <2>5
  <2> QED BY <2>2, <2>3, <2>6
<1>14. ASSUME NEW r \in 1 .. n, NEW s \in 1 .. n, NEW t \in 0 .. T, NEW u \in 0 .. T,
              r # s \/ t # u
       PROVE  ListsApart(LaneAt(R[r], t), LaneAt(R[s], u))
  <2>1. ASSUME NEW i \in 1 .. Len(LaneAt(R[r], t)), NEW k \in 1 .. Len(LaneAt(R[s], u))
        PROVE  Apart(LaneAt(R[r], t)[i], LaneAt(R[s], u)[k])
    <3>1. Own(r, t) /\ LaneAt(R[r], t)[i] = Whole(c, X[<<r, t>>]) BY <1>12
    <3>2. Own(s, u) /\ LaneAt(R[s], u)[k] = Whole(c, X[<<s, u>>]) BY <1>12
    <3>3. t \in 1 .. T /\ u \in 1 .. T BY <3>1, <3>2
    <3>4. X[<<r, t>>] # X[<<s, u>>] BY <1>13, <1>14, <3>1, <3>2, <3>3
    <3> QED BY <3>1, <3>2, <3>4 DEF Apart, Whole
  <2> QED BY <2>1 DEF ListsApart
<1>15. IsPass(R, c, T)
  <2>1. \A r \in 1 .. n : IsRegion(R[r], c, T) BY <1>4, <1>11, <1>12 DEF IsRegion
  <2> QED BY <1>3, <1>10, <1>14, <2>1 DEF IsPass
<1>16. ASSUME NEW e \in S, NEW m \in 0 .. c.M[e] - 1
       PROVE  \E r \in 1 .. n : \E t \in 0 .. T : \E i \in 1 .. Len(LaneAt(R[r], t)) :
                Holds(LaneAt(R[r], t)[i], e, m)
  <2>1. e \in 1 .. E BY <1>5
  <2>2. PICK r \in 1 .. n : InRound(e, r, b)
    <3>1. PICK q : q = 1 + (e - 1) \div b OBVIOUS
    <3>2. q \in 1 .. n /\ InRound(e, q, b) BY <1>3, <2>1, <3>1, RoundsCoverPlaces
    <3> QED BY <3>2
  <2>3. PICK x \in Int : x = (r - 1) * b
    <3>1. r - 1 \in Int BY <1>3
    <3> QED BY <3>1
  <2>4. PICK t \in Nat : t = e - x /\ t \in 1 .. b BY <2>1, <2>2, <2>3 DEF InRound
  <2>5. t \in 1 .. T /\ t \in 0 .. T /\ x + t = e BY <1>2, <2>1, <2>3, <2>4
  <2>6. X[<<r, t>>] = e BY <1>7, <2>3, <2>5
  <2>7. Own(r, t) BY <2>4, <2>6
  <2>8. PICK w : w = Whole(c, e) OBVIOUS
  <2>9. LaneAt(R[r], t) = <<w>> BY <1>12, <2>5, <2>6, <2>7, <2>8
  <2>10. 1 \in 1 .. Len(<<w>>) /\ <<w>>[1] = w OBVIOUS
  <2>11. PICK k \in Nat \ {0} : k = c.M[e] BY <1>5
  <2>12. w.e = e /\ w.lo = 0 /\ w.hi = k BY <2>8, <2>11 DEF Whole
  <2>13. Holds(w, e, m) BY <2>11, <2>12 DEF Holds
  <2> QED BY <2>5, <2>9, <2>10, <2>13
<1>17. PassHolds(R, c, T) BY <1>4, <1>10, <1>16 DEF PassHolds
<1> QED BY <1>1, <1>8, <1>15, <1>17 DEF Covers

(***************************************************************************)
(* The plan: jobs                                                          *)
(***************************************************************************)

LEMMA RegimeIsRun ==
  ASSUME NEW c, IsCall(c), NEW safe
  PROVE  RegimeAlgo(c, safe) \in 1 .. 5
<1>1. NumActive(c) \in Nat /\ c.threads \in Nat BY CallIsShaped
<1> QED BY <1>1 DEF RegimeAlgo

\* The rules decide between the five, and the last always applies.
LEMMA SelectIsRun ==
  ASSUME NEW c, IsCall(c), NEW op \in 1 .. 2
  PROVE  Select(c, op) \in 1 .. 5
<1>1. \A a \in 1 .. 5 : \A safe, n : Guarded(a, safe, n) \in 1 .. 5 BY DEF Guarded
<1>2. ASSUME NEW safe PROVE AutoSelect(c, safe) \in 1 .. 5
  <2> DEFINE threeOr(other) == IF c.nTileSafe THEN 3 ELSE other
             rules == <<
               <<c.threads <= 1, 1>>,
               <<Ops(c) > MaxExperts, 5>>,
               <<IsDecode(c) /\ TotalExperts(c) <= FewExpertsAlgo2Pref /\ ~PhasePinned(c),
                 RegimeAlgo(c, safe)>>,
               <<IsDecode(c) /\ NumActive(c) > c.threads,
                 IF c.env.strategy \in {0, 3} THEN threeOr(5) ELSE 5>>,
               <<~IsDecode(c) /\ c.env.promptAlgo = 2, RegimeAlgo(c, safe)>>,
               <<PhaseAlgo(c) \in 1 .. 5, Guarded(PhaseAlgo(c), safe, c.nTileSafe)>>,
               <<Ops(c) >= c.threads, threeOr(1)>>,
               <<Ops(c) <= FewExpertsAlgo1 \/ ~IsDecode(c), 1>>,
               <<TRUE, threeOr(1)>> >>
             S == {i \in DOMAIN rules : rules[i][1]}
  <2>1. AutoSelect(c, safe) = rules[Min(S)][2] BY DEF AutoSelect
  <2>2. DOMAIN rules = 1 .. 9 /\ rules[9][1] OBVIOUS
  <2>3. S \in SUBSET Nat /\ S # {}
    <3> HIDE DEF rules
    <3>1. 9 \in S
      <4>1. 9 \in DOMAIN rules BY <2>2
      <4> QED BY <2>2, <4>1
    <3>2. \A i \in S : i \in 1 .. 9 BY <2>2
    <3> HIDE DEF S
    <3> QED BY <3>1, <3>2
  <2>4. Min(S) \in S
    <3> HIDE DEF S
    <3> QED BY <2>3, LeastIsIn
  <2>5. RegimeAlgo(c, safe) \in 1 .. 5 BY RegimeIsRun
  <2>6. threeOr(1) \in 1 .. 5 /\ threeOr(5) \in 1 .. 5 OBVIOUS
  <2>7. \A i \in 1 .. 9 : rules[i][1] => rules[i][2] \in 1 .. 5
    <3>1. rules[1][2] \in 1 .. 5 OBVIOUS
    <3>2. rules[2][2] \in 1 .. 5 OBVIOUS
    <3>3. rules[3][2] \in 1 .. 5 BY <2>5
    <3>4. rules[4][2] \in 1 .. 5 BY <2>6
    <3>5. rules[5][2] \in 1 .. 5 BY <2>5
    <3>6. rules[6][1] => rules[6][2] \in 1 .. 5 BY <1>1
    <3>7. rules[7][2] \in 1 .. 5 BY <2>6
    <3>8. rules[8][2] \in 1 .. 5 OBVIOUS
    <3>9. rules[9][2] \in 1 .. 5 BY <2>6
    <3> HIDE DEF rules
    <3> QED BY <3>1, <3>2, <3>3, <3>4, <3>5, <3>6, <3>7, <3>8, <3>9
  <2>8. Min(S) \in 1 .. 9 /\ rules[Min(S)][1] BY <2>2, <2>4
  <2> HIDE DEF rules, S
  <2> QED BY <2>1, <2>7, <2>8
<1> QED BY <1>1, <1>2 DEF Select

\* The regions of a pass that splits its experts by rows hold every row once;
\* a refused pass has none.
LEMMA RegionsCover ==
  ASSUME NEW c, IsCall(c), NEW op \in 1 .. 2, Select(c, op) # 3
  PROVE  /\ IsPass(Regions(c, op), c, c.threads)
         /\ Refused(c, op) \/ PassHolds(Regions(c, op), c, c.threads)
<1>1. CASE Active(c) = {} \/ Refused(c, op)
  <2>1. Regions(c, op) = <<>> BY <1>1 DEF Regions
  <2>2. Len(<<>>) = 0 /\ DOMAIN <<>> = 1 .. 0 /\ 1 .. 0 = {} OBVIOUS
  <2>3. IsPass(<<>>, c, c.threads) BY <2>2 DEF IsPass
  <2>4. Active(c) = {} => PassHolds(<<>>, c, c.threads) BY DEF PassHolds
  <2> QED BY <1>1, <2>1, <2>3, <2>4
<1>2. CASE Active(c) # {} /\ ~Refused(c, op)
  <2>1. Regions(c, op) =
          CASE Select(c, op) = 1 -> SequentialRegions(c)
            [] Select(c, op) = 2 -> MTileRegions(c)
            [] Select(c, op) = 4 -> MultilevelRegions(c)
            [] Select(c, op) = 5 -> PerExpertRegions(c)
    BY <1>2 DEF Regions
  <2>2. Select(c, op) \in {1, 2, 4, 5} BY SelectIsRun
  <2>3. Covers(Regions(c, op), c)
    <3>1. PICK a : a = Select(c, op) OBVIOUS
    <3>2. CASE a = 1 BY <2>1, <3>1, <3>2, SequentialCovers
    <3>3. CASE a = 2 BY <2>1, <3>1, <3>3, MTileCovers
    <3>4. CASE a = 4 BY <2>1, <3>1, <3>4, MultilevelCovers
    <3>5. CASE a = 5 BY <2>1, <3>1, <3>5, PerExpertCovers
    <3> QED BY <2>2, <3>1, <3>2, <3>3, <3>4, <3>5
  <2> QED BY <2>3 DEF Covers
<1> QED BY <1>1, <1>2

LEMMA SeatsPartition ==
  ASSUME NEW c, IsCall(c)
  PROVE  SlicesPartition(Job(c))
<1>1. PICK T, S : T = c.threads /\ S = Active(c) OBVIOUS
<1>2. PICK s : s = SingleTierSeats(c) OBVIOUS
<1>3. AreLots(s, T, c, S) /\ (NumActive(c) <= T => HoldAll(s, T, c, S))
  BY <1>1, <1>2, SingleTierIsLots
<1>4. PICK j : j = Job(c) OBVIOUS
<1>5. j.M = c.M /\ j.slices = s /\ (j.tries <=> Tries(c)) BY <1>2, <1>4 DEF Job
<1>6. DOMAIN s = 1 .. T /\ DOMAIN j.M = Experts(c) BY <1>3, <1>5, CallIsShaped DEF AreLots
<1>7. ASSUME NEW t \in 1 .. T, s[t] # <<>> PROVE IsRows(j, s[t][1])
  <2>1. IsLot(s[t], c, S) BY <1>3 DEF AreLots
  <2>2. PICK x : s[t] = <<x>> /\ RowsOf(x, c, S) BY <1>7, <2>1 DEF IsLot
  <2>3. s[t][1] = x BY <2>2
  <2>4. x.e \in Experts(c) BY <1>1, <2>2, CallIsShaped DEF RowsOf
  <2> QED BY <1>5, <1>6, <2>2, <2>3, <2>4 DEF RowsOf, IsRows
<1>8. ASSUME NEW t \in 1 .. T, NEW u \in 1 .. T, t # u, s[t] # <<>>, s[u] # <<>>
      PROVE  Apart(s[t][1], s[u][1])
  BY <1>3, <1>8 DEF AreLots, LotsApart
<1>9. ASSUME Tries(c), NEW e \in DOMAIN j.M, NEW m \in 0 .. j.M[e] - 1
      PROVE  \E t \in 1 .. T : s[t] # <<>> /\ Holds(s[t][1], e, m)
  <2>1. NumActive(c) <= T BY <1>1, <1>9 DEF Tries
  <2>2. e \in Experts(c) /\ c.M[e] \in Nat /\ m \in 0 .. c.M[e] - 1 BY <1>5, <1>6, CallIsShaped
  <2>3. c.M[e] > 0 BY <2>2
  <2>4. e \in S BY <1>1, <2>2, <2>3 DEF Active
  <2>5. PICK t \in 1 .. T : LotHolds(s[t], e, m) BY <1>3, <2>1, <2>2, <2>4 DEF HoldAll
  <2> QED BY <2>5 DEF LotHolds
<1> QED BY <1>4, <1>5, <1>6, <1>7, <1>8, <1>9 DEF SlicesPartition

LEMMA CallIsJob ==
  ASSUME NEW c, IsCall(c), c.threads \in 1 .. MaxTeam
  PROVE  IsJob(Job(c))
<1>1. PICK T \in 1 .. MaxTeam : T = c.threads OBVIOUS
<1>2. DOMAIN SingleTierSeats(c) = 1 .. T BY <1>1, SingleTierIsLots DEF AreLots
<1>3. PICK j : j = Job(c) OBVIOUS
<1>4. /\ j.M = c.M /\ j.slices = SingleTierSeats(c) /\ j.fusedMoe = c.fusedMoe
      /\ j.reuse = c.reuse /\ j.int8 = c.int8 /\ j.groupDq = c.groupDq
      /\ j.refused = Refused(c, 1) /\ j.tries = Tries(c)
  BY <1>3 DEF Job
<1>5. Len(c.M) \in Nat /\ DOMAIN c.M = 1 .. Len(c.M) /\ \A e \in DOMAIN c.M : c.M[e] \in Nat
  BY CallIsShaped DEF Ops, Experts
<1>6. c.fusedMoe \in BOOLEAN /\ c.reuse \in BOOLEAN /\ c.int8 \in BOOLEAN /\ c.groupDq \in BOOLEAN
  BY DEF IsCall
<1>7. Refused(c, 1) \in BOOLEAN BY DEF Refused
<1>8. Tries(c) \in BOOLEAN BY DEF Tries
<1>9. Tries(c) => c.fusedMoe BY DEF Tries
<1>10. {j.fusedMoe, j.reuse, j.int8, j.groupDq, j.refused, j.tries} \subseteq BOOLEAN
  BY <1>4, <1>6, <1>7, <1>8
<1> QED BY <1>1, <1>2, <1>3, <1>4, <1>5, <1>9, <1>10 DEF IsJob

LEMMA CallIsSound ==
  ASSUME NEW c, IsCall(c), c.threads \in 1 .. MaxTeam, Select(c, 1) # 3,
         c.fusedMoe => Select(c, 2) # 3
  PROVE  IsSoundJob(Job(c))
<1>1. PICK j : j = Job(c) OBVIOUS
<1>2. /\ j.M = c.M /\ j.slices = SingleTierSeats(c) /\ j.fusedMoe = c.fusedMoe
      /\ (j.refused <=> Refused(c, 1))
      /\ j.regions[1] = Regions(c, 1) /\ j.regions[2] = Regions(c, 2)
  BY <1>1 DEF Job
<1>3. PICK T : T = c.threads OBVIOUS
<1>4. DOMAIN j.slices = 1 .. T BY <1>2, <1>3, SingleTierIsLots DEF AreLots
<1>5. RegionsPartition(j, 1)
  <2>1. PICK R : R = Regions(c, 1) OBVIOUS
  <2>2. IsPass(R, c, T) /\ (Refused(c, 1) \/ PassHolds(R, c, T))
    BY <1>3, <2>1, RegionsCover
  <2>3. PassHolds(R, c, T) \/ (1 = 1 /\ j.refused) BY <1>2, <2>2
  <2> QED BY <1>2, <1>3, <1>4, <2>1, <2>2, <2>3, PassIsPartition
<1>6. ASSUME c.fusedMoe PROVE RegionsPartition(j, 2)
  <2>1. PICK R : R = Regions(c, 2) OBVIOUS
  <2>2. ~Refused(c, 2) BY DEF Refused
  <2>3. IsPass(R, c, T) /\ PassHolds(R, c, T)
    BY <1>3, <1>6, <2>1, <2>2, RegionsCover
  <2> QED BY <1>2, <1>3, <1>4, <2>1, <2>3, PassIsPartition
<1> QED BY <1>1, <1>2, <1>5, <1>6, CallIsJob, SeatsPartition DEF IsSoundJob

\* Every plan is sound: what MoeTeam asks of its jobs holds of the job of
\* every call, whatever its shape, its team and the tuning of the planners.
THEOREM PlannedJobsAreSound ==
  ASSUME Jobs \subseteq CallJobs
  PROVE  JobsAreSound
<1>1. ASSUME NEW j \in Jobs PROVE IsSoundJob(j)
  <2>1. PICK c \in Calls : j = Job(c) BY DEF CallJobs
  <2>2. IsCall(c) /\ c.threads \in 1 .. MaxTeam /\ Select(c, 1) # 3
        /\ (c.fusedMoe => Select(c, 2) # 3)
    BY CallsAreRuns, CallsSplitRows
  <2> QED BY <2>1, <2>2, CallIsSound
<1> QED BY <1>1 DEF JobsAreSound

(***************************************************************************)
(* What is multiplied                                                      *)
(***************************************************************************)

\* No row is multiplied twice by a weight or left out of a call that
\* succeeds, whatever executors the call selects and however they share its
\* rows out.
THEOREM PlannedRowsOnce ==
  ASSUME Jobs \subseteq CallJobs
  PROVE  Spec => []EachRowOnce
BY PlannedJobsAreSound, RowsOnce

\* The two passes of a call whose pipeline gave up find nothing written.
THEOREM PlannedFallbackIsClean ==
  ASSUME Jobs \subseteq CallJobs
  PROVE  Spec => []FallbackFindsNothingDone
BY PlannedJobsAreSound, FallbackIsClean

\* Every multiplication of a planned call finds its input.
THEOREM PlannedInputsAreThere ==
  ASSUME Jobs \subseteq CallJobs
  PROVE  Spec => StepsReadTheirInput
BY PlannedJobsAreSound, InputsAreThere

\* Planned calls keep the promise to the caller step by step, fused calls
\* whose first weight the custom kernel packed left out.
THEOREM PlannedCallsKeepPromise ==
  ASSUME Jobs \subseteq CallJobs, \A c \in Calls : ~(c.fusedMoe /\ c.prepacked)
  PROVE  Spec => KeepsPromiseSafety
<1>1. ASSUME NEW j \in Jobs PROVE ~(j.fusedMoe /\ j.refused)
  <2>1. PICK c \in Calls : j = Job(c) BY DEF CallJobs
  <2>2. j.fusedMoe = c.fusedMoe /\ j.refused = Refused(c, 1) BY <2>1 DEF Job
  <2> QED BY <2>1, <2>2 DEF Refused
<1> QED BY <1>1, PlannedJobsAreSound, ImplementsPromise
=============================================================================
