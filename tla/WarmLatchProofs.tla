-------------------------- MODULE WarmLatchProofs --------------------------
(***************************************************************************)
(* Proofs about WarmLatch for every set of threads, keys and latches: the  *)
(* safety properties its runs check, and that it implements WarmOnce step  *)
(* by step.                                                                *)
(***************************************************************************)
EXTENDS WarmLatch, TLAPS

Signalling == {"warm", "setDone", "notify"}
Waiting    == {"test", "asleep"}

(* Exactly the owner of a warm and the threads waiting for it hold a latch. *)
HoldersInside ==
    \A t \in Threads : hold[t] # NoLatch <=> pc[t] \in Signalling \cup Waiting

(* The entry of a pool whose warm runs is the latch its owner holds. *)
OwnerHoldsEntry ==
    \A t \in Threads : pc[t] = "warm" => latchMap[key[t]] = hold[t]

(* A latch serves one key and has one owner. *)
LatchIsPrivate ==
    \A t, u \in Threads : hold[t] # NoLatch /\ hold[u] = hold[t] =>
        /\ key[u] = key[t]
        /\ pc[t] \in Signalling /\ pc[u] \in Signalling => u = t

(* done is set on a latch only after its key is on record. *)
DoneMeansRecorded ==
    \A t \in Threads : hold[t] # NoLatch /\ latchDone[hold[t]] =>
        key[t] \in doneFps

(* A thread that waits on a latch not yet done has an owner that will set
   done; one that sleeps has an owner that will notify. *)
WaiterHasOwner ==
    \A t \in Threads : pc[t] \in Waiting /\ ~latchDone[hold[t]] =>
        \E u \in Threads : pc[u] \in {"warm", "setDone"} /\ hold[u] = hold[t]

(* What the tables say, who holds what, and who still owes whom a wakeup. *)
TableInv  == ThroughMeansWarm /\ OneWarmer /\ MapIsInFlight
HolderInv == HoldersInside /\ OwnerHoldsEntry /\ LatchIsPrivate
WakeInv   == DoneMeansRecorded /\ WaiterHasOwner /\ SleeperHasWaker

LatchInv == TypeOK /\ TableInv /\ HolderInv /\ WakeInv
----------------------------------------------------------------------------
(* The types hold initially and every step keeps them. *)
LEMMA TypeInit == Init => TypeOK
  BY LatchAssumption DEF Init, TypeOK, PcStates

LEMMA TypeStep == TypeOK /\ [Next]_vars => TypeOK'
<1> SUFFICES ASSUME TypeOK, [Next]_vars PROVE TypeOK'
  OBVIOUS
<1> USE DEF TypeOK, PcStates, env, tables, Goto, Drop
<1>1. ASSUME NEW t \in Threads, PreludeDisabled(t)
      PROVE TypeOK'
  BY <1>1 DEF PreludeDisabled
<1>2. ASSUME NEW t \in Threads, NEW k \in Keys, PreludeReadsMode(t, k)
      PROVE TypeOK'
  BY <1>2 DEF PreludeReadsMode
<1>3. ASSUME NEW t \in Threads, NEW c \in Contexts, AlreadyWarmed(t, c)
      PROVE TypeOK'
  BY <1>3 DEF AlreadyWarmed
<1>4. ASSUME NEW t \in Threads, PlainWarmEnds(t)
      PROVE TypeOK'
  BY <1>4 DEF PlainWarmEnds
<1>5. ASSUME NEW t \in Threads, FetchSkips(t)
      PROVE TypeOK'
  BY <1>5 DEF FetchSkips
<1>6. ASSUME NEW t \in Threads, NEW l \in Latches, FetchOwns(t, l)
      PROVE TypeOK'
  BY <1>6 DEF FetchOwns
<1>7. ASSUME NEW t \in Threads, FetchWaits(t)
      PROVE TypeOK'
  BY <1>7 DEF FetchWaits
<1>8. ASSUME NEW t \in Threads, SignalRecords(t)
      PROVE TypeOK'
  BY <1>8 DEF SignalRecords
<1>9. ASSUME NEW t \in Threads, SignalSetsDone(t)
      PROVE TypeOK'
  BY <1>9 DEF SignalSetsDone
<1>10. ASSUME NEW t \in Threads, SignalNotifies(t)
      PROVE TypeOK'
  BY <1>10 DEF SignalNotifies
<1>11. ASSUME NEW t \in Threads, WaitTests(t)
      PROVE TypeOK'
  BY <1>11 DEF WaitTests
<1>12. ASSUME NEW t \in Threads, SpuriousWake(t)
      PROVE TypeOK'
  BY <1>12 DEF SpuriousWake
<1>13. ASSUME NEW t \in Threads, Return(t)
      PROVE TypeOK'
  BY <1>13 DEF Return
<1>14. ASSUME NEW b \in BOOLEAN, SetMixed(b)
      PROVE TypeOK'
  BY <1>14 DEF SetMixed
<1>15. CASE ClearFingerprints
  BY <1>15 DEF ClearFingerprints
<1>16. CASE UNCHANGED vars
  BY <1>16 DEF vars
<1> QED
  BY <1>1, <1>2, <1>3, <1>4, <1>5, <1>6, <1>7, <1>8, <1>9, <1>10, <1>11, <1>12, <1>13, <1>14, <1>15, <1>16
     DEF Next, Step

(* Type correctness of the prelude and its guard, for any number of threads,
   pools and latches. *)
THEOREM TypeCorrect == Spec => []TypeOK
  BY TypeInit, TypeStep, PTL DEF Spec
----------------------------------------------------------------------------
(* The inductive invariant holds initially. *)
LEMMA InvInit == Init => LatchInv
<1> SUFFICES ASSUME Init PROVE LatchInv
  OBVIOUS
<1> USE LatchAssumption DEF Init
<1>1. TypeOK
  BY TypeInit
<1>2. TableInv
  BY DEF TableInv, ThroughMeansWarm, OneWarmer, MapIsInFlight
<1>3. HolderInv
  BY DEF HolderInv, HoldersInside, OwnerHoldsEntry, LatchIsPrivate,
         Signalling, Waiting
<1>4. WakeInv
  BY DEF WakeInv, DoneMeansRecorded, WaiterHasOwner, SleeperHasWaker, Waiting
<1> QED
  BY <1>1, <1>2, <1>3, <1>4 DEF LatchInv

(* Every step keeps it.  The steps that touch a latch are taken conjunct by
   conjunct; the others leave hold, latchDone and latchMap alone. *)
LEMMA InvStep == LatchInv /\ [Next]_vars => LatchInv'
<1> SUFFICES ASSUME LatchInv, [Next]_vars PROVE LatchInv'
  OBVIOUS
<1>0. TypeOK /\ TypeOK'
  BY TypeStep DEF LatchInv
<1> USE LatchAssumption, <1>0
    DEF LatchInv, TypeOK, PcStates, env, tables, Goto, Drop
<1> USE DEF TableInv, ThroughMeansWarm, OneWarmer, MapIsInFlight
<1> USE DEF HolderInv, HoldersInside, OwnerHoldsEntry, LatchIsPrivate,
            Signalling, Waiting
<1> USE DEF WakeInv, DoneMeansRecorded, WaiterHasOwner, SleeperHasWaker
<1>1. ASSUME NEW t \in Threads, PreludeDisabled(t)
      PROVE LatchInv'
  BY <1>1 DEF PreludeDisabled
<1>2. ASSUME NEW t \in Threads, NEW k \in Keys, PreludeReadsMode(t, k)
      PROVE LatchInv'
  BY <1>2 DEF PreludeReadsMode
<1>3. ASSUME NEW t \in Threads, NEW c \in Contexts, AlreadyWarmed(t, c)
      PROVE LatchInv'
  BY <1>3 DEF AlreadyWarmed
<1>4. ASSUME NEW t \in Threads, PlainWarmEnds(t)
      PROVE LatchInv'
  BY <1>4 DEF PlainWarmEnds
<1>5. ASSUME NEW t \in Threads, FetchSkips(t)
      PROVE LatchInv'
  BY <1>5 DEF FetchSkips
<1>6. ASSUME NEW t \in Threads, NEW l \in Latches, FetchOwns(t, l)
      PROVE LatchInv'
  <2>0. l # NoLatch /\ (\A u \in Threads : hold[u] # l)
    BY <1>6 DEF FetchOwns, InUse
  <2>1. TableInv'
    BY <1>6, <2>0 DEF FetchOwns
  <2>2. HolderInv'
    BY <1>6, <2>0 DEF FetchOwns
  <2>3. WakeInv'
    BY <1>6, <2>0 DEF FetchOwns
  <2> QED
    BY <2>1, <2>2, <2>3
<1>7. ASSUME NEW t \in Threads, FetchWaits(t)
      PROVE LatchInv'
  <2>0. PICK w \in Threads :
           pc[w] = "warm" /\ key[w] = key[t] /\ hold[w] = latchMap[key[t]]
    BY <1>7 DEF FetchWaits
  <2>1. TableInv'
    BY <1>7, <2>0 DEF FetchWaits
  <2>2. HolderInv'
    BY <1>7, <2>0 DEF FetchWaits
  <2>3. WakeInv'
    BY <1>7, <2>0 DEF FetchWaits
  <2> QED
    BY <2>1, <2>2, <2>3
<1>8. ASSUME NEW t \in Threads, SignalRecords(t)
      PROVE LatchInv'
  <2>1. TableInv'
    BY <1>8 DEF SignalRecords
  <2>2. HolderInv'
    BY <1>8 DEF SignalRecords
  <2>3. WakeInv'
    BY <1>8 DEF SignalRecords
  <2> QED
    BY <2>1, <2>2, <2>3
<1>9. ASSUME NEW t \in Threads, SignalSetsDone(t)
      PROVE LatchInv'
  <2>1. TableInv'
    BY <1>9 DEF SignalSetsDone
  <2>2. HolderInv'
    BY <1>9 DEF SignalSetsDone
  <2>3. WakeInv'
    BY <1>9 DEF SignalSetsDone
  <2> QED
    BY <2>1, <2>2, <2>3
<1>10. ASSUME NEW t \in Threads, SignalNotifies(t)
      PROVE LatchInv'
  <2>1. TableInv'
    BY <1>10 DEF SignalNotifies
  <2>2. HolderInv'
    BY <1>10 DEF SignalNotifies
  <2>3. WakeInv'
    BY <1>10 DEF SignalNotifies
  <2> QED
    BY <2>1, <2>2, <2>3
<1>11. ASSUME NEW t \in Threads, WaitTests(t)
      PROVE LatchInv'
  <2>1. TableInv'
    BY <1>11 DEF WaitTests
  <2>2. HolderInv'
    BY <1>11 DEF WaitTests
  <2>3. WakeInv'
    BY <1>11 DEF WaitTests
  <2> QED
    BY <2>1, <2>2, <2>3
<1>12. ASSUME NEW t \in Threads, SpuriousWake(t)
      PROVE LatchInv'
  BY <1>12 DEF SpuriousWake
<1>13. ASSUME NEW t \in Threads, Return(t)
      PROVE LatchInv'
  BY <1>13 DEF Return
<1>14. ASSUME NEW b \in BOOLEAN, SetMixed(b)
      PROVE LatchInv'
  BY <1>14 DEF SetMixed
<1>15. CASE ClearFingerprints
  BY <1>15 DEF ClearFingerprints
<1>16. CASE UNCHANGED vars
  BY <1>16 DEF vars
<1> QED
  BY <1>1, <1>2, <1>3, <1>4, <1>5, <1>6, <1>7, <1>8, <1>9, <1>10, <1>11,
     <1>12, <1>13, <1>14, <1>15, <1>16 DEF Next, Step

(* The invariant the theorems below read their conclusions from. *)
THEOREM Invariance == Spec => []LatchInv
  BY InvInit, InvStep, PTL DEF Spec

(* No mixed-mode call computes before the warm of its pool is on record. *)
THEOREM ThroughMeansWarmHolds == Spec => []ThroughMeansWarm
<1>1. LatchInv => ThroughMeansWarm
  BY DEF LatchInv, TableInv
<1> QED
  BY <1>1, Invariance, PTL

(* A pool is never warmed by two threads, nor again after it is on record. *)
THEOREM OneWarmerHolds == Spec => []OneWarmer
<1>1. LatchInv => OneWarmer
  BY DEF LatchInv, TableInv
<1> QED
  BY <1>1, Invariance, PTL

(* The in-flight map holds the latches of running warms and no other. *)
THEOREM MapIsInFlightHolds == Spec => []MapIsInFlight
<1>1. LatchInv => MapIsInFlight
  BY DEF LatchInv, TableInv
<1> QED
  BY <1>1, Invariance, PTL

(* No wakeup is lost: a sleeper's latch still has its notifier. *)
THEOREM SleeperHasWakerHolds == Spec => []SleeperHasWaker
<1>1. LatchInv => SleeperHasWaker
  BY DEF LatchInv, WakeInv
<1> QED
  BY <1>1, Invariance, PTL
----------------------------------------------------------------------------
(* The initial states of the latch are initial states of WarmOnce. *)
LEMMA OnceInitially == Init => Once!OnceInit
  BY LatchAssumption DEF Init, Once!OnceInit, onceWarm, onceRole

(* Every step of the latch is a step of WarmOnce or stutters: the mode read
   names the key, the map's critical section is the arrival, the completion
   record is the end of the warm, and cv.wait returning is the release. *)
LEMMA OnceStep == LatchInv /\ [Next]_vars => [Once!OnceNext]_(Once!onceVars)
<1> SUFFICES ASSUME LatchInv, [Next]_vars
             PROVE [Once!OnceNext]_(Once!onceVars)
  OBVIOUS
<1>0. TypeOK /\ TypeOK'
  BY TypeStep DEF LatchInv
<1>a. /\ onceWarm \in [Keys -> {"cold", "warming", "warm"}]
      /\ onceRole \in [Threads -> {"out", "owner", "waiter", "through"}]
  BY DEF onceWarm, onceRole
<1>b. ASSUME UNCHANGED <<latchMap, doneFps>> PROVE onceWarm' = onceWarm
  BY <1>b DEF onceWarm
<1> USE LatchAssumption, <1>0
    DEF TypeOK, PcStates, env, tables, Goto, Drop
<1>1. ASSUME NEW t \in Threads, PreludeDisabled(t)
      PROVE UNCHANGED Once!onceVars
  <2>1. onceRole' = onceRole
    BY <1>1 DEF PreludeDisabled, onceRole
  <2> QED
    BY <1>1, <1>b, <2>1 DEF PreludeDisabled, Once!onceVars
<1>2. ASSUME NEW t \in Threads, NEW k \in Keys, PreludeReadsMode(t, k)
      PROVE Once!Name(t, k)
  <2>1. onceRole[t] = "out" /\ onceRole' = onceRole
    BY <1>2 DEF PreludeReadsMode, onceRole
  <2> QED
    BY <1>2, <1>b, <2>1 DEF PreludeReadsMode, Once!Name
<1>3. ASSUME NEW t \in Threads, NEW c \in Contexts, AlreadyWarmed(t, c)
      PROVE UNCHANGED Once!onceVars
  <2>1. onceRole' = onceRole
    BY <1>3 DEF AlreadyWarmed, onceRole
  <2> QED
    BY <1>3, <1>b, <2>1 DEF AlreadyWarmed, Once!onceVars
<1>4. ASSUME NEW t \in Threads, PlainWarmEnds(t)
      PROVE UNCHANGED Once!onceVars
  <2>1. onceRole' = onceRole
    BY <1>4 DEF PlainWarmEnds, onceRole
  <2> QED
    BY <1>4, <1>b, <2>1 DEF PlainWarmEnds, Once!onceVars
<1>5. ASSUME NEW t \in Threads, FetchSkips(t)
      PROVE Once!Arrive(t)
  <2>1. onceWarm[key[t]] = "warm"
    BY <1>5 DEF FetchSkips, onceWarm
  <2>2. onceRole[t] = "out" /\ onceRole' = [onceRole EXCEPT ![t] = "through"]
    BY <1>5 DEF FetchSkips, onceRole
  <2>3. onceWarm' = onceWarm
    BY <1>5, <1>b DEF FetchSkips
  <2> QED
    BY <1>5, <1>a, <2>1, <2>2, <2>3 DEF FetchSkips, Once!Arrive, Once!RoleOnArrival
<1>6. ASSUME NEW t \in Threads, NEW l \in Latches, FetchOwns(t, l)
      PROVE Once!Arrive(t)
  <2>1. onceWarm[key[t]] = "cold"
    BY <1>6 DEF FetchOwns, onceWarm
  <2>2. onceRole[t] = "out" /\ onceRole' = [onceRole EXCEPT ![t] = "owner"]
    BY <1>6 DEF FetchOwns, onceRole
  <2>3. onceWarm' = [onceWarm EXCEPT ![key[t]] = "warming"]
    <3>1. l # NoLatch
      OBVIOUS
    <3> QED
      BY <1>6, <3>1 DEF FetchOwns, onceWarm
  <2> QED
    BY <1>6, <1>a, <2>1, <2>2, <2>3 DEF FetchOwns, Once!Arrive, Once!RoleOnArrival
<1>7. ASSUME NEW t \in Threads, FetchWaits(t)
      PROVE Once!Arrive(t)
  <2>1. onceWarm[key[t]] = "warming"
    BY <1>7 DEF FetchWaits, onceWarm
  <2>2. onceRole[t] = "out" /\ onceRole' = [onceRole EXCEPT ![t] = "waiter"]
    BY <1>7 DEF FetchWaits, onceRole
  <2>3. onceWarm' = onceWarm
    BY <1>7, <1>b DEF FetchWaits
  <2> QED
    BY <1>7, <1>a, <2>1, <2>2, <2>3 DEF FetchWaits, Once!Arrive, Once!RoleOnArrival
<1>8. ASSUME NEW t \in Threads, SignalRecords(t)
      PROVE Once!Complete(t)
  <2>1. onceRole[t] = "owner" /\ onceRole' = [onceRole EXCEPT ![t] = "through"]
    BY <1>8 DEF SignalRecords, onceRole
  <2>2. onceWarm' = [onceWarm EXCEPT ![key[t]] = "warm"]
    BY <1>8 DEF SignalRecords, onceWarm
  <2> QED
    BY <1>8, <2>1, <2>2 DEF SignalRecords, Once!Complete
<1>9. ASSUME NEW t \in Threads, SignalSetsDone(t)
      PROVE UNCHANGED Once!onceVars
  <2>1. onceRole' = onceRole
    BY <1>9 DEF SignalSetsDone, onceRole
  <2> QED
    BY <1>9, <1>b, <2>1 DEF SignalSetsDone, Once!onceVars
<1>10. ASSUME NEW t \in Threads, SignalNotifies(t)
      PROVE UNCHANGED Once!onceVars
  <2>1. onceRole' = onceRole
    BY <1>10 DEF SignalNotifies, onceRole
  <2> QED
    BY <1>10, <1>b, <2>1 DEF SignalNotifies, Once!onceVars
<1>11. ASSUME NEW t \in Threads, WaitTests(t)
      PROVE Once!Release(t) \/ UNCHANGED Once!onceVars
  <2>1. CASE latchDone[hold[t]]
    <3>1. key[t] \in doneFps
      BY <1>11, <2>1 DEF WaitTests, LatchInv, HolderInv, HoldersInside,
                        WakeInv, DoneMeansRecorded, Waiting
    <3>2. onceWarm[key[t]] = "warm"
      BY <3>1 DEF onceWarm
    <3>3. pc[t] = "test" /\ pc' = [pc EXCEPT ![t] = "run"]
      BY <1>11, <2>1, Zenon DEF WaitTests
    <3>4. /\ onceRole[t] = "waiter"
          /\ onceRole' = [onceRole EXCEPT ![t] = "through"]
      BY <3>3 DEF onceRole
    <3> QED
      BY <1>11, <1>b, <3>2, <3>4 DEF WaitTests, Once!Release
  <2>2. CASE ~latchDone[hold[t]]
    <3>1. onceRole' = onceRole
      BY <1>11, <2>2 DEF WaitTests, onceRole
    <3> QED
      BY <1>11, <1>b, <3>1 DEF WaitTests, Once!onceVars
  <2> QED
    BY <2>1, <2>2
<1>12. ASSUME NEW t \in Threads, SpuriousWake(t)
      PROVE UNCHANGED Once!onceVars
  <2>1. onceRole' = onceRole
    BY <1>12 DEF SpuriousWake, onceRole
  <2> QED
    BY <1>12, <1>b, <2>1 DEF SpuriousWake, Once!onceVars
<1>13. ASSUME NEW t \in Threads, Return(t)
      PROVE Once!Leave(t) \/ UNCHANGED Once!onceVars
  <2>1. CASE pc[t] = "run"
    <3>1. /\ onceRole[t] = "through"
          /\ onceRole' = [onceRole EXCEPT ![t] = "out"]
      BY <1>13, <2>1 DEF Return, onceRole
    <3> QED
      BY <1>13, <1>b, <3>1 DEF Return, Once!Leave
  <2>2. CASE pc[t] = "runPlain"
    <3>1. onceRole' = onceRole
      BY <1>13, <2>2 DEF Return, onceRole
    <3> QED
      BY <1>13, <1>b, <3>1 DEF Return, Once!onceVars
  <2> QED
    BY <1>13, <2>1, <2>2 DEF Return
<1>14. ASSUME NEW b \in BOOLEAN, SetMixed(b)
      PROVE UNCHANGED Once!onceVars
  <2>1. onceRole' = onceRole
    BY <1>14 DEF SetMixed, onceRole
  <2> QED
    BY <1>14, <1>b, <2>1 DEF SetMixed, Once!onceVars
<1>15. CASE ClearFingerprints
  <2>1. \A t \in Threads : onceRole[t] = "out"
    BY <1>15 DEF ClearFingerprints, onceRole
  <2>2. onceRole' = onceRole /\ onceWarm' = [k \in Keys |-> "cold"]
    BY <1>15 DEF ClearFingerprints, onceRole, onceWarm
  <2> QED
    BY <1>15, <2>1, <2>2 DEF ClearFingerprints, Once!Forget, Once!OnceNext
<1>16. CASE UNCHANGED vars
  <2>1. onceRole' = onceRole
    BY <1>16 DEF vars, onceRole
  <2> QED
    BY <1>16, <1>b, <2>1 DEF vars, Once!onceVars
<1> QED
  BY <1>1, <1>2, <1>3, <1>4, <1>5, <1>6, <1>7, <1>8, <1>9, <1>10, <1>11,
     <1>12, <1>13, <1>14, <1>15, <1>16 DEF Next, Step, Once!OnceNext

(* The latch implements the safety part of WarmOnce: callers of the prelude
   may reason with warm-once instead of mutexes and condition variables. *)
THEOREM ImplementsWarmOnceSafety ==
    Spec => Once!OnceInit /\ [][Once!OnceNext]_(Once!onceVars)
  BY OnceInitially, OnceStep, Invariance, PTL DEF Spec
=============================================================================
