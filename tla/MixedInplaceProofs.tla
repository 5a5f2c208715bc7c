------------------------- MODULE MixedInplaceProofs -------------------------
(***************************************************************************)
(* Proofs about MixedInplace: what the dispatcher's verdict, the warm      *)
(* latch, the two prepack phases and the two weight caches keep together,  *)
(* for any number of threads, weights and pools.                           *)
(***************************************************************************)
EXTENDS MixedInplace, TLAPS

----------------------------------------------------------------------------
(* The places of a call: inside the warm, and past it. *)

Warming == {"order", "ck", "ckFlag", "ckLoop", "downgrade", "downgraded", "aocl",
            "aoclFlag", "aoclType", "aoclLoop", "aoclCopy", "warmed"}
PastWarm == {"compute", "reorder", "reorderCopy", "ckMode", "ckFetch", "gemm"}

Automatic == env.algo = "auto"
UsedLayouts == PromptLayouts \cup DecodeLayouts

\* The CK packs of t's pool in its layout are there; so are the AOCL entries.
CkDone(t) == \A w \in Pool(t) : ck[Slot(t, w)] # "none"
AoclDone(ws) == \A w \in ws : aocl[w] # "none"
Covered(p) ==
    \A w \in p : aocl[w] # "none" /\ \A l \in DecodeLayouts : ck[<<w, l>>] # "none"

\* A call names the layout of its phase, and decode comes after a warm-up.
JobOf(t) ==
    pc[t] # "out" =>
        /\ job[t].layout \in UsedLayouts
        /\ job[t].phase = "decode" => job[t].layout \in DecodeLayouts
        /\ env.algo \in {"auto", job[t].phase}
        /\ pc[t] \in {"reorder", "reorderCopy"} => job[t].phase = "prompt"
        /\ pc[t] \in {"ckMode", "ckFetch"} => job[t].phase = "decode"
        /\ job[t].phase = "decode" /\ env.warmUp => Pool(t) \in served

JobInv == \A t \in Threads : JobOf(t)

\* Where t is says what its role at the latch is.
RoleAt(label) ==
    IF label \in Warming THEN "owner"
    ELSE IF label \in PastWarm THEN "through"
    ELSE IF label = "wait" THEN "waiter" ELSE "out"

\* While the process is in mixed mode: the flag is up, every call goes by the
\* latch under the key of its pool, and the plan is the one of its phase.
ControlOf(t) ==
    /\ pc[t] \notin {"out", "gateSet"} => mixed
    /\ pc[t] \notin {"probe", "downgraded"}
    /\ role[t] = RoleAt(pc[t])
    /\ pc[t] \notin {"out", "gateSet", "mode", "name"} => at[t] = <<Pool(t), 2>>
    /\ pc[t] \in PastWarm => warm[at[t]] = "warm"
    /\ pc[t] \in Warming \ {"order"} =>
          plan[t] = IF job[t].phase = "prompt" THEN "mixed" ELSE "decode"

\* How far its warm has come.
ProgressOf(t) ==
    /\ pc[t] = "ckFlag" => todo[t] = Pool(t)
    /\ pc[t] = "ckLoop" /\ (whole[t] \/ job[t].phase = "decode") =>
          \A w \in Pool(t) \ todo[t] : ck[Slot(t, w)] # "none"
    /\ pc[t] \in {"aocl", "aoclFlag", "aoclType", "aoclLoop", "aoclCopy", "warmed"} => CkDone(t)
    /\ pc[t] \in {"aoclFlag", "aoclType"} => todo[t] = Pool(t)
    /\ pc[t] \in {"aoclLoop", "aoclCopy"} => AoclDone(Pool(t) \ todo[t])
    /\ pc[t] = "warmed" => AoclDone(Pool(t))

MixedModeInv ==
    Automatic /\ wc = 2 =>
        /\ \A t \in Threads : ControlOf(t) /\ ProgressOf(t)
        /\ \A p \in Pools : warm[<<p, 2>>] = "warm" => Covered(p)
        /\ \A p \in served : warm[<<p, 2>>] = "warm"

\* A call that has read the mode and may still act on it after the process has
\* left it.
OnPath(t) ==
    \/ pc[t] \in {"aoclFlag", "aoclType"}
    \/ pc[t] \in {"aoclLoop", "aoclCopy"} /\ wct[t] = 2

LateOf(t) ==
    /\ OnPath(t) => CkDone(t) /\ todo[t] \subseteq Pool(t)
    /\ pc[t] = "reorder" /\ wct[t] = 2 => AoclDone(todo[t])
    /\ pc[t] # "reorderCopy"
    /\ pc[t] \in {"ckMode", "ckFetch"} /\ wct[t] = 2 => CkDone(t)
    /\ pc[t] = "ckFetch" /\ inPlace[t] => wct[t] = 2
    /\ pc[t] = "downgraded" => wc = 1

LateInv == Automatic => \A t \in Threads : LateOf(t)

\* With a pinned algorithm the process never enters mixed mode, warms nothing
\* and caches in place.
PinnedOf(t) ==
    /\ pc[t] \notin {"name", "arrive", "wait", "downgrade", "downgraded",
                     "aoclType", "aoclCopy"}
    /\ plan[t] # "mixed" /\ role[t] = "out"
    /\ pc[t] \in {"ckLoop", "aoclLoop"} => todo[t] = {}
    /\ pc[t] \in {"ckMode", "ckFetch"} => wct[t] = 2
    /\ pc[t] = "ckFetch" => inPlace[t]

PinnedInv ==
    ~Automatic => /\ wc = 2 /\ mixed = FALSE
             /\ warm = [k \in Keys |-> "cold"]
             /\ \A t \in Threads : PinnedOf(t)

\* The weights and the two caches.
Copying(t) == pc[t] \in {"aoclCopy", "reorderCopy"}
CopyInv ==
    \A t \in Threads : Copying(t) =>
        /\ holder = t /\ on[t] \in todo[t]
        /\ aocl[on[t]] = "none" /\ buf[on[t]] = "torn"

AoclOf(w) ==
    /\ aocl[w] \in {"none", "good", "user"}
    /\ aocl[w] = "none" => buf[w] = "raw" \/ \E t \in Threads : Copying(t) /\ on[t] = w
    /\ aocl[w] = "good" => buf[w] = "raw"
    /\ aocl[w] = "user" => buf[w] = "aocl"

CkOf(w, l) == ck[<<w, l>>] \in {"none", "good"} /\ (ck[<<w, l>>] = "none" => buf[w] = "raw")

InPlaceCkOf(w, l) ==
    IF ck[<<w, l>>] = "none" THEN buf[w] = "raw" ELSE ck[<<w, l>>] = "user" /\ buf[w] = "ck"

WeightsInv ==
    /\ env.algo # "decode" => \A w \in Weights : AoclOf(w)
    /\ env.algo = "decode" => \A w \in Weights :
          aocl[w] = "none" /\ buf[w] \in {"raw", "ck"} /\ \A l \in UsedLayouts : InPlaceCkOf(w, l)
    /\ Automatic => \A w \in Weights, l \in UsedLayouts : CkOf(w, l)

\* What a GEMM has read.
PlainIsSafe(t) ==
    /\ Automatic /\ wc = 1 /\ buf[on[t]] = "raw"
    /\ \A u \in Threads : OnPath(u) => on[t] \notin Pool(u)

GemmOf(t) ==
    pc[t] = "gemm" =>
        \/ operand[t] = "good"
        \/ operand[t] = "user" /\ job[t].phase = "prompt" /\ env.algo # "decode"
             /\ aocl[on[t]] = "user"
        \/ operand[t] = "user" /\ job[t].phase = "decode" /\ env.algo = "decode"
             /\ buf[on[t]] = "ck"
        \/ operand[t] = "plain" /\ job[t].phase = "decode" /\ PlainIsSafe(t)

GemmInv == \A t \in Threads : GemmOf(t)

SafetyInv == JobInv /\ MixedModeInv /\ LateInv /\ PinnedInv /\ CopyInv /\ WeightsInv /\ GemmInv
----------------------------------------------------------------------------
(* Types, and that a step of a thread leaves the others' variables alone. *)

\* The steps of a thread, by the part of the code they are in.
Enters(t) == GateSets(t) \/ \E j \in Jobs : Call(t, j)
InPrelude(t) ==
    PreludeReadsMode(t) \/ Names(t) \/ Arrives(t) \/ IsReleased(t) \/ Probes(t)
WarmsCk(t) ==
    \/ Orders(t) \/ CkWarmReadsType(t) \/ CkWarmReadsFlag(t) \/ CkWarmEnds(t)
    \/ \E w \in Weights : CkWarms(t, w) \/ CkWarmFails(t, w)
    \/ DowngradesType(t) \/ DowngradesFlag(t)
WarmsAocl(t) ==
    \/ AoclWarmReadsType(t) \/ AoclWarmReadsFlag(t) \/ AoclWarmReadsFlagAgain(t)
    \/ AoclWarmEnds(t) \/ WarmReturns(t)
InReorder(t) ==
    \/ \E w \in Weights : \/ PromptComputes(t, w) \/ ReorderHits(t, w)
                          \/ ReordersOutOfPlace(t, w) \/ InPlaceBegins(t, w)
    \/ InPlaceEnds(t)
InDecode(t) ==
    \/ DecodeReadsType(t) \/ DecodeReadsMode(t)
    \/ \E w \in Weights : \/ CkHits(t, w) \/ CkPacksOutOfPlace(t, w)
                          \/ CkPacksInPlace(t, w) \/ CkRefuses(t, w)

Acts(t) ==
    \/ Enters(t) \/ InPrelude(t) \/ WarmsCk(t) \/ WarmsAocl(t)
    \/ InReorder(t) \/ InDecode(t) \/ Returns(t)

\* Every step is one of these, or none.
LEMMA StepKinds ==
    ASSUME [Next]_vars
    PROVE  (\E t \in Threads : Acts(t)) \/ UNCHANGED vars
<1>1. ASSUME NEW t \in Threads, Step(t)
      PROVE  Acts(t)
  BY <1>1 DEF Step, Acts, Enters, InPrelude, WarmsCk, WarmsAocl, InReorder, InDecode
<1>2. ASSUME NEW t \in Threads, NEW j \in Jobs, Call(t, j)
      PROVE  Acts(t)
  BY <1>2 DEF Acts, Enters
<1> QED BY <1>1, <1>2 DEF Next

\* What belongs to a thread alone.
SameLocals(u) ==
    /\ pc'[u] = pc[u] /\ job'[u] = job[u] /\ role'[u] = role[u] /\ at'[u] = at[u]
    /\ plan'[u] = plan[u] /\ whole'[u] = whole[u] /\ wct'[u] = wct[u]
    /\ inPlace'[u] = inPlace[u] /\ todo'[u] = todo[u] /\ on'[u] = on[u]
    /\ operand'[u] = operand[u]

LEMMA OthersKept ==
    ASSUME TypeOK, NEW t \in Threads, Acts(t), NEW u \in Threads, u # t
    PROVE  SameLocals(u)
<1> USE DEF Goto, Moves, latch, calls, local, config, TypeOK, SameLocals
<1>1. CASE Enters(t)
  BY <1>1 DEF Enters, GateSets, Call
<1>2. CASE InPrelude(t)
  BY <1>2 DEF InPrelude, PreludeReadsMode, Names, Arrives, IsReleased, Probes,
     Once!Name, Once!Arrive, Once!Release
<1>3. CASE WarmsCk(t)
  BY <1>3 DEF WarmsCk, Orders, CkWarmReadsType, CkWarmReadsFlag, CkWarmEnds, CkWarms,
     CkWarmFails, DowngradesType, DowngradesFlag
<1>4. CASE WarmsAocl(t)
  BY <1>4 DEF WarmsAocl, AoclWarmReadsType, AoclWarmReadsFlag,
     AoclWarmReadsFlagAgain, AoclWarmEnds, WarmReturns, Once!Complete
<1>5. CASE InReorder(t)
  BY <1>5 DEF InReorder, PromptComputes, ReorderHits, ReordersOutOfPlace,
     InPlaceBegins, InPlaceEnds, Reordered
<1>6. CASE InDecode(t)
  BY <1>6 DEF InDecode, DecodeReadsType, DecodeReadsMode, CkHits,
     CkPacksOutOfPlace, CkPacksInPlace, CkRefuses, Decodes
<1>7. CASE Returns(t)
  BY <1>7 DEF Returns, Once!Leave
<1> QED BY <1>1, <1>2, <1>3, <1>4, <1>5, <1>6, <1>7 DEF Acts

\* Initially the types are right.
LEMMA TypesInit == Init => TypeOK
<1> SUFFICES ASSUME Init PROVE TypeOK
  OBVIOUS
<1>1. Jobs # {}
  <2>1. PICK k \in Keys : TRUE
    BY DEF Init
  <2>2. PICK l \in Layouts : TRUE
    BY MixedAssumption
  <2>3. [phase |-> "prompt", pool |-> k[1], layout |-> l] \in Jobs
    BY <2>1, <2>2 DEF Jobs, Phases, Keys
  <2> QED BY <2>3
<1>2. (CHOOSE j \in Jobs : TRUE) \in Jobs
  BY <1>1
<1>3. AnyWeight \in Weights
  BY MixedAssumption DEF AnyWeight
<1>4. at \in [Threads -> Keys]
  BY DEF Init
<1> QED BY <1>2, <1>3, <1>4 DEF Init, TypeOK, Once!OnceInit, PcStates

\* Where a reorder leaves its caller, and with what.
LEMMA ReorderedTypes ==
    ASSUME TypeOK, NEW t \in Threads, NEW w \in Weights,
           NEW v \in {"user", "good", "bad"}, Reordered(t, w, v)
    PROVE  /\ pc' \in [Threads -> PcStates]
           /\ operand' \in [Threads -> {"user", "good", "bad", "plain"}]
<1>1. v \in {"user", "good", "bad", "plain"} /\ {"aoclLoop", "gemm"} \subseteq PcStates
  BY DEF PcStates
<1>2. pc \in [Threads -> PcStates] /\ operand \in [Threads -> {"user", "good", "bad", "plain"}]
  BY DEF TypeOK
<1>3. CASE pc[t] \in {"aoclLoop", "aoclCopy"}
  <2>1. pc' = [pc EXCEPT ![t] = "aoclLoop"] /\ operand' = operand
    BY <1>3 DEF Reordered, Goto
  <2> QED BY <1>1, <1>2, <2>1
<1>4. CASE pc[t] \notin {"aoclLoop", "aoclCopy"}
  <2>1. pc' = [pc EXCEPT ![t] = "gemm"] /\ operand' = [operand EXCEPT ![t] = v]
    BY <1>4 DEF Reordered, Goto
  <2> QED BY <1>1, <1>2, <2>1
<1> QED BY <1>3, <1>4

\* Every step keeps them.
LEMMA TypeStep ==
    ASSUME TypeOK, [Next]_vars
    PROVE  TypeOK'
<1>1. CASE UNCHANGED vars
  BY <1>1 DEF vars, config, latch, calls, caches, local, TypeOK
<1>2. ASSUME NEW t \in Threads, Acts(t)
      PROVE  TypeOK'
  <2>1. job[t] \in Jobs /\ Pool(t) \in Pools /\ Pool(t) \subseteq Weights
        /\ \A w : Slot(t, w) = <<w, job[t].layout>> /\ job[t].layout \in Layouts
    BY MixedAssumption DEF TypeOK, Jobs, Pool, Slot
  <2>2. (CHOOSE j \in Jobs : TRUE) \in Jobs /\ AnyWeight \in Weights
    BY <2>1, MixedAssumption DEF AnyWeight
  <2>3. \A w : FromRaw(w) \in {"good", "bad"}
    BY DEF FromRaw
  <2> USE DEF Goto, Moves, latch, calls, caches, local, config, TypeOK, PcStates
  <2>4. CASE Enters(t)
    <3>1. CASE GateSets(t)
      <4>1. mixed' \in BOOLEAN
        BY <3>1 DEF GateSets
      <4> QED BY <3>1, <4>1 DEF GateSets
    <3>2. ASSUME NEW j \in Jobs, Call(t, j)
          PROVE  TypeOK'
      BY <3>2 DEF Call
    <3> QED BY <2>4, <3>1, <3>2 DEF Enters
  <2>5. CASE InPrelude(t)
    <3>1. CASE PreludeReadsMode(t)
      BY <3>1 DEF PreludeReadsMode
    <3>2. CASE Names(t)
      <4>1. <<Pool(t), wc>> \in Keys
        BY <2>1 DEF Keys
      <4> QED BY <3>2, <4>1 DEF Names, Once!Name
    <3>3. CASE Arrives(t)
      BY <3>3 DEF Arrives, PcOfRole, Once!Arrive, Once!RoleOnArrival
    <3>4. CASE IsReleased(t)
      BY <3>4 DEF IsReleased, Once!Release
    <3>5. CASE Probes(t)
      BY <2>1, <3>5 DEF Probes
    <3> QED BY <2>5, <3>1, <3>2, <3>3, <3>4, <3>5 DEF InPrelude
  <2>6. CASE WarmsCk(t)
    <3>1. CASE Orders(t)
      BY <3>1 DEF Orders
    <3>2. CASE CkWarmReadsType(t)
      BY <2>1, <3>2 DEF CkWarmReadsType
    <3>3. CASE CkWarmReadsFlag(t)
      BY <3>3 DEF CkWarmReadsFlag
    <3>4. CASE CkWarmEnds(t)
      BY <3>4 DEF CkWarmEnds
    <3>5. ASSUME NEW w \in Weights, CkWarms(t, w)
          PROVE  TypeOK'
      BY <2>1, <2>3, <3>5 DEF CkWarms
    <3>6. ASSUME NEW w \in Weights, CkWarmFails(t, w)
          PROVE  TypeOK'
      BY <3>6 DEF CkWarmFails
    <3>7. CASE DowngradesType(t)
      BY <3>7 DEF DowngradesType
    <3>8. CASE DowngradesFlag(t)
      BY <3>8 DEF DowngradesFlag
    <3> QED BY <2>6, <3>1, <3>2, <3>3, <3>4, <3>5, <3>6, <3>7, <3>8 DEF WarmsCk
  <2>7. CASE WarmsAocl(t)
    <3>1. CASE AoclWarmReadsType(t)
      BY <2>1, <3>1 DEF AoclWarmReadsType
    <3>2. CASE AoclWarmReadsFlag(t)
      BY <3>2 DEF AoclWarmReadsFlag
    <3>3. CASE AoclWarmReadsFlagAgain(t)
      BY <3>3 DEF AoclWarmReadsFlagAgain
    <3>4. CASE AoclWarmEnds(t)
      BY <3>4 DEF AoclWarmEnds
    <3>5. CASE WarmReturns(t)
      BY <2>2, <3>5 DEF WarmReturns, Once!Complete
    <3> QED BY <2>7, <3>1, <3>2, <3>3, <3>4, <3>5 DEF WarmsAocl
  <2>8. CASE InReorder(t)
    <3>1. ASSUME NEW w \in Weights, PromptComputes(t, w)
          PROVE  TypeOK'
      BY <3>1 DEF PromptComputes
    <3>2. ASSUME NEW w \in Weights, ReorderHits(t, w)
          PROVE  TypeOK'
      BY <3>2 DEF ReorderHits, Reorders, Reordered
    <3>3. ASSUME NEW w \in Weights, ReordersOutOfPlace(t, w)
          PROVE  TypeOK'
      <4>1. aocl' \in [Weights -> {"none", "user", "good", "bad"}]
        BY <2>3, <3>3 DEF ReordersOutOfPlace
      <4>2. pc' \in [Threads -> PcStates] /\ operand' \in [Threads -> {"user", "good", "bad", "plain"}]
        BY <2>3, <3>3, ReorderedTypes DEF ReordersOutOfPlace
      <4> QED BY <3>3, <4>1, <4>2 DEF ReordersOutOfPlace, Reordered
    <3>4. ASSUME NEW w \in Weights, InPlaceBegins(t, w)
          PROVE  TypeOK'
      BY <3>4 DEF InPlaceBegins, Reorders
    <3>5. CASE InPlaceEnds(t)
      <4>1. /\ aocl' \in [Weights -> {"none", "user", "good", "bad"}]
            /\ buf' \in [Weights -> {"raw", "torn", "aocl", "ck", "junk"}]
            /\ holder' \in Threads \cup {Nobody}
        BY <3>5 DEF InPlaceEnds
      <4>2. pc' \in [Threads -> PcStates] /\ operand' \in [Threads -> {"user", "good", "bad", "plain"}]
        BY <3>5, ReorderedTypes DEF InPlaceEnds
      <4> QED BY <3>5, <4>1, <4>2 DEF InPlaceEnds, Reordered
    <3> QED BY <2>8, <3>1, <3>2, <3>3, <3>4, <3>5 DEF InReorder
  <2>9. CASE InDecode(t)
    <3>1. CASE DecodeReadsType(t)
      BY <3>1 DEF DecodeReadsType
    <3>2. CASE DecodeReadsMode(t)
      BY <3>2 DEF DecodeReadsMode
    <3>3. ASSUME NEW w \in Weights, CkHits(t, w)
          PROVE  TypeOK'
      BY <2>1, <3>3 DEF CkHits, Decodes
    <3>4. ASSUME NEW w \in Weights, CkPacksOutOfPlace(t, w)
          PROVE  TypeOK'
      BY <2>1, <2>3, <3>4 DEF CkPacksOutOfPlace, Decodes
    <3>5. ASSUME NEW w \in Weights, CkPacksInPlace(t, w)
          PROVE  TypeOK'
      BY <2>1, <3>5 DEF CkPacksInPlace, Decodes
    <3>6. ASSUME NEW w \in Weights, CkRefuses(t, w)
          PROVE  TypeOK'
      BY <3>6 DEF CkRefuses, Decodes
    <3> QED BY <2>9, <3>1, <3>2, <3>3, <3>4, <3>5, <3>6 DEF InDecode
  <2>10. CASE Returns(t)
    BY <2>1, <2>2, <2>10 DEF Returns, Once!Leave
  <2> QED BY <1>2, <2>4, <2>5, <2>6, <2>7, <2>8, <2>9, <2>10 DEF Acts
<1> QED BY <1>1, <1>2, StepKinds

\* Every variable has its type, whatever the environment: TypeOK.
THEOREM TypeCorrect == Spec => []TypeOK
<1>1. TypeOK /\ [Next]_vars => TypeOK'
  BY TypeStep
<1> QED BY <1>1, TypesInit, PTL DEF Spec
----------------------------------------------------------------------------
(* What only grows.  The type goes from 2 to 1 and stays there; a cache entry, *)
(* a completion record and a served pool stay once they are there.            *)

SharedGrows ==
    /\ env' = env /\ (wc' = wc \/ wc' = 1)
    /\ served \subseteq served'
    /\ \A k \in Keys : warm[k] = "warm" => warm'[k] = "warm"
    /\ \A w \in Weights : aocl[w] # "none" => aocl'[w] = aocl[w]
    /\ \A x \in Weights \X Layouts : ck[x] # "none" => ck'[x] = ck[x]

\* A reorder that ends makes an entry that was not there.
LEMMA SharedKept ==
    ASSUME TypeOK, CopyInv, NEW t \in Threads, Acts(t)
    PROVE  SharedGrows
<1> USE DEF Goto, Moves, latch, calls, caches, local, config, SharedGrows
<1>2. CASE Enters(t)
  BY <1>2 DEF Enters, GateSets, Call
<1>3. CASE InPrelude(t)
  BY <1>3 DEF InPrelude, PreludeReadsMode, Names, Arrives, IsReleased, Probes,
     Once!Name, Once!Arrive, Once!Release, TypeOK
<1>4. CASE WarmsCk(t)
  <2>1. ASSUME NEW w \in Weights, CkWarms(t, w)
        PROVE  SharedGrows
    <3>1. ck' = [ck EXCEPT ![Slot(t, w)] = IF @ = "none" THEN FromRaw(w) ELSE @]
      BY <2>1 DEF CkWarms
    <3>2. \A x \in Weights \X Layouts : ck[x] # "none" => ck'[x] = ck[x]
      BY <3>1 DEF TypeOK
    <3> QED BY <2>1, <3>2 DEF CkWarms
  <2>2. ASSUME NEW w \in Weights, CkWarmFails(t, w)
        PROVE  SharedGrows
    BY <2>2 DEF CkWarmFails
  <2>3. CASE \/ Orders(t) \/ CkWarmReadsType(t) \/ CkWarmReadsFlag(t) \/ CkWarmEnds(t)
             \/ DowngradesType(t) \/ DowngradesFlag(t)
    BY <2>3 DEF Orders, CkWarmReadsType, CkWarmReadsFlag, CkWarmEnds, DowngradesType,
       DowngradesFlag
  <2> QED BY <1>4, <2>1, <2>2, <2>3 DEF WarmsCk
<1>5. CASE WarmsAocl(t)
  BY <1>5 DEF WarmsAocl, AoclWarmReadsType, AoclWarmReadsFlag,
     AoclWarmReadsFlagAgain, AoclWarmEnds, WarmReturns, Once!Complete, TypeOK
<1>6. CASE InReorder(t)
  <2>1. CASE InPlaceEnds(t)
    <3>1. aocl[on[t]] = "none"
      BY <2>1 DEF InPlaceEnds, CopyInv, Copying
    <3> QED BY <2>1, <3>1 DEF InPlaceEnds, Reordered, TypeOK
  <2>2. ASSUME NEW w \in Weights,
               \/ PromptComputes(t, w) \/ ReorderHits(t, w)
               \/ ReordersOutOfPlace(t, w) \/ InPlaceBegins(t, w)
        PROVE  SharedGrows
    BY <2>2 DEF PromptComputes, ReorderHits, ReordersOutOfPlace, InPlaceBegins,
       Reordered, TypeOK
  <2> QED BY <1>6, <2>1, <2>2 DEF InReorder
<1>7. CASE InDecode(t)
  <2>1. ASSUME NEW w \in Weights, CkPacksOutOfPlace(t, w) \/ CkPacksInPlace(t, w)
        PROVE  SharedGrows
    <3>1. PICK v : ck' = [ck EXCEPT ![Slot(t, w)] = v]
      BY <2>1 DEF CkPacksOutOfPlace, CkPacksInPlace
    <3>2. ck[Slot(t, w)] = "none"
      BY <2>1 DEF CkPacksOutOfPlace, CkPacksInPlace
    <3>3. \A x \in Weights \X Layouts : ck[x] # "none" => ck'[x] = ck[x]
      BY <3>1, <3>2 DEF TypeOK
    <3> QED BY <2>1, <3>3 DEF CkPacksOutOfPlace, CkPacksInPlace, Decodes
  <2>2. ASSUME NEW w \in Weights, CkHits(t, w) \/ CkRefuses(t, w)
        PROVE  SharedGrows
    BY <2>2 DEF CkHits, CkRefuses, Decodes
  <2>3. CASE DecodeReadsType(t) \/ DecodeReadsMode(t)
    BY <2>3 DEF DecodeReadsType, DecodeReadsMode
  <2> QED BY <1>7, <2>1, <2>2, <2>3 DEF InDecode
<1>8. CASE Returns(t)
  BY <1>8 DEF Returns, Once!Leave
<1> QED BY <1>2, <1>3, <1>4, <1>5, <1>6, <1>7, <1>8 DEF Acts

\* The facts of the other threads stay with what only grows.
LEMMA OthersStay ==
    ASSUME TypeOK, CopyInv, NEW t \in Threads, Acts(t), NEW u \in Threads, u # t
    PROVE  /\ JobOf(u) => JobOf(u)'
           /\ ControlOf(u) /\ (mixed => mixed') => ControlOf(u)'
           /\ ProgressOf(u) => ProgressOf(u)'
           /\ LateOf(u) => LateOf(u)'
           /\ PinnedOf(u) => PinnedOf(u)'
<1>1. SameLocals(u) /\ SharedGrows
  BY OthersKept, SharedKept
<1>2. Pool(u) \subseteq Weights /\ at[u] \in Keys
      /\ \A w \in Pool(u) : Slot(u, w) \in Weights \X Layouts
  BY MixedAssumption DEF TypeOK, Jobs, Pool, Slot
<1>3. Pool(u)' = Pool(u) /\ \A w : Slot(u, w)' = Slot(u, w)
  BY <1>1 DEF Pool, Slot, SameLocals
<1>4. (CkDone(u) => CkDone(u)')
      /\ \A ws \in SUBSET Weights : AoclDone(ws) => AoclDone(ws)'
  BY <1>1, <1>2, <1>3 DEF CkDone, AoclDone, SharedGrows
<1>5. JobOf(u) => JobOf(u)'
  BY <1>1, <1>3 DEF JobOf, SameLocals, SharedGrows
<1>6. ControlOf(u) /\ (mixed => mixed') => ControlOf(u)'
  BY <1>1, <1>2, <1>3 DEF ControlOf, SameLocals, SharedGrows
<1>7. ProgressOf(u) => ProgressOf(u)'
  <2>1. (\A w \in Pool(u) \ todo[u] : ck[Slot(u, w)] # "none")
        => (\A w \in Pool(u) \ todo[u] : ck[Slot(u, w)] # "none")'
    BY <1>1, <1>2, <1>3 DEF SameLocals, SharedGrows
  <2>2. AoclDone(Pool(u) \ todo[u]) => AoclDone(Pool(u) \ todo[u])'
    BY <1>1, <1>2, <1>3 DEF AoclDone, SharedGrows, SameLocals
  <2>3. AoclDone(Pool(u)) => AoclDone(Pool(u))'
    BY <1>2, <1>3, <1>4 DEF AoclDone
  <2> QED BY <1>1, <1>3, <1>4, <2>1, <2>2, <2>3 DEF ProgressOf, SameLocals
<1>8. LateOf(u) => LateOf(u)'
  <2>1. AoclDone(todo[u]) => AoclDone(todo[u])'
    BY <1>1 DEF AoclDone, SharedGrows, SameLocals, TypeOK
  <2>2. OnPath(u)' = OnPath(u)
    BY <1>1 DEF OnPath, SameLocals
  <2> QED BY <1>1, <1>3, <1>4, <2>1, <2>2 DEF LateOf, SameLocals, SharedGrows
<1>9. PinnedOf(u) => PinnedOf(u)'
  BY <1>1 DEF PinnedOf, SameLocals
<1> QED BY <1>5, <1>6, <1>7, <1>8, <1>9
----------------------------------------------------------------------------
(* What a step makes of its own thread.  First its call. *)

LEMMA JobStep ==
    ASSUME TypeOK, CopyInv, JobInv, NEW t \in Threads, Acts(t)
    PROVE  JobInv'
<1>1. ASSUME NEW u \in Threads, u # t
      PROVE  JobOf(u)'
  BY <1>1, OthersStay DEF JobInv
<1>2. JobOf(t)'
  <2> USE DEF Goto, Moves, calls, JobOf, Pool, TypeOK
  <2>1. JobOf(t)
    BY DEF JobInv
  <2>2. CASE Enters(t)
    <3>1. CASE GateSets(t)
      BY <2>1, <3>1 DEF GateSets
    <3>2. ASSUME NEW j \in Jobs, Call(t, j)
          PROVE  JobOf(t)'
      <4>1. job'[t] = j /\ pc'[t] \in {"gateSet", "mode"}
        BY <3>2 DEF Call
      <4>2. j.phase \in Phases
        BY DEF Jobs
      <4> QED BY <3>2, <4>1, <4>2 DEF Call, Phases, UsedLayouts
    <3> QED BY <2>2, <3>1, <3>2 DEF Enters
  <2>3. CASE InPrelude(t)
    BY <2>1, <2>3 DEF InPrelude, PreludeReadsMode, Names, Arrives, IsReleased, Probes, PcOfRole
  <2>4. CASE WarmsCk(t)
    BY <2>1, <2>4 DEF WarmsCk, Orders, CkWarmReadsType, CkWarmReadsFlag, CkWarmEnds, CkWarms,
       CkWarmFails, DowngradesType, DowngradesFlag
  <2>5. CASE WarmsAocl(t)
    BY <2>1, <2>5 DEF WarmsAocl, AoclWarmReadsType, AoclWarmReadsFlag,
       AoclWarmReadsFlagAgain, AoclWarmEnds, WarmReturns
  <2>6. CASE InReorder(t)
    BY <2>1, <2>6 DEF InReorder, PromptComputes, ReorderHits, Reorders, ReordersOutOfPlace,
       InPlaceBegins, InPlaceEnds, Reordered
  <2>7. CASE InDecode(t)
    BY <2>1, <2>7 DEF InDecode, DecodeReadsType, DecodeReadsMode, CkHits,
       CkPacksOutOfPlace, CkPacksInPlace, CkRefuses, Decodes
  <2>8. CASE Returns(t)
    BY <2>8 DEF Returns
  <2> QED BY <2>2, <2>3, <2>4, <2>5, <2>6, <2>7, <2>8 DEF Acts
<1> QED BY <1>1, <1>2 DEF JobInv
----------------------------------------------------------------------------
(* While the process is in mixed mode. *)

\* A call past the latch finds its pool covered.
LEMMA PastWarmIsCovered ==
    ASSUME TypeOK, MixedModeInv, Automatic, wc = 2, NEW t \in Threads, pc[t] \in PastWarm
    PROVE  Covered(Pool(t))
<1>1. ControlOf(t)
  BY DEF MixedModeInv
<1>2. at[t] = <<Pool(t), 2>> /\ warm[at[t]] = "warm"
  BY <1>1 DEF ControlOf, PastWarm
<1>3. Pool(t) \in Pools
  BY DEF TypeOK, Jobs, Pool
<1> QED BY <1>2, <1>3 DEF MixedModeInv

\* So does a decode call that comes after a warm-up prompt.
LEMMA WarmedUpIsCovered ==
    ASSUME TypeOK, JobInv, MixedModeInv, Automatic, wc = 2, env.warmUp,
           NEW t \in Threads, pc[t] # "out", job[t].phase = "decode"
    PROVE  Covered(Pool(t))
<1>1. Pool(t) \in served
  BY DEF JobInv, JobOf
<1>2. Pool(t) \in Pools
  BY DEF TypeOK, Jobs, Pool
<1> QED BY <1>1, <1>2 DEF MixedModeInv

\* In a covered pool the pack of a decode call's layout is there.
LEMMA CoveredIsPacked ==
    ASSUME JobInv, NEW t \in Threads, pc[t] # "out", job[t].phase = "decode",
           Covered(Pool(t))
    PROVE  CkDone(t)
BY DEF JobInv, JobOf, Covered, CkDone, Slot

\* The steps that change the mode are three.
LEMMA ConfigKept ==
    ASSUME NEW t \in Threads, Acts(t)
    PROVE  \/ wc' = wc /\ mixed' = mixed
           \/ GateSets(t) \/ DowngradesType(t) \/ DowngradesFlag(t)
<1> USE DEF Goto, Moves, config
<1>1. CASE Enters(t)
  BY <1>1 DEF Enters, Call
<1>2. CASE InPrelude(t)
  BY <1>2 DEF InPrelude, PreludeReadsMode, Names, Arrives, IsReleased, Probes
<1>3. CASE WarmsCk(t)
  BY <1>3 DEF WarmsCk, Orders, CkWarmReadsType, CkWarmReadsFlag, CkWarmEnds, CkWarms, CkWarmFails
<1>4. CASE WarmsAocl(t)
  BY <1>4 DEF WarmsAocl, AoclWarmReadsType, AoclWarmReadsFlag, AoclWarmReadsFlagAgain,
     AoclWarmEnds, WarmReturns
<1>5. CASE InReorder(t)
  BY <1>5 DEF InReorder, PromptComputes, ReorderHits, ReordersOutOfPlace, InPlaceBegins,
     InPlaceEnds, Reordered
<1>6. CASE InDecode(t)
  BY <1>6 DEF InDecode, DecodeReadsType, DecodeReadsMode, CkHits, CkPacksOutOfPlace,
     CkPacksInPlace, CkRefuses, Decodes
<1>7. CASE Returns(t)
  BY <1>7 DEF Returns
<1> QED BY <1>1, <1>2, <1>3, <1>4, <1>5, <1>6, <1>7 DEF Acts

\* The flag falls after the type: a process in mixed mode keeps both.
LEMMA MixedStays ==
    ASSUME TypeOK, MixedModeInv, Automatic, wc' = 2, NEW t \in Threads, Acts(t)
    PROVE  wc = 2 /\ (mixed => mixed')
<1> DEFINE kept == wc' = wc /\ mixed' = mixed
<1>0. kept \/ GateSets(t) \/ DowngradesType(t) \/ DowngradesFlag(t)
  BY ConfigKept
<1>1. wc = 2 /\ ~DowngradesType(t)
  BY <1>0 DEF GateSets, DowngradesType, DowngradesFlag
<1>2. ~DowngradesFlag(t)
  BY <1>1 DEF MixedModeInv, ControlOf, DowngradesFlag
<1>3. GateSets(t) => mixed'
  BY DEF GateSets, Automatic
<1> QED BY <1>0, <1>1, <1>2, <1>3

\* The steps of the caches are five.
LEMMA CachesKept ==
    ASSUME NEW t \in Threads, Acts(t)
    PROVE  \/ buf' = buf /\ aocl' = aocl /\ ck' = ck /\ holder' = holder
           \/ InPlaceEnds(t)
           \/ \E w \in Weights :
                 \/ CkWarms(t, w) \/ ReordersOutOfPlace(t, w) \/ InPlaceBegins(t, w)
                 \/ CkPacksOutOfPlace(t, w) \/ CkPacksInPlace(t, w)
<1> USE DEF Goto, Moves, caches
<1>1. CASE Enters(t)
  BY <1>1 DEF Enters, GateSets, Call
<1>2. CASE InPrelude(t)
  BY <1>2 DEF InPrelude, PreludeReadsMode, Names, Arrives, IsReleased, Probes
<1>3. CASE WarmsCk(t)
  BY <1>3 DEF WarmsCk, Orders, CkWarmReadsType, CkWarmReadsFlag, CkWarmEnds, CkWarmFails,
     DowngradesType, DowngradesFlag
<1>4. CASE WarmsAocl(t)
  BY <1>4 DEF WarmsAocl, AoclWarmReadsType, AoclWarmReadsFlag, AoclWarmReadsFlagAgain,
     AoclWarmEnds, WarmReturns
<1>5. CASE InReorder(t)
  BY <1>5 DEF InReorder, PromptComputes, ReorderHits
<1>6. CASE InDecode(t)
  BY <1>6 DEF InDecode, DecodeReadsType, DecodeReadsMode, CkHits, CkRefuses, Decodes
<1>7. CASE Returns(t)
  BY <1>7 DEF Returns
<1> QED BY <1>1, <1>2, <1>3, <1>4, <1>5, <1>6, <1>7 DEF Acts

\* A step in mixed mode leaves its own thread where the mode says.
LEMMA ControlStep ==
    ASSUME TypeOK, MixedModeInv, Automatic, wc' = 2, NEW t \in Threads, Acts(t)
    PROVE  ControlOf(t)'
<1>1. wc = 2 /\ (mixed => mixed') /\ ControlOf(t)
  BY MixedStays DEF MixedModeInv
<1>2. job[t].phase \in Phases
  BY DEF TypeOK, Jobs
<1> USE DEF Goto, Moves, calls, latch, local, config, ControlOf, RoleAt, Warming, PastWarm, TypeOK
<1>3. CASE Enters(t)
  <2>1. CASE GateSets(t)
    BY <1>1, <2>1 DEF GateSets, Automatic
  <2>2. ASSUME NEW j \in Jobs, Call(t, j)
        PROVE  ControlOf(t)'
    <3>1. pc[t] = "out" /\ pc'[t] = "gateSet" /\ role' = role
      BY <1>1, <2>2 DEF Call
    <3> QED BY <1>1, <3>1
  <2> QED BY <1>3, <2>1, <2>2 DEF Enters
<1>4. CASE InPrelude(t)
  <2>1. CASE PreludeReadsMode(t)
    BY <1>1, <2>1 DEF PreludeReadsMode, Active, Pool
  <2>2. CASE Names(t)
    <3>1. Pool(t)' = Pool(t) /\ at'[t] = <<Pool(t), 2>> /\ role' = role /\ pc'[t] = "arrive"
          /\ mixed' = mixed
      BY <1>1, <2>2 DEF Names, Once!Name, Pool
    <3> QED BY <1>1, <2>2, <3>1 DEF Names
  <2>3. CASE Arrives(t)
    <3>1. Pool(t)' = Pool(t) /\ at' = at /\ at[t] \in Keys /\ mixed' = mixed
      BY <2>3 DEF Arrives, Once!Arrive, Pool
    <3>2. role'[t] = Once!RoleOnArrival(at[t]) /\ pc'[t] = PcOfRole(role'[t])
      BY <2>3 DEF Arrives, Once!Arrive
    <3>3. warm[at[t]] = "warm" => warm'[at[t]] = "warm"
      BY <2>3, <3>1 DEF Arrives, Once!Arrive
    <3>4. warm[at[t]] \in {"cold", "warming", "warm"}
      BY <3>1
    <3> QED BY <1>1, <2>3, <3>1, <3>2, <3>3, <3>4
            DEF Once!RoleOnArrival, PcOfRole, Arrives
  <2>4. CASE IsReleased(t)
    BY <1>1, <2>4 DEF IsReleased, Once!Release, Pool
  <2>5. CASE Probes(t)
    BY <1>1, <2>5 DEF Probes
  <2> QED BY <1>4, <2>1, <2>2, <2>3, <2>4, <2>5 DEF InPrelude
<1>5. CASE WarmsCk(t)
  <2>1. CASE Orders(t)
    BY <1>1, <1>2, <2>1 DEF Orders, Active, Pool, Phases
  <2>2. CASE CkWarmReadsType(t) \/ CkWarmReadsFlag(t)
    BY <1>1, <2>2 DEF CkWarmReadsType, CkWarmReadsFlag, Pool
  <2>3. CASE CkWarmEnds(t)
    BY <1>1, <2>3 DEF CkWarmEnds, Pool
  <2>4. CASE \E w \in Weights : CkWarms(t, w) \/ CkWarmFails(t, w)
    BY <1>1, <2>4 DEF CkWarms, CkWarmFails, Pool
  <2>5. CASE DowngradesType(t) \/ DowngradesFlag(t)
    BY <1>1, <2>5 DEF DowngradesType, DowngradesFlag
  <2> QED BY <1>5, <2>1, <2>2, <2>3, <2>4, <2>5 DEF WarmsCk
<1>6. CASE WarmsAocl(t)
  <2>1. CASE \/ AoclWarmReadsType(t) \/ AoclWarmReadsFlag(t)
             \/ AoclWarmReadsFlagAgain(t) \/ AoclWarmEnds(t)
    BY <1>1, <2>1 DEF AoclWarmReadsType, AoclWarmReadsFlag, AoclWarmReadsFlagAgain,
       AoclWarmEnds, Pool
  <2>2. CASE WarmReturns(t)
    BY <1>1, <2>2 DEF WarmReturns, Once!Complete, Pool
  <2> QED BY <1>6, <2>1, <2>2 DEF WarmsAocl
<1>7. CASE InReorder(t)
  BY <1>1, <1>7 DEF InReorder, PromptComputes, ReorderHits, Reorders, ReordersOutOfPlace,
     InPlaceBegins, InPlaceEnds, Reordered, Pool
<1>8. CASE InDecode(t)
  BY <1>1, <1>8 DEF InDecode, DecodeReadsType, DecodeReadsMode, CkHits,
     CkPacksOutOfPlace, CkPacksInPlace, CkRefuses, Decodes, Pool
<1>9. CASE Returns(t)
  BY <1>1, <1>9 DEF Returns, Once!Leave
<1> QED BY <1>3, <1>4, <1>5, <1>6, <1>7, <1>8, <1>9 DEF Acts

\* The layouts made and the layouts read are one.
LEMMA OneUsedLayout ==
    ASSUME OneLayout, JobInv, NEW t \in Threads, pc[t] # "out"
    PROVE  \A l \in UsedLayouts : l = job[t].layout
BY DEF OneLayout, JobInv, JobOf, UsedLayouts

\* In mixed mode the warm of a thread comes as far as its place says.
LEMMA ProgressStep ==
    ASSUME TypeOK, JobInv, CopyInv, MixedModeInv, FailuresAreAskedFor,
           Automatic, wc' = 2, NEW t \in Threads, Acts(t)
    PROVE  ProgressOf(t)'
<1>1. wc = 2 /\ ControlOf(t) /\ ProgressOf(t)
  BY MixedStays DEF MixedModeInv
<1>2. Pool(t) \subseteq Weights /\ \A w \in Weights : Slot(t, w) \in Weights \X Layouts
  BY MixedAssumption DEF TypeOK, Jobs, Pool, Slot
<1>3. job' = job => Pool(t)' = Pool(t) /\ \A w : Slot(t, w)' = Slot(t, w)
  BY DEF Pool, Slot
<1>4. SharedGrows
  BY SharedKept
<1>5. job' = job /\ CkDone(t) => CkDone(t)'
  BY <1>2, <1>3, <1>4 DEF CkDone, SharedGrows
<1>6. \A ws \in SUBSET Weights : AoclDone(ws) => AoclDone(ws)'
  BY <1>4 DEF AoclDone, SharedGrows
<1>7. AoclDone({}) /\ AoclDone({})'
  BY DEF AoclDone
<1>8. Pool(t) \ {} = Pool(t) /\ Pool(t) \ Pool(t) = {}
  OBVIOUS
\* At these places nothing is claimed.
<1>9. ASSUME pc'[t] \notin {"ckFlag", "ckLoop", "aocl", "aoclFlag", "aoclType", "aoclLoop",
                            "aoclCopy", "warmed"}
      PROVE  ProgressOf(t)'
  BY <1>9 DEF ProgressOf
<1> USE DEF Goto, Moves, calls, local, TypeOK
<1>10. CASE WarmsCk(t)
  <2>1. CASE Orders(t)
    <3>1. pc'[t] = "ck"
      BY <1>1, <2>1 DEF Orders, ControlOf, Warming, Active
    <3> QED BY <1>9, <3>1
  <2>2. CASE CkWarmReadsType(t)
    <3>1. pc'[t] = "ckFlag" /\ job' = job /\ todo'[t] = Pool(t)
      BY <1>1, <2>2 DEF CkWarmReadsType
    <3> QED BY <1>3, <3>1 DEF ProgressOf
  <2>3. CASE CkWarmReadsFlag(t)
    <3>1. pc'[t] = "ckLoop" /\ job' = job /\ todo'[t] = Pool(t)
      BY <1>1, <2>3 DEF CkWarmReadsFlag, ControlOf, ProgressOf
    <3> QED BY <1>3, <1>8, <3>1 DEF ProgressOf
  <2>4. CASE CkWarmEnds(t)
    <3>1. plan[t] # "plain" /\ todo[t] = {} /\ pc[t] = "ckLoop"
          /\ (job[t].phase = "prompt" <=> plan[t] = "mixed")
      BY <1>1, <2>4 DEF CkWarmEnds, ControlOf, Warming, Jobs, Phases
    <3>2. CASE plan[t] = "mixed" /\ ~whole[t]
      <4>1. pc'[t] = "downgrade"
        BY <2>4, <3>2 DEF CkWarmEnds
      <4> QED BY <1>9, <4>1
    <3>3. CASE ~(plan[t] = "mixed" /\ ~whole[t])
      <4>1. pc'[t] = "aocl" /\ job' = job
        BY <2>4, <3>1, <3>3 DEF CkWarmEnds
      <4>2. whole[t] \/ job[t].phase = "decode"
        BY <3>1, <3>3 DEF Jobs, Phases
      <4>3. CkDone(t)
        BY <1>1, <3>1, <4>2 DEF ProgressOf, CkDone
      <4> QED BY <1>5, <4>1, <4>3 DEF ProgressOf
    <3> QED BY <3>2, <3>3
  <2>5. ASSUME NEW w \in Weights, CkWarms(t, w)
        PROVE  ProgressOf(t)'
    <3>1. pc[t] = "ckLoop" /\ pc' = pc /\ job' = job /\ whole' = whole
          /\ todo'[t] = todo[t] \ {w} /\ ck'[Slot(t, w)] # "none"
      BY <1>2, <2>5 DEF CkWarms, FromRaw
    <3>2. ASSUME whole[t] \/ job[t].phase = "decode", NEW v \in Pool(t) \ todo'[t]
          PROVE  ck'[Slot(t, v)] # "none"
      <4>1. v = w \/ v \in Pool(t) \ todo[t]
        BY <3>1
      <4>2. v \in Pool(t) \ todo[t] => ck[Slot(t, v)] # "none"
        BY <1>1, <3>1, <3>2 DEF ProgressOf
      <4> QED BY <1>2, <1>4, <3>1, <4>1, <4>2 DEF SharedGrows
    <3> QED BY <1>3, <3>1, <3>2 DEF ProgressOf
  <2>6. ASSUME NEW w \in Weights, CkWarmFails(t, w)
        PROVE  ProgressOf(t)'
    <3>1. /\ pc[t] = "ckLoop" /\ pc' = pc /\ job' = job /\ whole'[t] = FALSE
          /\ todo'[t] = todo[t] \ {w} /\ ck' = ck
          /\ w \in env.flaky /\ ck[Slot(t, w)] = "none"
      BY <2>6 DEF CkWarmFails, caches
    <3>2. ASSUME job[t].phase = "decode", NEW v \in Pool(t) \ todo'[t]
          PROVE  ck'[Slot(t, v)] # "none"
      <4>1. env.flaky # {} /\ env \in Environments /\ env.algo = "auto"
        BY <3>1 DEF Automatic
      <4>2. env.warmUp
        BY <4>1 DEF FailuresAreAskedFor
      <4>3. CkDone(t)
        BY <1>1, <3>1, <3>2, <4>2, WarmedUpIsCovered, CoveredIsPacked
      <4> QED BY <1>2, <1>4, <4>3 DEF CkDone, SharedGrows
    <3> QED BY <1>3, <3>1, <3>2 DEF ProgressOf
  <2>7. CASE DowngradesType(t) \/ DowngradesFlag(t)
    <3>1. pc'[t] = "downgraded" \/ pc[t] = "downgraded"
      BY <2>7 DEF DowngradesType, DowngradesFlag
    <3> QED BY <1>1, <1>9, <3>1 DEF ControlOf
  <2> QED BY <1>10, <2>1, <2>2, <2>3, <2>4, <2>5, <2>6, <2>7 DEF WarmsCk
<1>11. CASE WarmsAocl(t)
  <2>1. CASE AoclWarmReadsType(t)
    <3>1. pc[t] = "aocl" /\ pc'[t] = "aoclFlag" /\ job' = job /\ todo'[t] = Pool(t)
      BY <1>1, <2>1 DEF AoclWarmReadsType
    <3> QED BY <1>1, <1>3, <1>5, <3>1 DEF ProgressOf
  <2>2. CASE AoclWarmReadsFlag(t)
    <3>1. pc[t] = "aoclFlag" /\ pc'[t] = "aoclType" /\ job' = job /\ todo'[t] = Pool(t)
      BY <1>1, <2>2 DEF AoclWarmReadsFlag, ControlOf, ProgressOf
    <3> QED BY <1>1, <1>3, <1>5, <3>1 DEF ProgressOf
  <2>3. CASE AoclWarmReadsFlagAgain(t)
    <3>1. pc[t] = "aoclType" /\ pc'[t] = "aoclLoop" /\ job' = job /\ todo'[t] = Pool(t)
      BY <1>1, <2>3 DEF AoclWarmReadsFlagAgain, ProgressOf
    <3>2. Pool(t)' = Pool(t) /\ (Pool(t) \ todo[t])' = {}
      BY <1>3, <3>1
    <3>3. AoclDone(Pool(t) \ todo[t])'
      BY <3>2 DEF AoclDone
    <3> QED BY <1>1, <1>5, <3>1, <3>3 DEF ProgressOf
  <2>4. CASE AoclWarmEnds(t)
    <3>1. pc[t] = "aoclLoop" /\ pc'[t] = "warmed" /\ job' = job /\ todo[t] = {}
      BY <1>1, <2>4 DEF AoclWarmEnds, ControlOf, Warming
    <3>2. AoclDone(Pool(t)) /\ CkDone(t)
      BY <1>1, <1>8, <3>1 DEF ProgressOf
    <3>3. AoclDone(Pool(t))'
      BY <1>2, <1>3, <1>6, <3>1, <3>2 DEF AoclDone
    <3> QED BY <1>5, <3>1, <3>2, <3>3 DEF ProgressOf
  <2>5. CASE WarmReturns(t)
    <3>1. pc'[t] = "compute"
      BY <2>5 DEF WarmReturns
    <3> QED BY <1>9, <3>1
  <2> QED BY <1>11, <2>1, <2>2, <2>3, <2>4, <2>5 DEF WarmsAocl
<1>12. CASE InReorder(t)
  <2>1. ASSUME pc[t] \in {"aoclLoop", "aoclCopy"}, NEW w \in Weights, aocl'[w] # "none",
               pc'[t] = "aoclLoop", job' = job, todo'[t] = todo[t] \ {w}
        PROVE  ProgressOf(t)'
    <3>1. CkDone(t) /\ AoclDone(Pool(t) \ todo[t])
      BY <1>1, <2>1 DEF ProgressOf
    <3>2. AoclDone(Pool(t) \ todo[t])'
      BY <1>2, <1>3, <1>4, <2>1, <3>1 DEF AoclDone, SharedGrows
    <3> QED BY <1>5, <2>1, <3>1, <3>2 DEF ProgressOf
  <2>2. ASSUME NEW w \in Weights, PromptComputes(t, w)
        PROVE  ProgressOf(t)'
    <3>1. pc'[t] = "reorder"
      BY <2>2 DEF PromptComputes
    <3> QED BY <1>9, <3>1
  <2>3. ASSUME NEW w \in Weights, ReorderHits(t, w) \/ ReordersOutOfPlace(t, w)
        PROVE  ProgressOf(t)'
    <3>1. /\ pc[t] \in {"aoclLoop", "reorder"} /\ aocl'[w] # "none"
          /\ job' = job /\ todo'[t] = todo[t] \ {w}
          /\ pc'[t] = IF pc[t] = "aoclLoop" THEN "aoclLoop" ELSE "gemm"
      BY <2>3 DEF ReorderHits, ReordersOutOfPlace, Reorders, Reordered, caches, FromRaw
    <3> QED BY <1>9, <2>1, <3>1
  <2>4. ASSUME NEW w \in Weights, InPlaceBegins(t, w)
        PROVE  ProgressOf(t)'
    <3>1. /\ pc[t] \in {"aoclLoop", "reorder"} /\ job' = job /\ todo' = todo
          /\ pc'[t] = IF pc[t] = "aoclLoop" THEN "aoclCopy" ELSE "reorderCopy"
      BY <2>4 DEF InPlaceBegins, Reorders
    <3>2. CASE pc[t] = "aoclLoop"
      <4>1. CkDone(t) /\ AoclDone(Pool(t) \ todo[t])
        BY <1>1, <3>2 DEF ProgressOf
      <4>2. AoclDone(Pool(t) \ todo[t])'
        BY <1>2, <1>3, <1>4, <3>1, <4>1 DEF AoclDone, SharedGrows
      <4> QED BY <1>5, <3>1, <3>2, <4>1, <4>2 DEF ProgressOf
    <3> QED BY <1>9, <3>1, <3>2
  <2>5. CASE InPlaceEnds(t)
    <3>1. /\ pc[t] \in {"aoclCopy", "reorderCopy"} /\ on[t] \in Weights /\ aocl'[on[t]] # "none"
          /\ job' = job /\ todo'[t] = todo[t] \ {on[t]}
          /\ pc'[t] = IF pc[t] = "aoclCopy" THEN "aoclLoop" ELSE "gemm"
      BY <2>5 DEF InPlaceEnds, Reordered
    <3> QED BY <1>9, <2>1, <3>1
  <2> QED BY <1>12, <2>2, <2>3, <2>4, <2>5 DEF InReorder
<1>13. CASE Enters(t) \/ InPrelude(t) \/ InDecode(t) \/ Returns(t)
  <2>1. CASE Enters(t)
    BY <1>9, <2>1 DEF Enters, GateSets, Call
  <2>2. CASE InPrelude(t)
    BY <1>9, <2>2 DEF InPrelude, PreludeReadsMode, Names, Arrives, IsReleased, Probes, PcOfRole
  <2>3. CASE InDecode(t)
    BY <1>9, <2>3 DEF InDecode, DecodeReadsType, DecodeReadsMode, CkHits,
       CkPacksOutOfPlace, CkPacksInPlace, CkRefuses, Decodes
  <2>4. CASE Returns(t)
    BY <1>9, <2>4 DEF Returns
  <2> QED BY <1>13, <2>1, <2>2, <2>3, <2>4
<1> QED BY <1>10, <1>11, <1>12, <1>13 DEF Acts

\* A completion record is new only when its owner's warm returns.
LEMMA RecordsKept ==
    ASSUME TypeOK, NEW t \in Threads, Acts(t), NEW k \in Keys, warm'[k] = "warm"
    PROVE  warm[k] = "warm" \/ (WarmReturns(t) /\ role[t] = "owner" /\ k = at[t])
<1> USE DEF Goto, Moves, latch, TypeOK
<1>1. CASE Enters(t)
  BY <1>1 DEF Enters, GateSets, Call
<1>2. CASE InPrelude(t)
  BY <1>2 DEF InPrelude, PreludeReadsMode, Names, Arrives, IsReleased, Probes,
     Once!Name, Once!Arrive, Once!Release
<1>3. CASE WarmsCk(t)
  BY <1>3 DEF WarmsCk, Orders, CkWarmReadsType, CkWarmReadsFlag, CkWarmEnds, CkWarms,
     CkWarmFails, DowngradesType, DowngradesFlag
<1>4. CASE WarmsAocl(t)
  BY <1>4 DEF WarmsAocl, AoclWarmReadsType, AoclWarmReadsFlag, AoclWarmReadsFlagAgain,
     AoclWarmEnds, WarmReturns, Once!Complete
<1>5. CASE InReorder(t)
  BY <1>5 DEF InReorder, PromptComputes, ReorderHits, ReordersOutOfPlace, InPlaceBegins,
     InPlaceEnds, Reordered
<1>6. CASE InDecode(t)
  BY <1>6 DEF InDecode, DecodeReadsType, DecodeReadsMode, CkHits, CkPacksOutOfPlace,
     CkPacksInPlace, CkRefuses, Decodes
<1>7. CASE Returns(t)
  BY <1>7 DEF Returns, Once!Leave
<1> QED BY <1>1, <1>2, <1>3, <1>4, <1>5, <1>6, <1>7 DEF Acts

\* A pool is served when a prompt call returns.
LEMMA ServedKept ==
    ASSUME NEW t \in Threads, Acts(t), NEW p \in served'
    PROVE  p \in served \/ (Returns(t) /\ p = Pool(t))
<1> USE DEF Goto, Moves, calls
<1>1. CASE Enters(t)
  BY <1>1 DEF Enters, GateSets, Call
<1>2. CASE InPrelude(t)
  BY <1>2 DEF InPrelude, PreludeReadsMode, Names, Arrives, IsReleased, Probes
<1>3. CASE WarmsCk(t)
  BY <1>3 DEF WarmsCk, Orders, CkWarmReadsType, CkWarmReadsFlag, CkWarmEnds, CkWarms,
     CkWarmFails, DowngradesType, DowngradesFlag
<1>4. CASE WarmsAocl(t)
  BY <1>4 DEF WarmsAocl, AoclWarmReadsType, AoclWarmReadsFlag, AoclWarmReadsFlagAgain,
     AoclWarmEnds, WarmReturns
<1>5. CASE InReorder(t)
  BY <1>5 DEF InReorder, PromptComputes, ReorderHits, ReordersOutOfPlace, InPlaceBegins,
     InPlaceEnds, Reordered
<1>6. CASE InDecode(t)
  BY <1>6 DEF InDecode, DecodeReadsType, DecodeReadsMode, CkHits, CkPacksOutOfPlace,
     CkPacksInPlace, CkRefuses, Decodes
<1>7. CASE Returns(t)
  BY <1>7 DEF Returns
<1> QED BY <1>1, <1>2, <1>3, <1>4, <1>5, <1>6, <1>7 DEF Acts

LEMMA MixedStep ==
    ASSUME TypeOK, JobInv, CopyInv, MixedModeInv, OneLayout, FailuresAreAskedFor,
           NEW t \in Threads, Acts(t)
    PROVE  MixedModeInv'
<1> SUFFICES ASSUME (Automatic /\ wc = 2)'
             PROVE  /\ \A u \in Threads : ControlOf(u)' /\ ProgressOf(u)'
                    /\ \A p \in Pools : warm'[<<p, 2>>] = "warm" => Covered(p)'
                    /\ \A p \in served' : warm'[<<p, 2>>] = "warm"
  BY DEF MixedModeInv
<1>1. SharedGrows
  BY SharedKept
<1>2. Automatic
  BY <1>1 DEF Automatic, SharedGrows
<1>3. wc = 2 /\ (mixed => mixed')
  BY <1>2, MixedStays
<1>4. /\ \A u \in Threads : ControlOf(u) /\ ProgressOf(u)
      /\ \A p \in Pools : warm[<<p, 2>>] = "warm" => Covered(p)
      /\ \A p \in served : warm[<<p, 2>>] = "warm"
  BY <1>2, <1>3 DEF MixedModeInv
<1>5. ASSUME NEW u \in Threads
      PROVE  ControlOf(u)' /\ ProgressOf(u)'
  <2>1. CASE u = t
    BY <1>2, <2>1, ControlStep, ProgressStep
  <2>2. CASE u # t
    BY <1>3, <1>4, <2>2, OthersStay
  <2> QED BY <2>1, <2>2
<1>6. ASSUME NEW p \in Pools, warm'[<<p, 2>>] = "warm"
      PROVE  Covered(p)'
  <2>1. <<p, 2>> \in Keys /\ p \subseteq Weights
    BY MixedAssumption DEF Keys
  <2>2. Covered(p)
    <3>1. CASE warm[<<p, 2>>] = "warm"
      BY <1>4, <3>1
    <3>2. CASE WarmReturns(t) /\ <<p, 2>> = at[t]
      <4>1. pc[t] = "warmed" /\ ControlOf(t) /\ ProgressOf(t)
        BY <1>4, <3>2 DEF WarmReturns
      <4>2. at[t] = <<Pool(t), 2>>
        BY <4>1 DEF ControlOf
      <4>3. p = Pool(t) /\ CkDone(t) /\ AoclDone(Pool(t))
        BY <3>2, <4>1, <4>2 DEF ProgressOf
      <4>4. \A l \in DecodeLayouts : l = job[t].layout
        BY <4>1, OneUsedLayout DEF UsedLayouts
      <4> QED BY <4>3, <4>4 DEF Covered, CkDone, AoclDone, Slot
    <3> QED BY <1>6, <2>1, <3>1, <3>2, RecordsKept
  <2>3. \A w \in p, l \in DecodeLayouts : <<w, l>> \in Weights \X Layouts
    BY <2>1, MixedAssumption
  <2> QED BY <1>1, <2>1, <2>2, <2>3 DEF Covered, SharedGrows
<1>7. ASSUME NEW p \in served'
      PROVE  warm'[<<p, 2>>] = "warm"
  <2>1. p \in Pools /\ <<p, 2>> \in Keys
    <3>1. p \in served \/ p = Pool(t)
      BY ServedKept
    <3> QED BY <3>1 DEF TypeOK, Keys, Jobs, Pool
  <2>2. warm[<<p, 2>>] = "warm"
    <3>1. CASE p \in served
      BY <1>4, <3>1
    <3>2. CASE Returns(t) /\ p = Pool(t)
      <4>1. pc[t] = "gemm" /\ ControlOf(t)
        BY <1>4, <3>2 DEF Returns
      <4> QED BY <3>2, <4>1 DEF ControlOf, PastWarm
    <3> QED BY <3>1, <3>2, ServedKept
  <2> QED BY <1>1, <2>1, <2>2 DEF SharedGrows
<1> QED BY <1>5, <1>6, <1>7
----------------------------------------------------------------------------
(* After the process may have left mixed mode: what was read before holds. *)

\* A mode read by now is still safe to act on, in or out of mixed mode.
LEMMA LateStep ==
    ASSUME TypeOK, JobInv, CopyInv, MixedModeInv, LateInv, NEW t \in Threads, Acts(t)
    PROVE  LateInv'
<1> SUFFICES ASSUME Automatic', NEW u \in Threads
             PROVE  LateOf(u)'
  BY DEF LateInv
<1>1. SharedGrows
  BY SharedKept
<1>2. Automatic
  BY <1>1 DEF Automatic, SharedGrows
<1>3. \A v \in Threads : LateOf(v)
  BY <1>2 DEF LateInv
<1>4. CASE u # t
  BY <1>3, <1>4, OthersStay
<1>5. LateOf(t)'
  <2>1. Pool(t) \subseteq Weights /\ \A w \in Weights : Slot(t, w) \in Weights \X Layouts
    BY MixedAssumption DEF TypeOK, Jobs, Pool, Slot
  <2>2. job' = job => Pool(t)' = Pool(t) /\ \A w : Slot(t, w)' = Slot(t, w)
    BY DEF Pool, Slot
  <2>3. job' = job /\ CkDone(t) => CkDone(t)'
    BY <1>1, <2>1, <2>2 DEF CkDone, SharedGrows
  <2>4. LateOf(t)
    BY <1>3
  <2>5. job[t].phase \in Phases
    BY DEF TypeOK, Jobs
\* At these places nothing is claimed.
  <2>6. ASSUME pc'[t] \notin {"aoclFlag", "aoclType", "aoclLoop", "aoclCopy", "reorder",
                              "reorderCopy", "ckMode", "ckFetch", "downgraded"}
        PROVE  LateOf(t)'
    BY <2>6 DEF LateOf, OnPath
  <2>7. ASSUME pc'[t] \in {"aoclFlag", "aoclType", "aoclLoop", "aoclCopy"}, job' = job,
               CkDone(t), todo'[t] \subseteq Pool(t)
        PROVE  LateOf(t)'
    BY <2>2, <2>3, <2>7 DEF LateOf
  <2> USE DEF Goto, Moves, calls, local, config, TypeOK
  <2>8. CASE WarmsCk(t)
    <3>1. CASE DowngradesType(t)
      BY <3>1 DEF DowngradesType, LateOf, OnPath
    <3>2. CASE ~DowngradesType(t)
      BY <2>6, <2>8, <3>2 DEF WarmsCk, Orders, CkWarmReadsType, CkWarmReadsFlag, CkWarmEnds,
         CkWarms, CkWarmFails, DowngradesFlag
    <3> QED BY <3>1, <3>2
  <2>9. CASE WarmsAocl(t)
    <3>1. CASE AoclWarmReadsType(t)
      <4>1. CASE wc = 1
        <5>1. pc'[t] = "aoclLoop" /\ wct'[t] = 1
          BY <3>1, <4>1 DEF AoclWarmReadsType
        <5> QED BY <5>1 DEF LateOf, OnPath
      <4>2. CASE wc = 2
        <5>1. pc[t] = "aocl" /\ pc'[t] = "aoclFlag" /\ job' = job /\ todo'[t] = Pool(t)
          BY <3>1, <4>2 DEF AoclWarmReadsType
        <5>2. CkDone(t)
          BY <1>2, <4>2, <5>1 DEF MixedModeInv, ProgressOf
        <5> QED BY <2>7, <5>1, <5>2
      <4> QED BY <4>1, <4>2
    <3>2. CASE AoclWarmReadsFlag(t) \/ AoclWarmReadsFlagAgain(t)
      <4>1. /\ OnPath(t) /\ pc'[t] \in {"aoclType", "aoclLoop"} /\ job' = job
            /\ todo'[t] \subseteq todo[t]
        BY <3>2 DEF AoclWarmReadsFlag, AoclWarmReadsFlagAgain, OnPath
      <4> QED BY <2>4, <2>7, <4>1 DEF LateOf
    <3>3. CASE AoclWarmEnds(t) \/ WarmReturns(t)
      BY <2>6, <3>3 DEF AoclWarmEnds, WarmReturns
    <3> QED BY <2>9, <3>1, <3>2, <3>3 DEF WarmsAocl
  <2>10. CASE InReorder(t)
    <3>1. ASSUME NEW w \in Weights, PromptComputes(t, w)
          PROVE  LateOf(t)'
      <4>1. /\ pc[t] = "compute" /\ pc'[t] = "reorder" /\ wct'[t] = wc /\ todo'[t] = {w}
            /\ w \in Pool(t) /\ wc' = wc
        BY <3>1 DEF PromptComputes
      <4>2. wc = 2 => aocl[w] # "none"
        BY <1>2, <4>1, PastWarmIsCovered DEF PastWarm, Covered
      <4>3. wct'[t] = 2 => AoclDone(todo[t])'
        BY <1>1, <4>1, <4>2 DEF AoclDone, SharedGrows
      <4> QED BY <4>1, <4>3 DEF LateOf, OnPath
    <3>2. ASSUME NEW w \in Weights, ReorderHits(t, w) \/ ReordersOutOfPlace(t, w)
          PROVE  LateOf(t)'
      <4>1. /\ pc[t] \in {"aoclLoop", "reorder"} /\ job' = job /\ wct' = wct
            /\ todo'[t] \subseteq todo[t]
            /\ pc'[t] = IF pc[t] = "aoclLoop" THEN "aoclLoop" ELSE "gemm"
        BY <3>2 DEF ReorderHits, ReordersOutOfPlace, Reorders, Reordered
      <4>2. CASE OnPath(t)
        BY <2>4, <2>7, <4>1, <4>2 DEF LateOf, OnPath
      <4>3. CASE ~OnPath(t)
        BY <4>1, <4>3 DEF LateOf, OnPath
      <4> QED BY <4>2, <4>3
    <3>3. ASSUME NEW w \in Weights, InPlaceBegins(t, w)
          PROVE  LateOf(t)'
      <4>1. /\ pc[t] \in {"aoclLoop", "reorder"} /\ wct[t] = 2 /\ w \in todo[t]
            /\ aocl[w] = "none" /\ job' = job /\ todo' = todo
            /\ pc'[t] = IF pc[t] = "aoclLoop" THEN "aoclCopy" ELSE "reorderCopy"
        BY <3>3 DEF InPlaceBegins, Reorders
      <4>2. pc[t] = "aoclLoop"
        BY <2>4, <4>1 DEF LateOf, AoclDone
      <4> QED BY <2>4, <2>7, <4>1, <4>2 DEF LateOf, OnPath
    <3>4. CASE InPlaceEnds(t)
      <4>1. /\ pc[t] \in {"aoclCopy", "reorderCopy"} /\ job' = job /\ wct' = wct
            /\ todo'[t] \subseteq todo[t]
            /\ pc'[t] = IF pc[t] = "aoclCopy" THEN "aoclLoop" ELSE "gemm"
        BY <3>4 DEF InPlaceEnds, Reordered
      <4>2. CASE OnPath(t)
        BY <2>4, <2>7, <4>1, <4>2 DEF LateOf, OnPath
      <4>3. CASE ~OnPath(t)
        BY <4>1, <4>3 DEF LateOf, OnPath
      <4> QED BY <4>2, <4>3
    <3> QED BY <2>10, <3>1, <3>2, <3>3, <3>4 DEF InReorder
  <2>11. CASE InDecode(t)
    <3>1. CASE DecodeReadsType(t)
      <4>1. /\ pc[t] = "compute" /\ job[t].phase = "decode" /\ job' = job
            /\ pc'[t] = "ckMode" /\ wct'[t] = wc
        BY <3>1 DEF DecodeReadsType
      <4>2. wc = 2 => CkDone(t)
        BY <1>2, <4>1, PastWarmIsCovered, CoveredIsPacked DEF PastWarm
      <4> QED BY <2>3, <4>1, <4>2 DEF LateOf, OnPath
    <3>2. CASE DecodeReadsMode(t)
      <4>1. /\ pc[t] = "ckMode" /\ job' = job /\ pc'[t] = "ckFetch" /\ wct' = wct
            /\ (inPlace'[t] => wct[t] = 2)
        BY <3>2 DEF DecodeReadsMode
      <4> QED BY <2>3, <2>4, <4>1 DEF LateOf, OnPath
    <3>3. ASSUME NEW w \in Weights, \/ CkHits(t, w) \/ CkPacksOutOfPlace(t, w)
                                    \/ CkPacksInPlace(t, w) \/ CkRefuses(t, w)
          PROVE  LateOf(t)'
      BY <2>6, <3>3 DEF CkHits, CkPacksOutOfPlace, CkPacksInPlace, CkRefuses, Decodes
    <3> QED BY <2>11, <3>1, <3>2, <3>3 DEF InDecode
  <2>12. CASE Enters(t) \/ InPrelude(t) \/ Returns(t)
    BY <2>6, <2>12 DEF Enters, GateSets, Call, InPrelude, PreludeReadsMode, Names, Arrives,
       IsReleased, Probes, PcOfRole, Returns
  <2> QED BY <2>8, <2>9, <2>10, <2>11, <2>12 DEF Acts
<1> QED BY <1>4, <1>5
----------------------------------------------------------------------------
(* With a pinned algorithm. *)

LEMMA PinnedStep ==
    ASSUME TypeOK, JobInv, CopyInv, PinnedInv, NEW t \in Threads, Acts(t)
    PROVE  PinnedInv'
<1> SUFFICES ASSUME (~Automatic)'
             PROVE  /\ wc' = 2 /\ mixed' = FALSE
                    /\ warm' = [k \in Keys |-> "cold"]
                    /\ \A u \in Threads : PinnedOf(u)'
  BY DEF PinnedInv
<1>1. ~Automatic
  BY SharedKept DEF Automatic, SharedGrows
<1>2. /\ wc = 2 /\ mixed = FALSE /\ warm = [k \in Keys |-> "cold"]
      /\ \A u \in Threads : PinnedOf(u)
  BY <1>1 DEF PinnedInv
<1>3. wc' = 2 /\ mixed' = FALSE
  <2>1. ~DowngradesType(t) /\ ~DowngradesFlag(t)
    BY <1>2 DEF PinnedOf, DowngradesType, DowngradesFlag
  <2>2. GateSets(t) => wc' = wc /\ mixed' = FALSE
    BY <1>1 DEF GateSets, Automatic
  <2> QED BY <1>2, <2>1, <2>2, ConfigKept
<1>4. ASSUME NEW u \in Threads, u # t
      PROVE  PinnedOf(u)'
  BY <1>2, <1>4, OthersStay
<1>5. PinnedOf(t)' /\ warm' = warm
  <2>1. PinnedOf(t)
    BY <1>2
  <2> USE DEF Goto, Moves, latch, calls, local, config, PinnedOf, TypeOK
  <2>2. CASE Enters(t)
    BY <1>2, <2>1, <2>2 DEF Enters, GateSets, Call
  <2>3. CASE InPrelude(t)
    BY <1>2, <2>1, <2>3 DEF InPrelude, PreludeReadsMode, Active, Names, Arrives, IsReleased,
       Probes
  <2>4. CASE WarmsCk(t)
    BY <1>2, <2>1, <2>4 DEF WarmsCk, Orders, Active, CkWarmReadsType, CkWarmReadsFlag,
       CkWarmEnds, CkWarms, CkWarmFails, DowngradesType, DowngradesFlag
  <2>5. CASE WarmsAocl(t)
    BY <1>2, <2>1, <2>5 DEF WarmsAocl, AoclWarmReadsType, AoclWarmReadsFlag,
       AoclWarmReadsFlagAgain, AoclWarmEnds, WarmReturns
  <2>6. CASE InReorder(t)
    BY <2>1, <2>6 DEF InReorder, PromptComputes, ReorderHits, Reorders, ReordersOutOfPlace,
       InPlaceBegins, InPlaceEnds, Reordered
  <2>7. CASE InDecode(t)
    <3>1. CASE DecodeReadsType(t)
      BY <1>2, <2>1, <3>1 DEF DecodeReadsType
    <3>2. CASE DecodeReadsMode(t)
      <4>1. pc[t] = "ckMode" /\ pc' = [pc EXCEPT ![t] = "ckFetch"]
            /\ inPlace' = [inPlace EXCEPT ![t] = (wct[t] = 2 /\ ~Active)]
        BY <3>2 DEF DecodeReadsMode
      <4>2. (wct[t] = 2 /\ ~Active) = TRUE
        BY <1>2, <2>1, <4>1 DEF Active
      <4>3. inPlace' = [inPlace EXCEPT ![t] = TRUE]
        BY <4>1, <4>2, Zenon
      <4>4. pc[t] = "ckMode" /\ wct' = wct /\ plan' = plan /\ role' = role /\ warm' = warm
        BY <3>2 DEF DecodeReadsMode
      <4>5. inPlace'[t] /\ pc'[t] = "ckFetch"
        BY <4>1, <4>3
      <4> QED BY <2>1, <4>4, <4>5
    <3>3. CASE \E w \in Weights : \/ CkHits(t, w) \/ CkPacksOutOfPlace(t, w)
                                  \/ CkPacksInPlace(t, w) \/ CkRefuses(t, w)
      BY <2>1, <3>3 DEF CkHits, CkPacksOutOfPlace, CkPacksInPlace, CkRefuses, Decodes
    <3> QED BY <2>7, <3>1, <3>2, <3>3 DEF InDecode
  <2>8. CASE Returns(t)
    BY <2>1, <2>8 DEF Returns
  <2> QED BY <2>2, <2>3, <2>4, <2>5, <2>6, <2>7, <2>8 DEF Acts
<1> QED BY <1>2, <1>3, <1>4, <1>5
----------------------------------------------------------------------------
(* The weights and the caches. *)

\* Who may write where: nobody reorders in place for a process pinned to decode,
\* and a CK pack is made in place only there.
LEMMA WhoWrites ==
    ASSUME TypeOK, JobInv, LateInv, PinnedInv, NEW t \in Threads, NEW w \in Weights
    PROVE  /\ InPlaceBegins(t, w) \/ ReordersOutOfPlace(t, w) \/ InPlaceEnds(t) =>
                 env.algo # "decode"
           /\ CkPacksInPlace(t, w) => env.algo = "decode"
           /\ CkPacksOutOfPlace(t, w) \/ CkWarms(t, w) => Automatic
           /\ env.algo = "decode" => ~Copying(t)
<1>1. env.algo \in {"auto", "prompt", "decode"}
  BY MixedAssumption DEF TypeOK, Phases
<1>2. ASSUME env.algo = "decode"
      PROVE  /\ pc[t] \notin {"reorder", "reorderCopy", "aoclCopy"}
             /\ pc[t] = "aoclLoop" => todo[t] = {}
  BY <1>2 DEF Automatic, PinnedInv, PinnedOf, JobInv, JobOf
<1>3. ASSUME CkPacksInPlace(t, w), Automatic
      PROVE  FALSE
  <2>1. pc[t] = "ckFetch" /\ inPlace[t] /\ w \in Pool(t) /\ ck[Slot(t, w)] = "none"
    BY <1>3 DEF CkPacksInPlace
  <2>2. LateOf(t)
    BY <1>3 DEF LateInv
  <2> QED BY <2>1, <2>2 DEF LateOf, CkDone
<1>4. ASSUME CkPacksInPlace(t, w)
      PROVE  env.algo # "prompt"
  BY <1>4 DEF CkPacksInPlace, JobInv, JobOf
<1>5. ASSUME CkPacksOutOfPlace(t, w) \/ CkWarms(t, w)
      PROVE  Automatic
  BY <1>5 DEF CkPacksOutOfPlace, CkWarms, PinnedInv, PinnedOf
<1>6. InPlaceBegins(t, w) \/ ReordersOutOfPlace(t, w) \/ InPlaceEnds(t) =>
          env.algo # "decode"
  BY <1>2 DEF InPlaceBegins, ReordersOutOfPlace, InPlaceEnds, Reorders
<1> QED BY <1>1, <1>2, <1>3, <1>4, <1>5, <1>6 DEF Automatic, Copying

\* Only the begin of an in-place reorder makes a thread copy.
LEMMA OnlyBeginsCopies ==
    ASSUME TypeOK, NEW t \in Threads, Acts(t), Copying(t)'
    PROVE  \E w \in Weights : InPlaceBegins(t, w)
<1> USE DEF Goto, Moves, Copying, TypeOK
<1>1. CASE Enters(t) \/ InPrelude(t) \/ Returns(t)
  BY <1>1 DEF Enters, GateSets, Call, InPrelude, PreludeReadsMode, Names, Arrives,
     IsReleased, Probes, PcOfRole, Returns
<1>2. CASE WarmsCk(t)
  BY <1>2 DEF WarmsCk, Orders, CkWarmReadsType, CkWarmReadsFlag, CkWarmEnds, CkWarms,
     CkWarmFails, DowngradesType, DowngradesFlag
<1>3. CASE WarmsAocl(t)
  BY <1>3 DEF WarmsAocl, AoclWarmReadsType, AoclWarmReadsFlag, AoclWarmReadsFlagAgain,
     AoclWarmEnds, WarmReturns
<1>4. CASE InReorder(t)
  BY <1>4 DEF InReorder, PromptComputes, ReorderHits, ReordersOutOfPlace, InPlaceEnds, Reordered
<1>5. CASE InDecode(t)
  BY <1>5 DEF InDecode, DecodeReadsType, DecodeReadsMode, CkHits, CkPacksOutOfPlace,
     CkPacksInPlace, CkRefuses, Decodes
<1> QED BY <1>1, <1>2, <1>3, <1>4, <1>5 DEF Acts

\* While one copies, the mutex keeps everybody else out.
LEMMA CopyStep ==
    ASSUME TypeOK, JobInv, LateInv, PinnedInv, CopyInv, WeightsInv, NEW t \in Threads, Acts(t)
    PROVE  CopyInv'
<1> SUFFICES ASSUME NEW u \in Threads, Copying(u)'
             PROVE  /\ holder' = u /\ on'[u] \in todo'[u]
                    /\ aocl'[on'[u]] = "none" /\ buf'[on'[u]] = "torn"
  BY DEF CopyInv
<1> USE DEF Goto, Moves, TypeOK
<1>1. CASE u # t
  <2>1. SameLocals(u)
    BY <1>1, OthersKept
  <2>2. Copying(u) /\ holder = u /\ on[u] \in todo[u] /\ aocl[on[u]] = "none" /\ buf[on[u]] = "torn"
    BY <2>1 DEF Copying, SameLocals, CopyInv
  <2>3. holder # Nobody /\ holder # t
    BY <1>1, <2>2, MixedAssumption
  <2>4. ~InPlaceEnds(t)
    BY <1>1, <2>3 DEF InPlaceEnds, CopyInv, Copying
  <2>5. ASSUME NEW w \in Weights
        PROVE  ~ReordersOutOfPlace(t, w) /\ ~InPlaceBegins(t, w) /\ ~CkPacksInPlace(t, w)
    BY <2>2, <2>3, WhoWrites DEF ReordersOutOfPlace, InPlaceBegins, Reorders
  <2>6. buf' = buf /\ aocl' = aocl /\ holder' = holder
    BY <2>4, <2>5, CachesKept DEF CkWarms, CkPacksOutOfPlace, Decodes
  <2> QED BY <2>1, <2>2, <2>6 DEF SameLocals
<1>2. CASE u = t
  <2>1. PICK w \in Weights : InPlaceBegins(t, w)
    BY <1>2, OnlyBeginsCopies
  <2>2. /\ holder = Nobody /\ holder' = t /\ w \in todo[t] /\ todo' = todo /\ on'[t] = w
        /\ aocl[w] = "none" /\ aocl' = aocl
        /\ buf'[w] = IF buf[w] = "raw" THEN "torn" ELSE "junk"
    BY <2>1 DEF InPlaceBegins, Reorders, local
  <2>3. \A v \in Threads : ~Copying(v)
    BY <2>2, MixedAssumption DEF CopyInv
  <2>4. buf[w] = "raw"
    BY <2>1, <2>2, <2>3, WhoWrites DEF WeightsInv, AoclOf
  <2> QED BY <1>2, <2>2, <2>4
<1> QED BY <1>1, <1>2

\* Under a pinned decode: one pack of each weight is made over it.
LEMMA DecodeWeightsStep ==
    ASSUME TypeOK, JobInv, LateInv, PinnedInv, WeightsInv, OneLayout,
           env.algo = "decode", NEW t \in Threads, Acts(t), NEW v \in Weights
    PROVE  /\ aocl'[v] = "none" /\ buf'[v] \in {"raw", "ck"}
           /\ \A l \in UsedLayouts : InPlaceCkOf(v, l)'
<1>1. aocl[v] = "none" /\ buf[v] \in {"raw", "ck"} /\ \A l \in UsedLayouts : InPlaceCkOf(v, l)
  BY DEF WeightsInv
<1>2. ~InPlaceEnds(t)
  BY WhoWrites
<1>3. \A w \in Weights : ~ReordersOutOfPlace(t, w) /\ ~InPlaceBegins(t, w)
  BY WhoWrites
<1>4. \A w \in Weights : ~CkWarms(t, w) /\ ~CkPacksOutOfPlace(t, w)
  BY WhoWrites DEF Automatic
<1>5. CASE buf' = buf /\ aocl' = aocl /\ ck' = ck
  BY <1>1, <1>5 DEF InPlaceCkOf
<1>6. ASSUME NEW w \in Weights, CkPacksInPlace(t, w)
      PROVE  /\ aocl'[v] = "none" /\ buf'[v] \in {"raw", "ck"}
             /\ \A l \in UsedLayouts : InPlaceCkOf(v, l)'
  <2>1. /\ pc[t] = "ckFetch" /\ ck[Slot(t, w)] = "none" /\ aocl' = aocl
        /\ buf' = [buf EXCEPT ![w] = IF @ = "raw" THEN "ck" ELSE "junk"]
        /\ ck' = [ck EXCEPT ![Slot(t, w)] = "user"]
    BY <1>6 DEF CkPacksInPlace, Decodes
  <2>2. \A l \in UsedLayouts : l = job[t].layout
    BY <2>1, OneUsedLayout
  <2>3. job[t].layout \in UsedLayouts /\ UsedLayouts \subseteq Layouts
    BY <2>1, MixedAssumption DEF JobInv, JobOf, UsedLayouts
  <2>4. Slot(t, w) = <<w, job[t].layout>> /\ Slot(t, w) \in Weights \X Layouts
    BY <2>3 DEF Slot
  <2>5. buf[w] = "raw"
    BY <2>1, <2>3, <2>4 DEF WeightsInv, InPlaceCkOf
  <2>6. buf'[v] = (IF v = w THEN "ck" ELSE buf[v])
    BY <2>1, <2>5 DEF TypeOK
  <2>7. \A l \in UsedLayouts : ck'[<<v, l>>] = (IF v = w THEN "user" ELSE ck[<<v, l>>])
    BY <2>1, <2>2, <2>3, <2>4 DEF TypeOK
  <2> QED BY <1>1, <2>1, <2>6, <2>7 DEF InPlaceCkOf
<1> QED BY <1>2, <1>3, <1>4, <1>5, <1>6, CachesKept

\* Otherwise an entry of the AOCL cache says what its weight holds.
LEMMA AoclStep ==
    ASSUME TypeOK, JobInv, LateInv, PinnedInv, CopyInv, WeightsInv, env.algo # "decode",
           NEW t \in Threads, Acts(t), NEW v \in Weights
    PROVE  AoclOf(v)'
<1>1. AoclOf(v)
  BY DEF WeightsInv
<1>2. \A w \in Weights : ~CkPacksInPlace(t, w)
  BY WhoWrites
\* Another's copy goes on; t's own ends in InPlaceEnds alone.
<1>3. ASSUME buf'[v] = buf[v], aocl'[v] = aocl[v],
             ~Copying(t) \/ (InPlaceEnds(t) /\ v # on[t])
      PROVE  AoclOf(v)'
  <2>1. ASSUME NEW u \in Threads, Copying(u), on[u] = v
        PROVE  Copying(u)' /\ on'[u] = v
    <3>1. u # t
      BY <1>3, <2>1
    <3> QED BY <2>1, <3>1, OthersKept DEF Copying, SameLocals
  <2>2. (\E u \in Threads : Copying(u) /\ on[u] = v)
        => (\E u \in Threads : Copying(u) /\ on[u] = v)'
    BY <2>1
  <2> QED BY <1>1, <1>3, <2>2 DEF AoclOf
<1>4. ASSUME Copying(t)
      PROVE  InPlaceEnds(t)
  BY <1>4 DEF Copying, Goto, Moves, Acts, Enters, GateSets, Call, InPrelude, PreludeReadsMode,
     Names, Arrives, IsReleased, Probes, WarmsCk, Orders, CkWarmReadsType, CkWarmReadsFlag,
     CkWarmEnds, CkWarms, CkWarmFails, DowngradesType, DowngradesFlag, WarmsAocl,
     AoclWarmReadsType, AoclWarmReadsFlag, AoclWarmReadsFlagAgain, AoclWarmEnds, WarmReturns,
     InReorder, PromptComputes, ReorderHits, ReordersOutOfPlace, InPlaceBegins, Reorders,
     InDecode, DecodeReadsType, DecodeReadsMode, CkHits, CkPacksOutOfPlace, CkPacksInPlace,
     CkRefuses, Returns
<1>5. CASE InPlaceEnds(t)
  <2>1. /\ Copying(t) /\ on[t] \in Weights
        /\ buf' = [buf EXCEPT ![on[t]] = IF @ = "torn" THEN "aocl" ELSE "junk"]
        /\ aocl' = [aocl EXCEPT ![on[t]] = "user"]
    BY <1>5 DEF InPlaceEnds, Copying, TypeOK
  <2>2. buf[on[t]] = "torn"
    BY <2>1 DEF CopyInv
  <2>3. CASE v = on[t]
    <3>1. aocl'[v] = "user" /\ buf'[v] = "aocl"
      BY <2>1, <2>2, <2>3 DEF TypeOK
    <3> QED BY <3>1 DEF AoclOf
  <2>4. CASE v # on[t]
    <3>1. aocl'[v] = aocl[v] /\ buf'[v] = buf[v]
      BY <2>1, <2>4 DEF TypeOK
    <3> QED BY <1>3, <1>5, <2>4, <3>1
  <2> QED BY <2>3, <2>4
<1>6. ASSUME NEW w \in Weights, ReordersOutOfPlace(t, w)
      PROVE  AoclOf(v)'
  <2>1. /\ holder = Nobody /\ aocl[w] = "none" /\ aocl' = [aocl EXCEPT ![w] = FromRaw(w)]
        /\ buf' = buf /\ pc[t] \in {"aoclLoop", "reorder"}
    BY <1>6 DEF ReordersOutOfPlace, Reorders
  <2>2. CASE v = w
    <3>1. \A u \in Threads : ~Copying(u)
      BY <2>1, MixedAssumption DEF CopyInv
    <3>2. buf[v] = "raw"
      BY <1>1, <2>1, <2>2, <3>1 DEF AoclOf
    <3>3. aocl'[v] = "good" /\ buf'[v] = "raw"
      BY <2>1, <2>2, <3>2 DEF FromRaw, TypeOK
    <3> QED BY <3>3 DEF AoclOf
  <2>3. CASE v # w
    <3>1. aocl'[v] = aocl[v] /\ buf'[v] = buf[v]
      BY <2>1, <2>3 DEF TypeOK
    <3> QED BY <1>3, <2>1, <3>1 DEF Copying
  <2> QED BY <2>2, <2>3
<1>7. ASSUME NEW w \in Weights, InPlaceBegins(t, w)
      PROVE  AoclOf(v)'
  <2>1. /\ aocl[w] = "none" /\ aocl' = aocl /\ on'[t] = w /\ Copying(t)' /\ ~Copying(t)
        /\ buf' = [buf EXCEPT ![w] = IF @ = "raw" THEN "torn" ELSE "junk"]
    BY <1>7 DEF InPlaceBegins, Reorders, Goto, Copying, TypeOK
  <2>2. CASE v = w
    BY <2>1, <2>2 DEF AoclOf
  <2>3. CASE v # w
    <3>1. aocl'[v] = aocl[v] /\ buf'[v] = buf[v]
      BY <2>1, <2>3 DEF TypeOK
    <3> QED BY <1>3, <2>1, <3>1
  <2> QED BY <2>2, <2>3
<1>8. CASE ~InPlaceEnds(t) /\ aocl' = aocl /\ buf' = buf
  BY <1>3, <1>4, <1>8
<1>9. \A w \in Weights : CkWarms(t, w) \/ CkPacksOutOfPlace(t, w) => aocl' = aocl /\ buf' = buf
  BY DEF CkWarms, CkPacksOutOfPlace, Decodes
<1> QED BY <1>2, <1>5, <1>6, <1>7, <1>8, <1>9, CachesKept

\* Under AUTO a weight is overwritten when every pack of it has been made.
LEMMA CkStep ==
    ASSUME TypeOK, JobInv, LateInv, PinnedInv, CopyInv, WeightsInv, OneLayout, Automatic,
           NEW t \in Threads, Acts(t), NEW v \in Weights, NEW l \in UsedLayouts
    PROVE  CkOf(v, l)'
<1>1. CkOf(v, l) /\ l \in Layouts /\ <<v, l>> \in Weights \X Layouts
  BY MixedAssumption DEF WeightsInv, UsedLayouts
<1>2. \A w \in Weights : ~CkPacksInPlace(t, w)
  BY WhoWrites DEF Automatic
<1>3. ASSUME NEW w \in Weights, CkWarms(t, w) \/ CkPacksOutOfPlace(t, w)
      PROVE  CkOf(v, l)'
  <2>1. /\ pc[t] # "out" /\ buf' = buf
        /\ ck' = [ck EXCEPT ![Slot(t, w)] = IF @ = "none" THEN FromRaw(w) ELSE @]
    BY <1>3 DEF CkWarms, CkPacksOutOfPlace, Decodes
  <2>2. Slot(t, w) = <<w, l>>
    BY <2>1, OneUsedLayout DEF Slot
  <2>3. CASE v = w
    <3>1. ck'[<<v, l>>] = IF ck[<<v, l>>] = "none" THEN FromRaw(v) ELSE ck[<<v, l>>]
      BY <1>1, <2>1, <2>2, <2>3 DEF TypeOK
    <3> QED BY <1>1, <2>1, <3>1 DEF CkOf, FromRaw
  <2>4. CASE v # w
    <3>1. <<v, l>> # <<w, l>>
      BY <2>4
    <3>2. ck'[<<v, l>>] = ck[<<v, l>>]
      BY <1>1, <2>1, <2>2, <3>1 DEF TypeOK
    <3> QED BY <1>1, <2>1, <3>2 DEF CkOf
  <2> QED BY <2>3, <2>4
<1>4. ASSUME NEW w \in Weights, InPlaceBegins(t, w)
      PROVE  CkOf(v, l)'
  <2>1. /\ pc[t] \in {"aoclLoop", "reorder"} /\ w \in todo[t] /\ aocl[w] = "none"
        /\ wct[t] = 2 /\ ck' = ck
        /\ buf' = [buf EXCEPT ![w] = IF @ = "raw" THEN "torn" ELSE "junk"]
    BY <1>4 DEF InPlaceBegins, Reorders
  <2>2. LateOf(t)
    BY DEF LateInv
  <2>3. OnPath(t)
    BY <2>1, <2>2 DEF LateOf, OnPath, AoclDone
  <2>4. ck[Slot(t, w)] # "none" /\ Slot(t, w) = <<w, l>>
    BY <2>1, <2>2, <2>3, OneUsedLayout DEF LateOf, CkDone, Slot
  <2>5. v # w => buf'[v] = buf[v]
    BY <2>1 DEF TypeOK
  <2> QED BY <1>1, <2>1, <2>4, <2>5 DEF CkOf
<1>5. CASE InPlaceEnds(t)
  <2>1. /\ ck' = ck /\ Copying(t) /\ on[t] \in Weights
        /\ buf' = [buf EXCEPT ![on[t]] = IF @ = "torn" THEN "aocl" ELSE "junk"]
    BY <1>5 DEF InPlaceEnds, Copying, TypeOK
  <2>2. buf[on[t]] = "torn"
    BY <2>1 DEF CopyInv
  <2>3. v # on[t] => buf'[v] = buf[v]
    BY <2>1 DEF TypeOK
  <2> QED BY <1>1, <2>1, <2>2, <2>3 DEF CkOf
<1>6. CASE buf' = buf /\ ck' = ck
  BY <1>1, <1>6 DEF CkOf
<1>7. \A w \in Weights : ReordersOutOfPlace(t, w) => buf' = buf /\ ck' = ck
  BY DEF ReordersOutOfPlace
<1> QED BY <1>2, <1>3, <1>4, <1>5, <1>6, <1>7, CachesKept

LEMMA WeightsStep ==
    ASSUME TypeOK, JobInv, LateInv, PinnedInv, CopyInv, WeightsInv, OneLayout,
           NEW t \in Threads, Acts(t)
    PROVE  WeightsInv'
<1>1. env' = env
  BY SharedKept DEF SharedGrows
<1>2. ASSUME env.algo # "decode"
      PROVE  \A w \in Weights : AoclOf(w)'
  BY <1>2, AoclStep
<1>3. ASSUME env.algo = "decode"
      PROVE  \A w \in Weights : aocl'[w] = "none" /\ buf'[w] \in {"raw", "ck"}
                                /\ \A l \in UsedLayouts : InPlaceCkOf(w, l)'
  BY <1>3, DecodeWeightsStep
<1>4. ASSUME Automatic
      PROVE  \A w \in Weights, l \in UsedLayouts : CkOf(w, l)'
  BY <1>4, CkStep
<1> QED BY <1>1, <1>2, <1>3, <1>4 DEF WeightsInv, Automatic
----------------------------------------------------------------------------
(* What a GEMM reads. *)

\* A thread joins those that may still reorder in place only in mixed mode.
LEMMA NobodyJoins ==
    ASSUME TypeOK, LateInv, Automatic, wc = 1, NEW t \in Threads, Acts(t), OnPath(t)'
    PROVE  OnPath(t) /\ Pool(t)' = Pool(t)
<1>1. LateOf(t)
  BY DEF LateInv
<1> USE DEF Goto, Moves, calls, local, Pool, TypeOK, OnPath
<1>2. CASE Enters(t) \/ InPrelude(t) \/ Returns(t)
  BY <1>2 DEF Enters, GateSets, Call, InPrelude, PreludeReadsMode, Names, Arrives, IsReleased,
     Probes, PcOfRole, Returns
<1>3. CASE WarmsCk(t)
  BY <1>3 DEF WarmsCk, Orders, CkWarmReadsType, CkWarmReadsFlag, CkWarmEnds, CkWarms,
     CkWarmFails, DowngradesType, DowngradesFlag
<1>4. CASE WarmsAocl(t)
  <2>1. CASE AoclWarmReadsType(t)
    BY <2>1 DEF AoclWarmReadsType
  <2>2. CASE AoclWarmReadsFlag(t) \/ AoclWarmReadsFlagAgain(t)
    BY <2>2 DEF AoclWarmReadsFlag, AoclWarmReadsFlagAgain
  <2>3. CASE AoclWarmEnds(t) \/ WarmReturns(t)
    BY <2>3 DEF AoclWarmEnds, WarmReturns
  <2> QED BY <1>4, <2>1, <2>2, <2>3 DEF WarmsAocl
<1>5. CASE InReorder(t)
  <2>1. CASE \E w \in Weights : PromptComputes(t, w)
    BY <2>1 DEF PromptComputes
  <2>2. CASE \E w \in Weights : \/ ReorderHits(t, w) \/ ReordersOutOfPlace(t, w)
                                \/ InPlaceBegins(t, w)
    BY <1>1, <2>2 DEF ReorderHits, ReordersOutOfPlace, InPlaceBegins, Reorders, Reordered
  <2>3. CASE InPlaceEnds(t)
    BY <1>1, <2>3 DEF InPlaceEnds, Reordered, LateOf
  <2> QED BY <1>5, <2>1, <2>2, <2>3 DEF InReorder
<1>6. CASE InDecode(t)
  BY <1>6 DEF InDecode, DecodeReadsType, DecodeReadsMode, CkHits, CkPacksOutOfPlace,
     CkPacksInPlace, CkRefuses, Decodes
<1> QED BY <1>2, <1>3, <1>4, <1>5, <1>6 DEF Acts

\* Plain weights that nobody may overwrite are not overwritten.
LEMMA PlainStays ==
    ASSUME TypeOK, JobInv, LateInv, PinnedInv, CopyInv, NEW t \in Threads, Acts(t),
           NEW u \in Threads, u # t, PlainIsSafe(u)
    PROVE  PlainIsSafe(u)'
<1>1. Automatic /\ wc = 1 /\ buf[on[u]] = "raw" /\ on[u] \in Weights
      /\ \A v \in Threads : OnPath(v) => on[u] \notin Pool(v)
  BY DEF PlainIsSafe, TypeOK
<1>2. env' = env /\ wc' = 1 /\ on'[u] = on[u]
  BY <1>1, SharedKept, OthersKept DEF SharedGrows, SameLocals
<1>3. ASSUME NEW v \in Threads, OnPath(v)'
      PROVE  on[u] \notin Pool(v)'
  <2>1. CASE v = t
    BY <1>1, <1>3, <2>1, NobodyJoins
  <2>2. CASE v # t
    <3>1. SameLocals(v)
      BY <2>2, OthersKept
    <3>2. OnPath(v) /\ Pool(v)' = Pool(v)
      BY <1>3, <3>1 DEF OnPath, Pool, SameLocals
    <3> QED BY <1>1, <3>2
  <2> QED BY <2>1, <2>2
<1>4. buf'[on[u]] = "raw"
  <2>1. ASSUME NEW w \in Weights, InPlaceBegins(t, w)
        PROVE  buf'[on[u]] = buf[on[u]]
    <3>1. /\ pc[t] \in {"aoclLoop", "reorder"} /\ w \in todo[t] /\ aocl[w] = "none"
          /\ wct[t] = 2
          /\ buf' = [buf EXCEPT ![w] = IF @ = "raw" THEN "torn" ELSE "junk"]
      BY <2>1 DEF InPlaceBegins, Reorders
    <3>2. LateOf(t)
      BY <1>1 DEF LateInv
    <3>3. OnPath(t) /\ w \in Pool(t)
      BY <3>1, <3>2 DEF LateOf, OnPath, AoclDone
    <3>4. on[u] # w
      BY <1>1, <3>3
    <3> QED BY <1>1, <3>1, <3>4 DEF TypeOK
  <2>2. CASE InPlaceEnds(t)
    <3>1. /\ Copying(t) /\ on[t] \in Weights
          /\ buf' = [buf EXCEPT ![on[t]] = IF @ = "torn" THEN "aocl" ELSE "junk"]
      BY <2>2 DEF InPlaceEnds, Copying, TypeOK
    <3>2. on[t] # on[u]
      BY <1>1, <3>1 DEF CopyInv
    <3> QED BY <1>1, <3>1, <3>2 DEF TypeOK
  <2>3. \A w \in Weights : ~CkPacksInPlace(t, w)
    BY <1>1, WhoWrites DEF Automatic
  <2>4. \A w \in Weights : CkWarms(t, w) \/ ReordersOutOfPlace(t, w) \/ CkPacksOutOfPlace(t, w)
                               => buf' = buf
    BY DEF CkWarms, ReordersOutOfPlace, CkPacksOutOfPlace
  <2> QED BY <1>1, <2>1, <2>2, <2>3, <2>4, CachesKept
<1> QED BY <1>1, <1>2, <1>3, <1>4 DEF PlainIsSafe, Automatic

\* The operand of another's GEMM stays what it was.
LEMMA OtherGemms ==
    ASSUME TypeOK, JobInv, LateInv, PinnedInv, CopyInv, WeightsInv, GemmInv,
           NEW t \in Threads, Acts(t), NEW u \in Threads, u # t
    PROVE  GemmOf(u)'
<1>1. SameLocals(u) /\ SharedGrows /\ on[u] \in Weights
  BY OthersKept, SharedKept DEF TypeOK
<1>2. GemmOf(u)
  BY DEF GemmInv
<1>3. aocl[on[u]] = "user" => aocl'[on'[u]] = "user"
  BY <1>1 DEF SameLocals, SharedGrows
<1>4. PlainIsSafe(u) => PlainIsSafe(u)'
  BY PlainStays
<1>5. ASSUME env.algo = "decode", buf[on[u]] = "ck"
      PROVE  buf'[on'[u]] = "ck"
  <2>1. on'[u] = on[u]
    BY <1>1 DEF SameLocals
  <2>2. ASSUME NEW w \in Weights, CkPacksInPlace(t, w)
        PROVE  buf'[on[u]] = buf[on[u]]
    <3>1. /\ pc[t] # "out" /\ ck[<<w, job[t].layout>>] = "none"
          /\ buf' = [buf EXCEPT ![w] = IF @ = "raw" THEN "ck" ELSE "junk"]
      BY <2>2 DEF CkPacksInPlace, Slot
    <3>2. job[t].layout \in UsedLayouts
      BY <3>1 DEF JobInv, JobOf
    <3>3. buf[w] = "raw"
      BY <1>5, <3>1, <3>2 DEF WeightsInv, InPlaceCkOf
    <3>4. on[u] # w
      BY <1>5, <3>3
    <3> QED BY <1>1, <3>1, <3>4 DEF TypeOK
  <2>3. ~InPlaceEnds(t) /\ \A w \in Weights : ~InPlaceBegins(t, w)
    BY <1>1, <1>5, WhoWrites
  <2>4. \A w \in Weights : CkWarms(t, w) \/ ReordersOutOfPlace(t, w) \/ CkPacksOutOfPlace(t, w)
                               => buf' = buf
    BY DEF CkWarms, ReordersOutOfPlace, CkPacksOutOfPlace
  <2> QED BY <1>5, <2>1, <2>2, <2>3, <2>4, CachesKept
<1> QED BY <1>1, <1>2, <1>3, <1>4, <1>5 DEF GemmOf, SameLocals, SharedGrows

\* A GEMM starts with what its call has found or made.
LEMMA OwnGemm ==
    ASSUME TypeOK, SafetyInv, OneLayout, FailuresAreAskedFor, NEW t \in Threads, Acts(t)
    PROVE  GemmOf(t)'
<1> USE DEF SafetyInv
<1>1. env' = env
  BY SharedKept DEF SharedGrows
<1>2. env.algo \in {"auto", "prompt", "decode"} /\ env \in Environments
  BY MixedAssumption DEF TypeOK, Phases
<1>3. ASSUME pc'[t] # "gemm"
      PROVE  GemmOf(t)'
  BY <1>3 DEF GemmOf
<1>4. pc[t] # "out" => job[t].layout \in UsedLayouts
  BY DEF JobInv, JobOf
<1> USE DEF Goto, Moves, calls
<1>5. ASSUME NEW w \in Weights, ReorderHits(t, w) \/ ReordersOutOfPlace(t, w)
      PROVE  GemmOf(t)'
  <2>1. CASE pc[t] = "aoclLoop"
    BY <1>3, <1>5, <2>1 DEF ReorderHits, ReordersOutOfPlace, Reordered, TypeOK
  <2>2. CASE pc[t] = "reorder"
    <3>1. job[t].phase = "prompt" /\ env.algo # "decode"
      BY <2>2 DEF JobInv, JobOf
    <3>2. CASE ReorderHits(t, w)
      <4>1. /\ job' = job /\ on'[t] = w /\ operand'[t] = aocl[w] /\ aocl' = aocl
            /\ aocl[w] # "none"
        BY <2>2, <3>2 DEF ReorderHits, Reordered, caches, TypeOK
      <4>2. aocl[w] \in {"good", "user"}
        BY <3>1, <4>1 DEF WeightsInv, AoclOf
      <4> QED BY <1>1, <3>1, <4>1, <4>2 DEF GemmOf
    <3>3. CASE ReordersOutOfPlace(t, w)
      <4>1. operand'[t] = FromRaw(w) /\ aocl[w] = "none" /\ holder = Nobody
        BY <2>2, <3>3 DEF ReordersOutOfPlace, Reorders, Reordered, TypeOK
      <4>2. \A u \in Threads : ~Copying(u)
        BY <4>1, MixedAssumption DEF CopyInv
      <4>3. operand'[t] = "good"
        BY <3>1, <4>1, <4>2 DEF WeightsInv, AoclOf, FromRaw
      <4> QED BY <4>3 DEF GemmOf
    <3> QED BY <1>5, <3>2, <3>3
  <2> QED BY <1>5, <2>1, <2>2 DEF ReorderHits, ReordersOutOfPlace, Reorders
<1>6. CASE InPlaceEnds(t)
  <2>1. CASE pc[t] = "aoclCopy"
    BY <1>3, <1>6, <2>1 DEF InPlaceEnds, Reordered, TypeOK
  <2>2. CASE pc[t] = "reorderCopy"
    <3>1. job[t].phase = "prompt" /\ env.algo # "decode"
      BY <2>2 DEF JobInv, JobOf
    <3>2. job' = job /\ on'[t] = on[t] /\ operand'[t] = "user" /\ aocl'[on[t]] = "user"
      BY <1>6, <2>2 DEF InPlaceEnds, Reordered, TypeOK
    <3> QED BY <1>1, <3>1, <3>2 DEF GemmOf
  <2> QED BY <1>6, <2>1, <2>2 DEF InPlaceEnds
<1>7. ASSUME NEW w \in Weights, CkHits(t, w)
      PROVE  GemmOf(t)'
  <2>1. /\ pc[t] = "ckFetch" /\ ck[<<w, job[t].layout>>] # "none" /\ job' = job
        /\ on'[t] = w /\ operand'[t] = ck[<<w, job[t].layout>>] /\ buf' = buf
    BY <1>7 DEF CkHits, Decodes, Slot, TypeOK
  <2>2. job[t].phase = "decode" /\ env.algo # "prompt"
    BY <2>1 DEF JobInv, JobOf
  <2>3. CASE env.algo = "auto"
    <3>1. operand'[t] = "good"
      BY <1>4, <2>1, <2>3 DEF WeightsInv, CkOf, Automatic
    <3> QED BY <3>1 DEF GemmOf
  <2>4. CASE env.algo = "decode"
    <3>1. operand'[t] = "user" /\ buf'[w] = "ck"
      BY <1>4, <2>1, <2>4 DEF WeightsInv, InPlaceCkOf
    <3> QED BY <1>1, <2>1, <2>2, <2>4, <3>1 DEF GemmOf
  <2> QED BY <1>2, <2>2, <2>3, <2>4
<1>8. ASSUME NEW w \in Weights, CkPacksOutOfPlace(t, w)
      PROVE  GemmOf(t)'
  <2>1. /\ pc[t] = "ckFetch" /\ ck[<<w, job[t].layout>>] = "none" /\ operand'[t] = FromRaw(w)
    BY <1>8 DEF CkPacksOutOfPlace, Decodes, Slot, TypeOK
  <2>2. Automatic
    BY <1>8, WhoWrites
  <2>3. operand'[t] = "good"
    BY <1>4, <2>1, <2>2 DEF WeightsInv, CkOf, FromRaw
  <2> QED BY <2>3 DEF GemmOf
<1>9. ASSUME NEW w \in Weights, CkPacksInPlace(t, w)
      PROVE  GemmOf(t)'
  <2>1. /\ pc[t] = "ckFetch" /\ ck[<<w, job[t].layout>>] = "none" /\ operand'[t] = "user"
        /\ buf'[w] = (IF buf[w] = "raw" THEN "ck" ELSE "junk") /\ on'[t] = w /\ job' = job
    BY <1>9 DEF CkPacksInPlace, Decodes, Slot, TypeOK
  <2>2. env.algo = "decode" /\ job[t].phase = "decode"
    BY <1>9, <2>1, WhoWrites DEF JobInv, JobOf
  <2>3. buf[w] = "raw"
    BY <1>4, <2>1, <2>2 DEF WeightsInv, InPlaceCkOf
  <2> QED BY <1>1, <2>1, <2>2, <2>3 DEF GemmOf
<1>10. ASSUME NEW w \in Weights, CkRefuses(t, w)
       PROVE  GemmOf(t)'
  <2>1. /\ pc[t] = "ckFetch" /\ w \in Pool(t) /\ w \in env.flaky
        /\ ck[<<w, job[t].layout>>] = "none" /\ job' = job
        /\ on'[t] = w /\ operand'[t] = "plain" /\ buf' = buf /\ wc' = wc
    BY <1>10 DEF CkRefuses, Decodes, Slot, config, TypeOK
  <2>2. job[t].phase = "decode" /\ env.algo # "prompt"
    BY <2>1 DEF JobInv, JobOf
  <2>3. Automatic /\ env.warmUp
    BY <1>2, <2>1, <2>2 DEF FailuresAreAskedFor, Automatic
  <2>4. ~CkDone(t)
    BY <2>1 DEF CkDone, Slot
  <2>5. wc = 1
    BY <2>1, <2>2, <2>3, <2>4, WarmedUpIsCovered, CoveredIsPacked DEF TypeOK
  <2>6. buf[w] = "raw"
    BY <1>4, <2>1, <2>3 DEF WeightsInv, CkOf
  <2>7. ASSUME NEW u \in Threads, OnPath(u)'
        PROVE  w \notin Pool(u)'
    <3>1. OnPath(u) /\ Pool(u)' = Pool(u)
      <4>1. CASE u = t
        BY <2>3, <2>5, <2>7, <4>1, NobodyJoins
      <4>2. CASE u # t
        BY <2>7, <4>2, OthersKept DEF OnPath, Pool, SameLocals
      <4> QED BY <4>1, <4>2
    <3>2. CkDone(u) /\ pc[u] # "out"
      BY <2>3, <3>1 DEF LateInv, LateOf, OnPath
    <3>3. job[u].layout = job[t].layout
      BY <1>4, <2>1, <3>2, OneUsedLayout
    <3> QED BY <2>1, <3>1, <3>2, <3>3 DEF CkDone, Slot
  <2>8. PlainIsSafe(t)'
    BY <1>1, <2>1, <2>3, <2>5, <2>6, <2>7 DEF PlainIsSafe, Automatic
  <2> QED BY <2>1, <2>2, <2>8 DEF GemmOf
<1> USE DEF TypeOK
<1>11. CASE Enters(t) \/ InPrelude(t) \/ Returns(t)
  BY <1>3, <1>11 DEF Enters, GateSets, Call, InPrelude, PreludeReadsMode, Names, Arrives,
     IsReleased, Probes, PcOfRole, Returns
<1>12. CASE WarmsCk(t)
  BY <1>3, <1>12 DEF WarmsCk, Orders, CkWarmReadsType, CkWarmReadsFlag, CkWarmEnds, CkWarms,
     CkWarmFails, DowngradesType, DowngradesFlag
<1>13. CASE WarmsAocl(t)
  BY <1>3, <1>13 DEF WarmsAocl, AoclWarmReadsType, AoclWarmReadsFlag,
     AoclWarmReadsFlagAgain, AoclWarmEnds, WarmReturns
<1>14. ASSUME NEW w \in Weights, PromptComputes(t, w) \/ InPlaceBegins(t, w)
       PROVE  GemmOf(t)'
  BY <1>3, <1>14 DEF PromptComputes, InPlaceBegins, Reorders
<1>15. CASE DecodeReadsType(t) \/ DecodeReadsMode(t)
  BY <1>3, <1>15 DEF DecodeReadsType, DecodeReadsMode
<1> QED BY <1>5, <1>6, <1>7, <1>8, <1>9, <1>10, <1>11, <1>12, <1>13, <1>14, <1>15
        DEF Acts, InReorder, InDecode
----------------------------------------------------------------------------
(* The inductive invariant, and the properties of a run. *)

Sound == OneLayout /\ FailuresAreAskedFor
IInv == TypeOK /\ SafetyInv

LEMMA InvInit == Init => IInv
<1> SUFFICES ASSUME Init PROVE IInv
  OBVIOUS
<1>1. TypeOK
  BY TypesInit
<1>2. JobInv /\ LateInv /\ CopyInv /\ GemmInv
  BY DEF Init, JobInv, JobOf, LateInv, LateOf, OnPath, CopyInv, Copying, GemmInv, GemmOf
<1>3. MixedModeInv
  <2>1. \A t \in Threads : pc[t] = "out" /\ role[t] = "out"
    BY DEF Init, Once!OnceInit
  <2>2. \A p \in Pools : warm[<<p, 2>>] = "cold"
    BY DEF Init, Once!OnceInit, Keys
  <2>3. served = {}
    BY DEF Init
  <2>4. \A t \in Threads : ControlOf(t) /\ ProgressOf(t)
    BY <2>1 DEF ControlOf, ProgressOf, RoleAt, Warming, PastWarm
  <2> QED BY <2>2, <2>3, <2>4 DEF MixedModeInv
<1>4. PinnedInv
  BY DEF Init, Once!OnceInit, PinnedInv, PinnedOf
<1>5. WeightsInv
  <2>1. \A w \in Weights : buf[w] = "raw" /\ aocl[w] = "none"
    BY DEF Init
  <2>2. \A w \in Weights, l \in UsedLayouts : ck[<<w, l>>] = "none"
    BY MixedAssumption DEF Init, UsedLayouts
  <2> QED BY <2>1, <2>2 DEF WeightsInv, AoclOf, CkOf, InPlaceCkOf
<1> QED BY <1>1, <1>2, <1>3, <1>4, <1>5 DEF IInv, SafetyInv

LEMMA InvStep ==
    ASSUME IInv, Sound, [Next]_vars
    PROVE  IInv'
<1>1. TypeOK'
  BY TypeStep DEF IInv
<1>2. CASE UNCHANGED vars
  BY <1>1, <1>2 DEF vars, config, latch, calls, caches, local, IInv, SafetyInv, JobInv, JobOf,
     MixedModeInv, ControlOf, ProgressOf, LateInv, LateOf, PinnedInv, PinnedOf, CopyInv, Copying,
     WeightsInv, AoclOf, CkOf, InPlaceCkOf, GemmInv, GemmOf, PlainIsSafe, OnPath, CkDone, AoclDone,
     Covered, Pool, Slot, Automatic
<1>3. ASSUME NEW t \in Threads, Acts(t)
      PROVE  IInv'
  <2> USE DEF IInv, SafetyInv, Sound
  <2>1. JobInv' /\ MixedModeInv' /\ LateInv' /\ PinnedInv'
    BY <1>3, JobStep, MixedStep, LateStep, PinnedStep
  <2>2. CopyInv' /\ WeightsInv'
    BY <1>3, CopyStep, WeightsStep
  <2>3. GemmInv'
    <3>1. GemmOf(t)'
      BY <1>3, OwnGemm
    <3>2. \A u \in Threads \ {t} : GemmOf(u)'
      BY <1>3, OtherGemms
    <3> QED BY <3>1, <3>2 DEF GemmInv
  <2> QED BY <1>1, <2>1, <2>2, <2>3
<1> QED BY <1>2, <1>3, StepKinds

\* The invariant holds in every reachable state.
LEMMA Invariance == ASSUME Sound PROVE Spec => []IInv
<1>1. IInv /\ [Next]_vars => IInv'
  BY InvStep
<1> QED BY <1>1, InvInit, PTL DEF Spec

\* A weight that is being copied over is torn, any other is whole.
LEMMA BufferStates ==
    ASSUME IInv, NEW w \in Weights
    PROVE  /\ env.algo # "decode" => buf[w] \in {"raw", "torn", "aocl"}
           /\ env.algo = "decode" => buf[w] \in {"raw", "ck"}
           /\ Automatic /\ buf[w] # "raw" => \A l \in UsedLayouts : ck[<<w, l>>] = "good"
<1> USE DEF IInv, SafetyInv
<1>1. ASSUME env.algo # "decode"
      PROVE  buf[w] \in {"raw", "torn", "aocl"}
  <2>1. AoclOf(w)
    BY <1>1 DEF WeightsInv
  <2> QED BY <2>1 DEF AoclOf, CopyInv
<1>2. ASSUME env.algo = "decode"
      PROVE  buf[w] \in {"raw", "ck"}
  BY <1>2 DEF WeightsInv
<1>3. ASSUME Automatic, buf[w] # "raw", NEW l \in UsedLayouts
      PROVE  ck[<<w, l>>] = "good"
  BY <1>3 DEF WeightsInv, CkOf
<1> QED BY <1>1, <1>2, <1>3

\* Where one CK layout is made and read, and failing packs are asked for, a GEMM
\* reads the layout it was written for: GemmReadsItsLayout.
THEOREM GemmReadsLayout == ASSUME Sound PROVE Spec => []GemmReadsItsLayout
<1>1. ASSUME IInv, NEW t \in Threads, pc[t] = "gemm"
      PROVE  \/ operand[t] = "good"
             \/ /\ operand[t] = "user"
                /\ buf[on[t]] = IF job[t].phase = "prompt" THEN "aocl" ELSE "ck"
             \/ operand[t] = "plain" /\ buf[on[t]] = "raw"
  <2>1. GemmOf(t) /\ on[t] \in Weights
    BY <1>1 DEF IInv, SafetyInv, GemmInv, TypeOK
  <2>2. env.algo # "decode" /\ aocl[on[t]] = "user" => buf[on[t]] = "aocl"
    BY <1>1, <2>1 DEF IInv, SafetyInv, WeightsInv, AoclOf
  <2> QED BY <1>1, <2>1, <2>2 DEF GemmOf, PlainIsSafe
<1>2. IInv => GemmReadsItsLayout
  BY <1>1 DEF GemmReadsItsLayout
<1> QED BY <1>2, Invariance, PTL

\* Exactly one layout overwrites a weight, once: OneMutator.
THEOREM OneLayoutMutates == ASSUME Sound PROVE Spec => []OneMutator
<1>1. IInv => OneMutator
  BY BufferStates DEF OneMutator
<1> QED BY <1>1, Invariance, PTL

\* Under AUTO the weights are overwritten after every pack decode reads has been
\* made from them: OverwrittenWhenPacked.
THEOREM PackedFirst == ASSUME Sound PROVE Spec => []OverwrittenWhenPacked
<1>1. IInv => OverwrittenWhenPacked
  BY BufferStates DEF OverwrittenWhenPacked, Automatic, UsedLayouts
<1> QED BY <1>1, Invariance, PTL

\* In mixed mode a recorded pool needs no pack and no reorder: RecordCoversThePool.
THEOREM RecordCovers == ASSUME Sound PROVE Spec => []RecordCoversThePool
<1>1. ASSUME IInv, NEW p \in Pools, warm[<<p, 2>>] = "warm", wc = 2
      PROVE  Covered(p)
  <2>1. CASE Automatic
    BY <1>1, <2>1 DEF IInv, SafetyInv, MixedModeInv
  <2>2. CASE ~Automatic
    <3>1. <<p, 2>> \in Keys
      BY DEF Keys
    <3> QED BY <1>1, <2>2, <3>1 DEF IInv, SafetyInv, PinnedInv
  <2> QED BY <2>1, <2>2
<1>2. IInv => RecordCoversThePool
  BY <1>1 DEF RecordCoversThePool, Covered
<1> QED BY <1>2, Invariance, PTL
=============================================================================
