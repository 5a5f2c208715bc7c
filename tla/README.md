# BullDNN in TLA+

BullDNN (a fork of ZenDNN, library name `zendnnl`) is a C++ library of deep
learning operators for CPUs. Nearly all of it is arithmetic; what is hard to get
right and hard to test is what it *keeps* between calls — process-wide caches of
reordered weights, a process-wide weight-cache mode, a mode in which the caller's
own weight buffer is overwritten — and the fact that a serving framework calls
it from several threads. The specifications here are about that part.

`P/` below stands for `src/zendnnl/src/lowoha_operators/matmul/`.

## 1. Inventory

| Component | State it keeps | Operations | Hard behaviours | What makes it correct |
|---|---|---|---|---|
| **Warm latch** `P/group_matmul/prepack/prepack.cpp` | `s_warmed_fps`, `s_warm_latch_map`, `s_warm_done_fps`, one mutex, condition variable and flag per running warm | `prelude`, `already_warmed`, `WarmGuard::signal`, test-only clear | framework threads race for the first call on a pool; sleep and wakeup; the latch leaves the map before its waiters are told | one warm per pool, nobody computes before it, no lost wakeup, no leftover entries |
| **Mixed in-place mode** `P/group_matmul/group_matmul_dispatch.cpp`, `prepack/`, `custom_kernel/` | `matmul_weight_cache`, `grp_auto_mixed_inplace` (relaxed atomics), custom-kernel pack cache, AOCL cache, the caller's weights | the dispatcher's verdict, the two warms of a prompt and of a decode call, downgrade, in-place reorder, pack fetch | the mode is read again at five places; one layout overwrites what every other layout is made from; failed packs; pools that share tensors | a GEMM reads the layout it was written for; weights are overwritten once and only when nothing needs them raw |
| **AOCL backend** `P/backends/aocl/aocl_kernel.cpp`, `P/lru_cache/lowoha_cache.hpp` | weight caches by element type, sym-quant, WOQ and W4A8 caches, zero-point compensation cache | `run_dlp`, `reorderAndCacheWeights` and siblings, `cache_or_compute_zp_compensation`, clear | pack outside or inside a lock, recheck, loser frees; eviction frees what a peer reads; partial allocation failure; who frees what | the GEMM reads its own pack and its own compensation; every block has one owner |
| **`lru_cache_t`** `P/lru_cache/lru_cache.hpp` | map, time stamps, capacity | `add`, `get`, `try_get`, `get_or_add`, `find_key`, `set_capacity`, `clear`, `remove_if_invalidated` | unsigned wrap in `evict(n)`; eviction when the key is present already | never more than the capacity, the least recent entry goes |
| **Native weight caches** `P/matmul_native/common/kernel_cache.cpp`, `brgemm/looper/` | five caches with a capacity, a generation counter, thread-local last entries and kept columns | `get_or_pack`, the callers' fast paths, `clear_all_weight_caches` | pack inside or outside the lock; parameters checked at the lookup and not at the recheck; refusal at capacity; a raw pointer followed without the mutex | a GEMM reads the pack of its own weight, bytes and layout; a published entry stays |
| **N-tile executor** `P/group_matmul/n_tile/`, `group_matmul_parallel_common.hpp` | the plan, `alloc_fail`, one team per call | `plan_group_n_tile`, five executors, `do_tile`, `apply_swiglu_oai`, two barriers | 17 tuning variables; uneven splits; activation by other threads than the multiplication; a thread without scratch memory | all threads meet at all barriers; columns covered once; activation after all columns of the row; the tiles are those that were prepacked |
| **M-tile executor, dispatcher, fused MoE** `P/group_matmul/m_tile/`, `group_matmul_dispatch.cpp`, `group_matmul_fused_moe.cpp` | the plan, `light_next`, `alloc_fail`, two outputs | ALGO selection, ALGO 1, 2, 4, 5, the vertical-fusion pipeline and its fallback to two passes | a shared counter beside fixed slices; a call given up halfway; Op2 writing over Op1's source | every row once by each weight, after its input exists; a fallback finds nothing written |
| **Auto-tuner** `P/auto_tuner/auto_tuner.cpp` | version 1: two maps; version 2: a count per layer, a time per slot, one pick | warm-up, evaluation, settled phases | lookup outside the lock, decide / measure / record in separate sections, lost updates | the kept algorithm is the one the best time belongs to; tuning ends |
| **Partitioners** `P/partitioning/` | none | tile ranges | tails, more threads than tiles | cover without overlap |
| **Kernel selection** `P/lowoha_matmul*.cpp` | weight-cache downgrade | validation, decision tree | downgrade after weights were overwritten | one reorder layout per buffer |
| **Quantisation, GGML unpack, microkernels, oneDNN and libxsmm backends** | per call, or a cache of the AOCL shape | arithmetic | — | numerical |
| **Other low-overhead operators** (conv, pooling, softmax, normalization, SDPA, reorder, embedding bag) | convolution weight cache; `embag_accum_type` | validate, run one kernel | a process-wide field written by a parallel region | numerical |
| **Regular operator framework** `src/zendnnl/src/operators/`, tensors in `memory/` | one object per caller | create, validate, select, execute | — | state of one thread |
| **Common** `src/zendnnl/src/common/` | configuration, logger, `lru_cche_t` | read once; insert, erase, lookup | list and map of `lru_cche_t` | list and map agree |

How they interact. A framework thread calls the grouped matmul; the dispatcher
decides the mode and the scheduling algorithm (ALGO 1 to 5), which calls
`prepack_for_algo_N`, whose `prelude` decides who warms; the warm fills the
custom-kernel cache and the AOCL cache (`reorderAndCacheWeights`) — in mixed mode
overwriting the weights; then an OpenMP team multiplies the experts, split by
columns (ALGO 3), by rows (ALGO 2) or not at all (1, 4, 5), and each tile runs
`run_dlp`, the native backend or the custom kernel, which look the same caches up. A
fused MoE call does this for two weights, either in one team (the pipeline) or in
two passes. A plain matmul enters at kernel selection, where the auto-tuner may choose
the backend. All of it shares the process-wide configuration object, so a downgrade by
one thread is seen by every other in the middle of whatever it does.

PROJECT.json lists the components that are not modelled with the reason, and every
hazard at the line where it bites.

## 2. Modules

### WarmOnce, WarmLatch, WarmLatchProofs
`WarmOnce` is what a caller of `prelude` may rely on: the first call on a key owns
the warm, calls that come while it runs are held back, later ones pass. `WarmLatch`
is the code: `pc` is the place in `prelude` and `~WarmGuard`, `latchMap`, `doneFps`,
`warmedFps` are the three static tables, `hold` the `shared_ptr` each thread has,
`latchDone` the flag of each latch. A critical section is one step, and what lies
between two critical sections is not: `SignalRecords`, `SignalSetsDone` and
`SignalNotifies` are separate, as are `WaitTests` and going back to sleep. A woken
thread is in state `test` again; `SpuriousWake` is the standard library's licence.
Latches are heap objects and are reused once nobody holds them. The mode may change
at any moment (`SetMixed`).

### MixedInplace, MixedInplaceProofs
Composes the latch (through `WarmOnce`, which `WarmLatch` is shown to implement) with
the dispatcher, the two warms of each phase, the AOCL in-place reorder and the decode
call's fetch. Its point is the *re-reads*: `wc` and `mixed` are the two atomics, and
each of the eight places that load them is a step of its own
(`GateSets`, `PreludeReadsMode`, `Names`, `Orders`, `CkWarmReadsType`/`Flag`,
`AoclWarmReadsType`/`Flag`/`FlagAgain`, `PromptComputes`, `DecodeReadsType`/`Mode`), so
a downgrade can fall between any two. `buf[w]` is what the weight buffer holds (raw,
half copied, AOCL blocked, custom-kernel blocked, junk); `aocl` and `ck` are the
caches, where `user` is the null sentinel ("the layout is in the buffer") and
`good`/`bad` a copy made from raw or from other bytes. The in-place reorder is two
steps under the cache's mutex, since a packing thread reads the buffer without it.

### LruCache, RunDlp, RunDlpProofs
`LruCache` gives `lru_cache_t`'s operations as functions on a record of the map and
the order of last use (time stamps only order the entries), with the `size_t`
wrap-around of `capacity_ - n`. `RunDlp` is `run_dlp` as concurrent callers see it:
`heap[b]` says what each heap block holds and whether it is free, `user[w]` what the
caller's buffer holds; `packs` and `comps` are the two caches; each lookup, recheck and
insertion is a critical section and one step; `operand`, `blocked` and `comp` are what
the GEMM is handed. `ZpFails` is the compensation whose buffer cannot be had: the call
goes on to reorder and multiply without it. `GemmEnds` has the epilogue's two free
conditions as written.

### NativeWeightCache, NativeWeightCacheProofs
The five process-wide caches of the native backend and their callers. `cache[r][k]` is
the block of an entry, `heap[b]` the pack in it (for which cache, weight, version of
the bytes, layout and source quantisation), `tl` the pointer each GEMV path keeps per
thread with the generation it was read under, `buf` the columns a thread packed for
itself. The FP32 and BF16 caches pack under their mutex (`PackUnderLock`), the other
three outside (`PackUnlocked`, then `Publish` with its recheck, its race loser and its
refusal at capacity). What every caller does with a null is `CacheGaveNull`. `ClearAll`
is `clear_all_weight_caches` in a quiescent process, after which an address may come
back with other bytes; `WriteWeight` is the framework rewriting a mutable buffer.

### AutoTuner, AutoTunerProofs
Both versions of the auto-tuner; `version` is `ZENDNNL_AUTO_TUNER_TYPE`. One action per
critical section: version 1 looks the layer up without the mutex (`FindMisses` can
also miss an entry while a peer inserts and rehashes), decides under it (`SkipRuns`,
`EvalStarts`), times the run outside and compares under it again (`EvalEnds`); version 2
reads the count (`ReadCount`) and writes it back plus one after the run. `measured` and
`samples` are history variables. `GetAlgo` keeps the 32-bit wrap of the candidate index.

### Grouped, NTilePlan, TileTeam, NTile, GroupedProofs, NTileProofs
`Grouped` holds what both planners ask of a call (active experts, CCDs, water filling).
`NTilePlan` is everything `flat_n_tile` decides before a thread runs, as functions of
the call: whether the custom kernel serves it, the strategy of `plan_group_n_tile`
(sequential, decode-D, dynamic, strict stable, few experts, the three round picks with
adaptive tiers, heavy budget, proportional and remainder splits), the five orders of
the experts, the column split, and the work list of each thread for each round
(`Schedule`). `TileTeam` is the OpenMP team: a thread is at a place (round, stage,
item), `DoTile` multiplies a tile or fails for want of scratch, `PassMid` and `PassEnd`
are the two barriers, `ApplyAct` activates a slice of rows. It states what the planner owes it
(`IsSchedule`: the tiles hold each column of each active expert once, the slices of the activation
pass each row once and not before the last tile of the expert), its properties and its refinement;
that a schedule is one is the first conjunct of its type invariant, so TLC judges the planner by it.
`NTile` puts the two together and adds what the widths of a call owe its kernels (`BlocksFit`) and the properties of
the plan. The schedules also carry what `prepack_for_algo_3` predicted
(`WarmedTiles`), computed by the formula of `prepack.cpp` and not by the executor's.

### MTilePlan, MoeTeam, MTile, MTileProofs
`MTilePlan` selects the ALGO of each of the two multiplications and plans the rows: the
single-tier assignment with its water filling, its CCD cap and the take-back of threads
from teams that have too little to do; the light and heavy tiers; the executors of ALGO 1,
4 and 5; and every condition under which the vertical-fusion pipeline is tried. A pass is a
sequence of parallel regions, each of which gives a thread its own rows and a pool of
threads a shared queue. `MoeTeam` runs it: `Grow`, `PassBarrier`, `W13`, `W2` and `Join` are
the pipeline; `EnterPass`, `RunItem`, `Take` (the `fetch_add` on `light_next`, or the runtime's
dynamic schedule), `RunTaken`, `NextRegion`, `NextPass` and `EndCall` the two passes of
`run_fused_moe_legacy_two_pass`, or the one of a plain call. `MTile` makes the jobs of the
calls. `MoeTeam` knows nothing of the planner but `JobsAreSound`, that a plan partitions the
rows; `MTileProofs` proves it of every call, and `MCMTile` has TLC evaluate it on the plans of the instance.

### GroupedCall
What a grouped matmul promises its caller, for both executors: an output goes from
untouched to its product and, when there is a second stage, to its final form, never
back; nothing changes after the return; the call returns, with everything final unless it
failed. `TileTeam!Promise` and `MoeTeam!Promise` are the refinement mappings.

The `MC` modules hold the instances. The operators named after a definition with a suffix
(`SignalNotifies_One`, `PassMid_NoBarrier`) are wrong variants of it (a comment says how)
which the properties must reject.

## 3. Runs

| Run | Question | Instance |
|---|---|---|
| `warm_latch` | does anyone compute before the warm is on record, are there two owners, leftovers, lost wakeups? does every call return, and does the latch implement `WarmOnce` with its liveness? | 3 threads, 2 pools, 2 latches |
| `mixed_inplace` | does every GEMM read its layout through all modes, failures and downgrades? | 2 threads, 2 pools `{w1}` and `{w1,w2}`, 1 layout, 4 environments |
| `mixed_layouts` | does it still when a prompt names another custom-kernel layout? (**no**) | 1 thread, 1 weight, 2 layouts |
| `run_dlp` | are pack, compensation and ownership right in all supported settings? | 2 callers, 3 weights (one fits in place, one not, one comes blocked), 5 blocks |
| `run_dlp_eviction` | with a finite capacity? (**no**) | capacity 1, 2 weights |
| `run_dlp_leak` | with weights that may change? (**no**) | 1 weight |
| `run_dlp_stale_zp` | with a source zero point that changes? (**no**) | 1 weight, 2 zero points |
| `native_cache` | does every native GEMM read its own weight, with refusals, races, fast paths and a clear between two models? | 2 threads, 4 weights in 3 models, capacity 1, 4 blocks, 2 versions |
| `auto_tuner` | does what is measured belong to what is kept, and does tuning end? | 2 threads, 2 layers, 2 candidates, run times 1 and 2 |
| `n_tile` | does every plan cover the columns once, activate after all columns, keep blocks whole and read only what was warmed, and does the team keep `GroupedCall`? | 8 shapes, 16 tunings, 9 kernel modes, teams to 5 threads |
| `m_tile` | is every row multiplied once by each weight from an input that exists, whether or not the pipeline gives up, and does the team keep `GroupedCall`? | 8 shapes, 11 tunings, 7 kinds of call, teams to 4 threads |
| `moe_prepacked` | does a call whose weight is packed for a kernel it cannot reach fail? (**no**) | the fused calls of `m_tile`, first weight prepacked |

Properties (each comment in the modules names the line it is about):

* `ThroughMeansWarm`, `OneWarmer`, `MapIsInFlight`, `SleeperHasWaker`, `CallsReturn`,
  `ImplementsWarmOnce` — the latch.
* `GemmReadsItsLayout` is the goal of mixed mode; `OverwrittenWhenPacked` and
  `RecordCoversThePool` are why it holds (overwrite last; one record covers every call
  on the pool); `OneMutator` is the rule that AUTO reserves the overwrite for AOCL.
* `GemmReadsItsPack`, `CompIsForThisCall` are what a `run_dlp` caller sees, the second
  also when the sums of some calls cannot be allocated: such a call goes without, and no
  other call gets wrong ones for it;
  `EveryBlockIsOwned` says no leak, no double free; `NullEntryMeansBlocked` ties the
  sentinel to the bytes.
* `ReadsOwnWeight` is what a native GEMM sees; `EntriesAreStable` and
  `TlRecordsAreCurrent` are why following a raw pointer without the mutex is right;
  `EveryBlockHasOneHolder` is the race loser's and the refused pack's free.
* `BestWasMeasured`, `EverySlotTimed` and `PickRestsOnEvaluation` hold however the calls
  overlap, the last although a lost update can move a layer's count back between the read
  that sends a call past the evaluation and the pick it then makes; `SettlesOnFastest`,
  `SlotsCompare` and `SerialSettles` hold when one thread runs the graph, which is what the
  tuner is written for. What overlapping calls do to these is in section 4.
* `EachColumnOnce`, `ActivatedOnceAfterProduct`, `TilesHoldWholeBlocks` — the outputs of
  the N-tile executor; `TilesWereWarmed` compares its arithmetic with prepack's;
  `KeepsPromise` is the refinement, termination included.
* `EachRowOnce`, `StepsReadTheirInput`, `FallbackFindsNothingDone`, `KeepsPromise` — the
  same for the executors that split by rows, and the order of Op1 and Op2 in them.

**Bounds.** Three threads at the latch are one that warms, one that sleeps and one that
arrives late, or two sleepers on a latch, which tells `notify_one` from `notify_all`. Two
threads in `MixedInplace`, `RunDlp`, `NativeWeightCache` and `AutoTuner`: every hazard
there is one thread in the middle of a window and another acting in it; two overlapping
pools give two latches on one buffer. Five blocks in `RunDlp` are the most two callers
and two caches can hold, four in `native_cache` likewise; when none is free an allocating
caller waits, which only leaves out interleavings, never adds one. Capacity 1 makes a
cache full after one entry; one clear and two versions of each buffer
(`MaxGeneration`, `MaxVersions`) are one reuse of an address. `MaxCalls` lets every layer
of the tuner finish its five tuning calls and be called again (serial), or settle while
the other layer is created (concurrent). `Unlimited` and `SizeSpan` scale `UINT32_MAX` and
2^64 down and keep their order.

The planners' thresholds are constants, scaled down together so that a small call can lie
on either side of each (`CcdLanes` 2 for 8, `DecodeMaxM` 2, `MinNTile` 4, `DecodeNTile` 2,
`MaxExperts` 5 and 3, `LightFloor` 1, `BalancedMaxThreads` 4 for the 64 threads above which
no balanced rounds are considered, with teams of 4 and 5 on either side, ...). The shapes of `n_tile` (experts of different widths
and rows, idle experts, a CCD cut short, fewer threads than experts, columns too narrow
to split) reach every strategy, split and order; those of `m_tile` reach the sequential clamp,
one and two tiers, a refused two-tier plan, the take-back, the multilevel and the
per-expert executors, the pipeline and its fallback. Larger calls differ in how often the
same case occurs. Nothing is cut off by a state constraint.

**Environments of `mixed_inplace`.** AUTO with any first call and packs that succeed; AUTO
in which the first call on a pool is a prompt that has returned before a decode call
comes (the "framework's single warm-up call" of `group_matmul_dispatch.cpp:1192-1194`) and the
pack of `w2` may fail at any attempt; a process pinned to the AOCL kernel; a process
pinned to the custom kernel, which packs in place. A failing pack *and* a decode call
first is excluded: there the code does not ask whether its pack succeeded
(`prepack.cpp:1855-1870`), listed as a hazard.

**Settings of `run_dlp`.** Cache types 0 and 1 with all zero points, compensation cache on
and off; type 2 with symmetric weights and the compensation cache on — the two cases
`aocl_kernel.cpp:1041-1050` excludes are excluded — and one of the two allocations of the
in-place branch failing; weights that may change, without a compensation cache; and the
buffer of the sums failing where the weights stay plain (types 0 and 1) or are never summed
(type 2 with a zero point of the weights alone). Weights that come reordered are used without zero points.

**Calls of the other runs.** `native_cache`: one layout per address, no transposed FP32
weight, and two INT8 GEMVs of one weight with different source quantisation not at the same
time (`QuantsOverlap`). `n_tile`: no weight that comes packed, and tiles no narrower than the
packed block. `m_tile`: no fused call that writes Op2 over a transposed source
(`SourceIsByRows`), and calls that select ALGO 3 belong to `n_tile`. Section 4 says what happens
outside of these.

**Fairness.** Weak fairness of every thread's own steps: in `warm_latch` the operating
system runs a runnable thread and the warm of an owner ends (it is a loop over experts); in
`n_tile` and `m_tile` each thread of the OpenMP team and the calling thread run; in
`auto_tuner` some thread does, which the serial graph needs. Calls themselves, mode changes
and spurious wakeups are not fair.

**Deadlock** is checked in the runs of the latch, the mixed mode, `run_dlp` and the native
caches: some thread can always act. `n_tile` and `m_tile` are one call, which ends, and
the calls of `auto_tuner` are bounded; what a deadlock check would find in the teams
(a thread that misses a barrier) `KeepsPromise` finds, since the call then never returns.

## 4. Findings

1. *Layouts* (`mixed_layouts`): ALGO 1/2/4/5 get `fused_act`, ALGO 3 gets `none` unless it
   fuses; a silu/gelu call with a wide output thus warms the interleaved custom-kernel
   pack in its prompt phase, overwrites the weights, and its decode phase packs the
   plain layout from overwritten bytes.
2. *Eviction* (`run_dlp_eviction`): `lru_cache_t` frees an evicted block which another
   caller's GEMM still reads. The documentation presents a finite capacity as a
   performance trade-off.
3. *Leak* (`run_dlp_leak`): the epilogue does not free a compensation that was not cached
   because `is_weights_const` is false.
4. *Stale zero point* (`run_dlp_stale_zp`): the cached compensation contains the source zero
   point, its key does not.
5. *Refusal taken for an unfused activation* (`moe_prepacked`): the dispatcher's `false`
   means both; the fused MoE path reads only the second meaning, activates an output nobody
   wrote, and returns success. `lowoha_common.hpp:181-182` says such a call fails.

Seen while modelling, without a run of their own:

* `flat_n_tile` refuses a weight packed for the custom kernel when the kernel was not asked
  for (`group_matmul_n_tile.cpp:3675`); the sequential strategy, and an INT8 call one of whose
  experts the kernel cannot serve, run the standard kernel on the packed bytes (`:4359`).
* A tile width of 32 with blocks of 64 columns makes tiles cut blocks; a release build drops
  the columns past the last whole block (`custom_kernel/dispatch.cpp:1488`).
* With in-place caching, a call that cannot allocate its compensation (`lowoha_cache.hpp:113`)
  still reorders the weights, before anybody has summed them. The calls after it sum blocked bytes,
  the first of them caches the result, and every later call on the layer uses it. TLC finds
  this (`CompIsForThisCall`, ten steps, one thread after another) when `"sums"` is added to
  the failures of a type 2 setting with a source zero point. The comment at
  `aocl_kernel.cpp:1033-1040` asks for the order, `:1042-1050` lists two other ways to lose it. The
  call itself returns as if it had been compensated (`aocl_postop.cpp:955-966`).
* Version 1 of the tuner compares the count with the total for equality only
  (`auto_tuner.cpp:266`). Two overlapping calls that both read total - 1 carry it past, and the layer
  is evaluated for ever; a late first call writes the entry anew with a slower time. Neither
  `SettlesOnFastest` nor `SerialSettles` speaks of overlapping calls.
* When a full cache refuses a transposed FP32 weight the loopers read the caller's buffer as
  if it were not transposed (`fp32_brgemm_looper.cpp:296`, against `kernel_cache.hpp:136`).
* The recheck after an INT8 pack returns a peer's entry whatever its source quantisation
  (`kernel_cache.cpp:329`, against `kernel_cache.hpp:470`).

## 5. Proofs

### The latch
`WarmLatchProofs` proves, for any sets of threads, keys, contexts and latches and from the
one assumption `LatchAssumption` (the null latch is not a latch, there is a key):
`TypeCorrect`, `ThroughMeansWarmHolds`, `OneWarmerHolds`, `MapIsInFlightHolds`,
`SleeperHasWakerHolds`, and `ImplementsWarmOnceSafety`: initial states of the latch map to
initial states of `WarmOnce` and each step maps to a step or a stutter.

None of the four properties is inductive. That a sleeper has a waker, for instance, is kept
by `SignalNotifies` only if the notifier's latch is the sleeper's own and nobody else's,
and by a thread that goes to sleep only if a latch whose flag is down still has somebody
who will raise it. `LatchInv` therefore adds who holds a latch (`HoldersInside`), that the
owner's latch is the entry of its key (`OwnerHoldsEntry`), that a latch has one key and one
owner (`LatchIsPrivate`), that the flag implies the record (`DoneMeansRecorded`), and that a
waiter on a lowered flag has an owner (`WaiterHasOwner`). `Invariance` proves
`Spec => []LatchInv`; the refinement uses it to show that `SignalRecords` is `Complete`,
`WaitTests` on a raised flag is `Release`, and so on.

### The team of the executors that split by rows
`MTileProofs` proves, for any jobs that satisfy `JobsAreSound` — a job's slices and regions
partition the rows of its experts — and teams of any size: `TypeCorrect`, `RowsOnce`
(`EachRowOnce`), `FallbackIsClean` (`FallbackFindsNothingDone`), `InputsAreThere`
(`StepsReadTheirInput`) and `ImplementsPromise` (`KeepsPromiseSafety`, the refinement of
`GroupedCall` without its fairness).

None of these is inductive, because `done` says nothing of what is still to come. Call a place
of a region *pending* when its region is later, when its thread has not reached it, or when the
queue has not handed it out or its taker is still at it. Then

* pending work shares no row with what was multiplied (`PendingIsApart`), so a step
  cannot multiply a row twice;
* work of the running pass that is not pending was multiplied (`OthersAreDone`), so a pass is complete
  when the last region is joined;
* for the two to survive a shared counter, an entry of the queue is in one hand, every taken
  entry lies before the counter, and a thread of the pool leaves only past the end (`QueueInv`);
* in the pipeline nothing is written before every thread is past the barrier, the failure
  flag does not rise after it, and a slice is done by its own thread, Op1 first (`PipelineInv`);
* the second pass finds the first complete (`PassInv`).

`IInv` is their conjunction with the types; `InvInit` and `InvStep` are its two facts, the latter
from one lemma per conjunct. The refinement needs one more invariant (`InputsStay`) and that a step
completes at most one expert. `ImplementsPromise` assumes that no job is a fused call whose
first weight was refused: such a call breaks the promise (finding 5).

### The planners of the executors that split by rows
The second half of `MTileProofs` is about `MTilePlan`, hence about calls of any shape: any experts, rows and threads,
any tuning, plain or fused. `PlannedJobsAreSound` proves `JobsAreSound` of the jobs of such calls, whichever of
ALGO 1, 2, 4 and 5 their passes select; `PlannedRowsOnce`, `PlannedFallbackIsClean`, `PlannedInputsAreThere` and
`PlannedCallsKeepPromise` join it with the theorems of the team. The argument:

* *Teams fit.* `Teams` starts each expert with what it wants or its share, at least one thread, and the rest goes out by
  water filling, which stops at the budget (`WaterFills`). The shares rounded up to one may exceed the budget; the
  take-back brings them down to it, because as long as the sum is above the budget, and so above the number of
  experts, some expert has two (`PoorestIsRich`, `TakesBack`). So the teams add up to at most the budget and each expert
  keeps a thread (`TeamsAreMade`).
* *Slices partition.* Member k of n of a team has the rows from `M * k \div n` to `M * (k + 1) \div n`, and a slice may be
  empty (`EvenSplit`, `SliceIsLot`); the roll of `Members` lists each member of each team once (`TeamIsMembers`).
* *Everybody has a seat.* `Seat` looks through the CCDs from the expert's own around the ring, which meets them all
  (`RingMeetsAll`); fewer members than threads have been seated, so there is a free thread (`SeatTakesFree`,
  `SeatAllSeats`). In the two tiers the heavy members sit above the pool of the light experts (`HeavyIsLots`).
* *Regions cover.* For each executor every active expert's rows lie with one lane of one region (`SequentialCovers`,
  `MTileCovers`, `MultilevelCovers` with its batches of CCDs, `PerExpertCovers`), which is what `IsJob` and
  `RegionsPartition` ask (`PassIsPartition`, `CallIsSound`).

The hypotheses are those of the module: `CcdHasLanes`, `CallsAreRuns` (`IsCall`: there are an expert and a thread, rows
are natural numbers, the tuning variables have the ranges of their getters), `CallsSplitRows` (calls that select ALGO 3 are
`NTile`'s) and `SourceIsByRows`.

### The team of the N-tile executors
`NTileProofs` proves, for any schedules that satisfy `IsSchedule` (`SchedulesAreSound`) and teams of
any size: `TypeCorrect`, `ColumnsOnce` (`EachColumnOnce`), `ElementsOnceAfterProduct`
(`ActivatedOnceAfterProduct`) and `ImplementsPromise` (the refinement of `GroupedCall` without its
fairness). The hypothesis is not an assumption of the module: it is in the type invariant, and the run `n_tile`
finds it true of every plan of the instance and false of a planner that does not skip idle experts.

Neither property is inductive: what has been multiplied says nothing of where the threads are. `IInv` adds

* that what was multiplied and what was activated are items of the schedule, and that an item its thread has
  gone past was done unless an allocation failed (`TilesInv`, `PassInv`; with a fused epilogue `InTileInv`:
  the rectangles are those of the tiles). Items of a schedule are apart, so nothing is done twice; when every thread
  is done (`ReturnInv`) every item is past, so nothing is left out;
* `BarrierInv`: a thread past the barrier of a round finds every thread past the tiles of that round. It needs
  only the barrier in the middle of a round, whose ranks of places `ReachedMid` compares; the barrier at the end of
  a round is not needed for it. With the schedule's order of tiles and slices it makes the first conjunct of
  `ActivatedOnceAfterProduct` (`FoundProduct`) inductive.

The refinement needs that an activated expert is multiplied (`ActivatedIsProduct`), that a complete output stays so
(`OutputsStay`), and that a step changes the output of one expert (`OtherOutputs`).

### The planner of the N-tile executor
The second half of `NTileProofs` is about `NTilePlan`, hence about calls of any shape: any number of experts, threads, rows and
columns. `SplitHoldsEachColumn` and `SplitIsAligned` say what `aligned_n_split` gives for every width, team and
alignment: each column to one thread, slices that start on the alignment whenever one fits, and a last slice of at
least half of the others. `ExpertOrderKeepsExperts` says that every order of `fill_ntile_expert_order`, the balanced
spread with its running sum of rows included, lists each expert once, however many experts have equally many rows.

`PlannedSchedulesAreSound` proves `IsSchedule` — what the proof of the team assumes — of the schedule of every call,
whichever strategy `plan_group_n_tile` takes, whatever the tuning variables and in every order of the experts.
`PlannedColumnsOnce`, `PlannedElementsOnce` and `PlannedKeepsPromise` join it
with the theorems of the team; `PlannedTilesWarmed` and `PlannedTilesWhole` add the two properties of the plan itself.
The argument has four parts:

* *Seats.* A strategy gives each thread, for each round, at most one seat: an expert, the thread's number in the
  expert's team, and the size of that team. A schedule is sound if every active expert has one round in which
  the seats of its team are taken once each (`SeatsFit`, `SeatedSchedulesAreSound`): the tiles are then the slices of one
  `AlignedNSplit`, and the rows of the activation those of another, so both partition.
* *Each executor seats everybody.* Decode-D gives expert e the e-th group of threads (`DecodeDIsSeated`); the rounds
  give place p of the order the p-th group of its round (`RoundsAreSeated`); the dynamic executor deals the active
  experts to the CCDs and lets the threads of a CCD share each (`CcdsCoverThreads`, `DynamicIsSeated`).
* *Each plan fits its team.* The rounds must hold their experts: `batch * thr <= threads`, thr at least 1
  (`RoundsHold`). For the shared and the fixed number of threads of few experts, the strict-stable plan and the three
  round picks this follows from how the batch was capped (`StablePlanFits`, `FewExpertsPlanFits`, `RoundsPlanFits`);
  `DecodePlansFit` says it of the other two. In a round whose experts have threads each of their own (the tiers, the
  heavy budget, the proportional and the remainder split) a thread finds its seat by adding up the shares before it;
  lemmas about sums and about `FillUp`, which hands out the spare threads, give that the shares of a round add up
  to at most the team and that each is at least 1, hence that its seats are taken once each.
* *Tiles and blocks.* A tile is a slice that the split of at most `participating_n_thr` threads makes
  (`SeatsMakeSlices`), and those threads have `align` columns each (`ParticipantsHaveRoom`), so the split is the aligned one
  and its slices are whole blocks (`PlannedTilesAreWhole`). That prepack warmed them (`PlannedTilesAreWarmed`) holds because
  the plans that prepack predicts give an expert the same team in every call (`FixedTeams`, `StableThreads`). What a
  thread has multiplied is an item of its schedule (`MultipliedAreItems`), which takes both to the states of the team.

`PlannedTilesWhole` has a hypothesis of its own, `CallsFitBlocks`: the custom kernel and the pairs get whole
blocks (`prepare_for_call` refuses other widths), the backend's alignment is 1 or goes with the block, and neither of the widths
a tile is asked to have is narrower than the alignment. The built-in widths, 512 and 256, are wider; the decode width can
be set by `ZENDNNL_GRP_MATMUL_CUSTOM_KERNEL_N_TILE`, and below the alignment it makes tiles that cut blocks, which is why the
hypothesis is needed. `MCNTile` assumes it of its calls (`WidthsFit`), and TLC evaluates that.

The sequential strategy runs one expert after another with all its columns (`SequentialSchedulesAreSound`). The
assumptions: `CallsAreRuns` (`IsCall`: there is an expert and a thread, rows are natural numbers, columns positive, tuning
variables in the ranges their getters let through; and the call is not refused), `CcdHasLanes`, `CacheSize` (an L3 is not empty)
and `TileWidths`, which bounds the two tile widths.

### Mixed in place
`MixedInplaceProofs` proves, for any threads, weights, pools, layouts and environments,
`TypeCorrect` (from `MixedAssumption`) and, from the two hypotheses of `Sound`,
`GemmReadsLayout`, `OneLayoutMutates` (`OneMutator`), `PackedFirst` (`OverwrittenWhenPacked`) and
`RecordCovers` (`RecordCoversThePool`). `OneLayout` says that prompts make the layout decode reads:
run `mixed_layouts` shows what happens without it. `FailuresAreAskedFor` says that a CK pack fails
only where a warm-up prompt comes first and asks: a decode-first process does not ask, which is the
hazard at `prepack.cpp:1855`. TLC evaluates both on the instance of `mixed_inplace`.

The properties speak of weights and operands; why they hold is in where each caller is:

* in mixed mode (`MixedModeInv`) the flag is up with the type, every call goes by the latch under
  the key of its own pool, a warm that has come to a place has packed and reordered what lies
  before it, and so a recorded or served pool is covered;
* after the downgrade (`LateInv`) a caller that read the mode before it may still act on it: whoever
  can still overwrite (`OnPath`) has all its packs, a prompt GEMM that read type 2 finds its entry;
  a decode call that read it finds its pack;
* a pinned process (`PinnedInv`) never enters the mode and warms nothing;
* the mutex (`CopyInv`) keeps every other reorder out of a copy under way, and `WeightsInv`
  ties each cache entry to what the buffer holds;
* a GEMM on plain weights (`PlainIsSafe`) happens after the downgrade only, when no caller on the
  path has its weight in its pool, and nobody joins the path any more.

That shared state only grows (`SharedKept`: the type goes from 2 to 1, an entry, a record and a served
pool stay) is what lets the facts of the other threads survive a step (`OthersStay`).

### run_dlp
`RunDlpProofs` proves `TypeCorrect` for every setting and capacity, and four properties under hypotheses that
`RunDlp` states beside them, because outside them they are false:

| Theorem | Hypotheses | What breaks it otherwise |
|---|---|---|
| `NullEntriesTell` (`NullEntryMeansBlocked`) | `NothingIsEvicted` | run `run_dlp_eviction` |
| `GemmReadsPack` (`GemmReadsItsPack`) | and `OneInPlaceFailure` | the hazard at `aocl_kernel.cpp:567` |
| `BlocksAreOwned` (`EveryBlockIsOwned`) | `NothingIsEvicted`, `CacheableIsCached` | run `run_dlp_leak` |
| `CompIsOwn` (`CompIsForThisCall`) | `NothingIsEvicted`, `OneSourceZp`, `CompBeforeInPlace` | run `run_dlp_stale_zp`; sums that fail under in-place caching (section 4) |

`MCRunDlp` has TLC evaluate that the supported settings satisfy them. The invariants are layered. `WeightInv`
ties the caller's buffer to the cache's null entry and to the one caller inside the in-place reorder; `CallInv` says
what each caller has in hand at each place; `PackInv` and `CompInv` say what the heap block in
an entry, or in a hand, holds; `ReadsBuffer` says which operands are the caller's own buffer; `AllHeld` that
a block that is not free has a holder; `CleanInv` that sums are taken before an overwrite. Allocations may fail in
all four theorems: `OneInPlaceFailure` excludes that both of the in-place branch do, and `CompBeforeInPlace` that
the sums of an asymmetric source do under in-place caching. The lemmas about
`LruCache` (what touching and adding return, keep and evict) are proved first.

### The native weight caches
`NativeWeightCacheProofs` proves, from `NoneIsNone`, `MutableAreWeights` and `VersionsAreCounted`: `TypeCorrect`,
`OneHolder` (`EveryBlockHasOneHolder`), `EntriesStay` (the action property `EntriesAreStable`) for any models, and
`RecordsStayCurrent` (`TlRecordsAreCurrent`) and `GemmsReadOwn` (`ReadsOwnWeight`) for models that
satisfy `ModelsAreSound`: a GEMV weight has one layout, an FP32 weight is plain, and no two INT8 GEMVs
of one weight that disagree on the source quantisation overlap. The instance satisfies it; what the code does
outside it is in the findings and hazards. The invariant: a block is in one entry, or with one thread that has
yet to publish it, or free (`BlockInv`); an entry of a constant weight holds a pack of its present bytes
(`CacheInv`); concurrent callers are of one model (`CallerInv`); a thread-local pointer read under
the present generation is an entry (`RecordInv`); `GemmsRead` says it of the operand.

### The auto-tuner
`AutoTunerProofs` proves, from `SomeCandidates`, `AtLeastOneRound` and `IterationsAreCounts`: `TypeCorrect`;
`BestIsMeasured`, `SlotsAreTimed` and `PickRests` (`PickRestsOnEvaluation`) however calls overlap; and for a graph
that one thread runs `SettlesFastest` and `PickComparesLikeWithLike`. The last has the hypothesis `LayersAreDistinct`: a layer that the graph calls twice in a round
runs ahead of the others and a slot would sum two runs of it. The invariant behind it (`TurnInv`) says
that the counts of the layers differ by at most the one that the round has passed (`InRounds`), and `SlotInv` that a
layer has timed the slots below its count and below every count a call still holds; `RestInv` carries that from the
call that is past the evaluation to its pick.

### Only model-checked
Liveness (`CallsReturn`, `SerialSettles`, the fairness of `WarmOnce` and `GroupedCall`) is out of
the prover's reach. Every safety property of a passing run is stated by a theorem. The theorems that carry
hypotheses beyond the modules' assumptions name them. `GroupedProofs` holds the lemmas about totals, loops,
water filling, splits and batches that both planners need.

## 6. Not modelled, and the abstraction

Element values, sizes and strides (a weight either fits in place or does not), int8 and W4A8
warms (never in place), the sym-quant, WOQ and W4A8 caches of the AOCL backend (the shape of
cache type 1), logging, timing, the parsing of environment variables. Tuning variables are read once
per call. The gated activations and the MoE post-op are arithmetic within a row; which thread
runs the activation on which rows, and when, is modelled. Stores of one thread are seen in program order, as
on x86; the comment at `group_matmul_dispatch.cpp:1184-1194` discusses the weaker case. Loops
over experts are in any order where nothing depends on it. Allocation failure is modelled
where the code provides for it: it is not where `aligned_alloc` is used unchecked, as for the blocked
weights of cache types 0 and 1. The tuner's measured time is a `double` and the stored best a `float`
(`auto_tuner.cpp:175-176, 302-303`): the model compares exact times, so two within 2^-24 of each other
may be ordered differently in the code. An OpenMP team has the threads that were asked for: no executor
of the M-tile path compares `omp_get_num_threads()` with its plan.

Most of the repository's lines are kernels (AVX-512 intrinsics), their benchmarks, tests and
examples, and element conversions: arithmetic without a protocol, which these
specifications do not speak of. Each such component is listed in PROJECT.json with its reason.

## 7. Plan

What is left, most important first:

1. `LruCache` completed with `set_capacity` and `get_or_add`; `lru_cche_t`; the partitioners' ranges.
2. Prepacked weights in the calls of ALGO 3, and the caches of the quantised layouts of the AOCL backend.
