# MoEInfra in TLA+

MoEInfra runs a large mixture-of-experts model on a GPU too small to hold it.
Expert weights are kept quantized on the CPU; the experts a batch is routed to
are moved through pinned staging memory to the GPU, run, and released. The code
decides which experts are on which side, when their bytes are really there, and
when the memory they passed through may be used again. That is what these
modules are about. Tensor arithmetic, quantization and file formats are not.

Paths below are relative to the repository (`src/` in `PROJECT.json`).

## 1. The system

| component | state it keeps | operations | used by |
|---|---|---|---|
| Expert cache, `cache/manager.py` | `_gpu_cache`, `_cpu_cache` (dicts of `CacheEntry`), `_arc_gpu`, `_arc_cpu` (T1, T2, B1, B2, p), the slot counters of `CacheStats` | `get`, `put`, `evict`, `demote_to_cpu`; readers | MoE layer, scheduler, prefetch engine, inference engine |
| Pinned staging slots, `transfer/reusable_staging.py`, `transfer/pinned_memory.py` | `_slots` (in_use, ready_event, tensors), `used_bytes` | `acquire`, `stage_expert`, `mark_transfer_complete`, `release`, `destroy` | scheduler |
| Transfer scheduler, `transfer/scheduler.py` | `_queue` and its heap, `_async_in_flight`, the transfer stream | `submit`, `execute_next`, `drain`, `cancel`, `submit_async`, `poll_async` | MoE layer, prefetch engine |
| MoE layer, `model/moe_layer.py` | the locals of a forward pass: `unique_expert_ids`, `was_gpu_resident`, `gpu_experts` | `_forward_tokens`, `_ensure_expert_on_gpu` | inference engine |
| Prefetch engine, `engine/prefetch.py` | `_in_flight`: expert to request id | `schedule_prefetch`, `cancel_stale`, `on_layer_complete` | tests |
| Inference engine, `engine/engine.py` | `_runtime_initialized`, `_decoder_layers`, `_kv_cache`, `_attention_mask` | `_initialize_runtime`, `generate`, `_prefill`, `_decode` | callers |
| Model loader, `model/loader.py` | whether the checkpoint is indexed, preloaded experts | `load`, `set_preloaded_cpu_experts`, `load_expert` and the loads of the fixed weights | MoE layer, inference engine |
| Metrics, `metrics/` | collector: accumulators and their lock; reporter: thread and stop event | `record_*`, `reset`, `snapshot`; `start`, `stop` | callers, reporter |
| Bandwidth monitor, `transfer/bandwidth.py` | a sliding window of samples | `record`, `average` | scheduler |
| Single-use staging, `transfer/staging.py`, `staging_pool.py`, `expert_staging.py` | buffers and their budget | acquire, copy, release | tests, benchmarks |

One host thread calls everything but the metrics. There, concurrency comes from
the device: the copies of a transfer are enqueued on a CUDA stream and read the
pinned slot later, while the host goes on. The cache's documentation asks for
single-threaded calls (`cache/manager.py:125`), so each public call of the
cache or the scheduler is one step, with device steps between any two. The
metrics are for several threads (`metrics/collector.py:20`), one of them the
reporter's own: a call of the collector is as many steps as it has reads and
writes.

What is hard, and which properties are about it:

* *Bookkeeping that drifts.* A tier's dict, its ARC lists and the slot counters
  are changed by different branches of different calls
  (`TypeOK`, `SlotStatsExact`, `WithinSlots`, `ImplementsStore`).
* *A victim chosen by the past.* Recency and frequency are updated by hits,
  refreshes and insertions, and matter many calls later
  (`HoldsMostRecent`, `HotterSurvives`).
* *The host runs ahead of the device.* Bytes are published on the word of an
  event; a slot is handed out again while the device may still read it
  (`PublishedContent`, `LandedMeansComplete`, `SlotNotReusedInFlight`,
  `ReleasedSlotsReturn`).
* *Many ways out.* A transfer can fail at every step, be cancelled, or be
  refused; its slot must come back once and its result count once
  (`SlotsOwned`, `WithinLimits`, `ImplementsLifecycle`).
* *A pass that changes shared state and must put it back*
  (`ResidencyRestored`, `LayerServed`, `TurnEnds`).
* *Prefetches made for a future that passed*
  (`NoStalePrefetch`, `PrefetchNeverHinders`).
* *A build that raises midway and is retried* (`InitializedComplete`,
  `StackBuiltOnce`, `DoubledStackRefuses`).
* *Lengths that move together*: the prompt, the mask, the positions and what
  each layer's key/value cache holds, over prefill, decoding and requests that
  end with an exception (`ContextAligned`, `TokensAccounted`, `CallEnds`).
* *A slot that remembers*: the first expert staged into a slot fixes the format
  of all that follow (`UniformStoreServes`).
* *Threads around one set of accumulators* (`NothingLost`,
  `SnapshotConsistent`), *and a thread whose end nobody may see*
  (`OneReporter`, `KeepsReporting`, `StopEnds`).

`PROJECT.json` lists each hazard at its line under `hazards`, with those no
property covers yet and the reason.

## 2. The modules

```
Experts ── ArcState ── CacheOps ── CacheManager ── CacheHistory ── MC_Cache
                          │             └── MC_Arc  (⊑ TwoTierStore)
CudaStream ── StagingPool │
                   └──────┴─ TransferScheduler ── MC_Transfer
                                  │    (⊑ TransferLifecycle)
                               MoELayer
                                  │
                             PrefetchEngine ── MC_Prefetch

ModelLoader ── InferenceEngine ── MC_Engine
MetricsCollector ── MetricsReporter ── MC_Metrics
```

The proofs follow the same lines, each module beside the one it is about:

```
ArcStateProofs ── CacheOpsProofs ── CacheManagerProofs ── CacheHistoryProofs
                        └── TransferSchedulerProofs ── PrefetchEngineProofs
InferenceEngineProofs
MetricsProofs
```

A component that others call within one of their steps is written as operators
from record to record, so that a caller composes several calls in one action as
the code does in one method; the state machine of the component itself is a
module on top of them.

* `Experts`: the expert identifiers (`Keys`) and a value that is none (`NoKey`).
* `ArcState`: `_ArcState` of `cache/manager.py`, as operators on
  `[t1, t2, b1, b2, p]`. The lists are sequences from LRU to MRU.
* `CacheOps`: a cache is `[gpu, cpu, used]`; a tier is `[order, count, arc]`,
  where `order` lists the resident experts by `last_access` (which is
  `time.monotonic()`, taken to be strictly increasing), `count` is
  `access_count` (kept under LFU only, the one policy that reads it) and `arc`
  the tier's lists. `Get`, `Put`, `Evict` and `Demote` are the four methods,
  `Victim` the choice of `evict`. ARC hooks sit where the code has them: `get`
  calls `on_hit` for the tier that answers and `on_miss` on `_arc_cpu` alone,
  `put` none. Counters are refreshed under the code's own device test
  (`StatsTier`), narrower than the one that chooses the tier (`TierOf`).
* `CacheManager`: the four calls as actions, in any order.
* `CacheHistory`: the same, with a record of the uses kept from the calls alone
  (`recent`, `uses`), against which the choice of victims is judged.
* `TwoTierStore`: what a two-level cache promises whatever its policy.
* `CudaStream`: the items not yet done by the device: copies (which read the
  slot when done, not when enqueued) and events. External: PyTorch and CUDA.
* `StagingPool`: slots and budget, as operators on `[used_bytes, slots]`. A
  slot's content is, part by part, the expert it was last copied from.
* `TransferScheduler`: composes cache, pool and stream. `published[k]` and
  `buffers[k]` say, part by part, whose bytes are in the expert's GPU copy and
  in the device buffers of its transfer. `execute_next` is one action with the
  failure of each of its stages: it blocks the host, and waits for the stream.
  `submit_async`, `cancel` and `poll_async` are actions of their own. `drain`
  is `ExecuteNext` repeated. The heap and `_queue` hold the same requests, in
  submission order, which is the order of `issued_at`.
* `TransferLifecycle`: what an asynchronous transfer promises its caller. The
  device brings an expert's bytes when it will (`Arrives`), and a transfer,
  cancelled or not, ends (`Ends`) only after all of them are there. Its end
  makes its expert resident (`Finish`) or moves none (`Discard`, as when the
  reconstruction fails), and moves none if it was cancelled. `arrived` is mapped to the transfers whose
  buffers hold every part (`Complete`): to the bytes, and not to the event that
  `poll_async` takes for them.
* `MoELayer`: a forward pass as a program counter (`fwd.phase`) over scheduler
  and cache actions. Between two of its calls the device may go on; between
  two passes the same thread may prefetch and poll. Each exit (a load, a
  refused request, a failed transfer, a failed computation) goes through the
  `finally` clause, `Finally`.
* `PrefetchEngine`: the layers in turn, each with its pass (`BeginPass` and the
  steps of `MoELayer`) and then `on_layer_complete`: first the cancellations,
  then one submission at a time. `Depth` is 0, 1 or the lookahead, for the
  three policies. This is the composition of all the components so far, and
  the one that is run.
* `ModelLoader`: where `load_expert` finds an expert (a preloaded one, the
  first store that has its file, or the checkpoint when there is no store at
  all), in which format, and whether a staging slot takes it. A format stands
  for the tensors a file has and their types.
* `InferenceEngine`: one call as a program counter (`at.do`). The build assigns
  its modules one after the other and may raise at each, after the assignment
  (a constructor that raises before it leaves no more behind than that, and is
  not a case of its own); `generate` builds if
  nobody has, then prefills and decodes. A tensor is its length: `kv` is what
  the cache holds per `layer_idx`, `mask` the columns of the attention mask,
  `at.columns` those of the causal mask, made once per pass from what layer 0
  holds. An expert of a pass is loaded, staged into the one slot synchronous
  transfers use, and run, or raises; what happens to it in between is
  `MoELayer`'s and `TransferScheduler`'s matter. `Raise` is an exception that
  reaches the caller and leaves all state as it is: nothing in the code
  undoes what a failed call did.
* `MetricsCollector`: a call is the sequence of its updates, made one after the
  other between taking and releasing the lock; `+=` is a read (`Load`) and a
  write (`Store`). `exact` is auxiliary: the accumulators if every call had
  been one step.
* `MetricsReporter`: the owner's `start` and `stop`, each in the steps between
  which the thread may run, and the thread's loop. Time is left out: a wait
  can time out whenever it may, and so can the join, if the thread is in its
  report.

`PROJECT.json`, under `map`, gives the lines of code each definition stands for.

## 3. What is checked

Deadlock is checked in every run: nothing in these components waits for ever.
Five runs are refutations: the property they check is what a comment of the code
says, and TLC finds a behaviour of the code that breaks it.

| run | instance | shows |
|---|---|---|
| `cache_lru` | 4 experts, 2 GPU and 3 CPU slots | types, `WithinSlots`, `SlotStatsExact`, `HoldsMostRecent`, and `ImplementsStore`: every call is a step of `TwoTierStore` |
| `cache_lfu` | 3 experts, 2 and 2 slots, 3 accesses | `WithinSlots`, `ImplementsStore`, `HotterSurvives`: what is evicted was used no more often, nor as often and later, than what stays |
| `cache_arc` | 3 experts, 1 and 1 slots, lists of 2 | the weaker promises that hold although the ARC lists and the dict drift apart |
| `cache_arc_overflow` | as above | refutes `WithinSlots` for ARC |
| `transfer` | 2 experts, 1 and 1 tier slots, 2 staging slots, 2 queued requests, failures of staging and reconstruction | everything the scheduler promises, and `ReleasedSlotsReturn`: a released slot becomes available again |
| `transfer_slot_reuse` | as above, 2 CPU slots, also failures in the middle of enqueueing | refutes `SlotNotReusedInFlight` for them |
| `transfer_backing` | 2 experts, 1 and 1 tier slots | refutes `CpuBackingRemains` |
| `prefetch` | 3 layers of 1, 2 and 1 experts, 2 and 3 tier slots, 2 staging slots, lookahead 2, every failure | the composition: no byte or slot goes astray (`PublishedContent`, `SlotsOwned`, `WithinLimits`, `ImplementsLifecycle`), a pass executes its own requests and restores the residency it found (`LayerServed`, `ResidencyRestored`), no prefetch and no mark of one outlives its layer (`NoStalePrefetch`), and a turn ends (`TurnEnds`) |
| `prefetch_blocks_layer` | as above, lookahead 1, no failures | refutes `PrefetchNeverHinders` |
| `engine` | 2 layers of 2 experts, stores in one and in several formats, failures of the build and of experts | `InitializedComplete`, `ContextAligned`, `TokensAccounted`, `DoubledStackRefuses`, `UniformStoreServes`, `CallEnds` |
| `engine_init_retry` | as above | refutes `StackBuiltOnce` |
| `metrics` | 2 threads that record, reset and read, a reporter with 2 threads to run on, 3 shapes of call | `NothingLost`, `SnapshotConsistent`, `OneReporter`, `KeepsReporting`, `StopEnds` |

### Bounds

* *Experts and slots.* More experts than slots in the tier under test, so that
  insertions evict; a tier of one slot and one of several, so that "the victim
  is the only entry" and "a choice among entries" both occur. Under LRU one
  more expert than the larger tier has slots lets both tiers be full at once
  with something else to ask for.
* `MaxAccess` (LFU) and `MaxArcList` (ARC) bound what the program leaves
  unbounded: access counts, and the lengths of the ARC lists (which the code
  trims only when it chooses a victim). A call that would exceed them is not
  explored. Three accesses separate "more often" from "as often"; lists of two
  are enough for a ghost hit beside a live entry.
* `BudgetBytes` 5 with `SlotBytes` 2 gives two slots and a remainder, so that
  the comparison in `reserve` is at its boundary. Two slots let one be reused
  while the other is in flight. They also limit the transfers to two, so the
  `max_concurrent` part of `WithinLimits` cannot fail in these instances (with
  a third slot `prefetch` is too large to explore); theorem `Limits` covers it.
* `Parts` 2 lets an expert be half copied, the smallest number that tells a
  partial transfer from a whole one.
* `MaxQueue` bounds the queue: 2, so that requests of different priorities, and
  for the same expert, meet in it. The layer keeps at most one request queued
  and never reaches it.
* `MaxStream` bounds the items the device has not reached.
* `Failures` names the stages that may raise in a run: `load` (the model
  loader), `stage` (the host copy), `transfer` (enqueueing, after any number
  of copies), `reconstruct`, `compute` (an expert's forward).
* `Depth` 2 over three layers gives prefetches that become stale while the
  engine still looks ahead, and some for layers beyond the last. The layer in
  the middle has two experts, so that a pass has an expert to fail on after it
  has transferred another.
  In this instance a prefetch is cancelled only after a synchronous transfer of
  the same layer has waited for the stream, so with its bytes there; the
  cancellation of copies still to be made is what `transfer` explores.
* `NumLayers` 2 is enough for layers of a pass to differ in what they hold;
  `MaxStack` 2 lets a build begin on one left whole or in part, and so reach
  a stack of layers twice over. Prompts of 0, 1 and 2 tokens and 0 to 3 new
  ones cover the refusals, the mask of one column, which broadcasts, and more
  than one decoding step. Stores: none, one of each format, and two of which
  the first has nothing or an expert in some format; preloaded: none, or
  experts of either format that can be staged.
* `MaxCount` 2 lets two calls increase the same accumulator, one of them
  overtaken by the other if the lock allowed it. The reporter has two threads
  to run on, so that one a stop has not seen end could meet the next.

### Fairness

* `WF(DeviceStep)`: a CUDA stream with work makes progress. It is the only
  fairness of the scheduler: nothing in the program polls regularly, so no
  call of `poll_async` is assumed. `ReleasedSlotsReturn` needs no more.
* `WF(TurnStep)`, in `PrefetchEngine`: the host thread, in a layer's turn (its
  pass and its prefetches), does not stop. `TurnEnds` needs it. Nothing is
  assumed of what happens between turns, nor of `poll_async`.
* `WF(Proceed)`, in `InferenceEngine`: the host thread, in a call, does not
  stop. `CallEnds` needs it; nobody is assumed to call.
* `MetricsReporter`: each thread in a section goes on (`WF(InSection)`), and so
  does the loop after its report or once it has seen the event
  (`WF(Reported or Ends)`). `StopEnds` also needs `SF(Acquire)` for the
  reporter's threads: one that waits for the lock gets it although others keep
  taking it. `threading.Lock` promises no order, so this is an assumption about
  the platform's mutex; what it rules out is a thread that others overtake for
  ever. The owner is under no fairness.

### Disagreements found

1. **ARC outgrows its slots** (`cache_arc_overflow`, `cache/manager.py:300`).
   The lists of the GPU tier are filled by no call, so a full tier offers no
   victim, and `put` inserts all the same.
2. **A slot reused under its copies** (`transfer_slot_reuse`,
   `transfer/scheduler.py:448`). When enqueueing raises after some copies, the
   slot is released with neither an event nor a synchronisation.
   `prefetch`, which has the failure too, shows that no expert is published
   with wrong bytes for it: the copies of the failed transfer go to buffers
   nobody reads.
3. **The CPU copy is not always there** (`transfer_backing`,
   `cache/manager.py:300`). Loading another expert evicts the backing copy of
   one that is on the GPU, against two comments of the cache.
4. **A prefetch makes its layer fail** (`prefetch_blocks_layer`,
   `model/moe_layer.py:89`). While it is in flight, the layer's own request is
   a duplicate, and the layer raises. Today nothing calls `on_layer_complete`
   outside the tests; this is what happens when something does.
5. **A retried build doubles the stack** (`engine_init_retry`,
   `engine/engine.py:307`). The build appends its layers to what an earlier one
   left. `DoubledStackRefuses` shows what follows: any prompt of more than one
   token raises from then on, since the second copy of a layer finds more keys
   than its causal mask has columns; a prompt of one token gets an answer from
   a model that has layers twice.

Differences that were met and are not stated as properties:

* A pass holds all the experts it was routed to, also those the GPU tier
  evicted meanwhile (`model/moe_layer.py:167`), where `README.md:29` speaks of
  at most two at a time.
* `start()` after a `stop()` whose join timed out reports "already running" and
  starts nothing; the old thread then ends (`metrics/reporter.py:56`).
  `KeepsReporting` states what holds when `start()` did start a thread.
* With no expert store, an expert comes from the checkpoint as a module, which
  has no serialized state and cannot be staged (`reusable_staging.py:146`): such
  an engine serves nothing.
* A staging slot keeps the format of the first expert for good, so an engine
  over stores in both formats serves the one that came first.
  `UniformStoreServes` states what holds for stores of one format.
* ARC's ghost lists can exceed their cap between choices of a victim; a caller
  that names the GPU tier `"gpu"` leaves `gpu_slots_used` stale (all callers say
  `"cuda"`); a tie in priority and issue time makes the heap compare requests,
  which raises.

## 4. What is proved

Each safety invariant, each action property and both refinements that a passing
run checks are theorems, for every value of the constants: any experts, slots,
policy, pool, queue, lookahead, layers, requests, stores, threads and failures,
unless a premise is stated. Bounds of the exploration (`MaxAccess`, `MaxQueue`
and the like) are constants like the others, so that a theorem holds for each
bound.

| module | theorem | statement |
|---|---|---|
| `CacheManagerProofs` | `TypeCorrect` | `Spec => []TypeOK` |
| | `SlotStats` | `"gpu" \notin UsedDevices => (Spec => []SlotStatsExact)` |
| | `Capacity` | `Policy # "arc" => (Spec => []WithinSlots)` |
| | `StoreImplemented` | `Spec => ImplementsStore` |
| `CacheHistoryProofs` | `KeepsMostRecent` | `Policy = "lru" => (HSpec => []HoldsMostRecent)` |
| | `KeepsTheHotter` | `Policy = "lfu" => (HSpec => HotterSurvives)` |
| `TransferSchedulerProofs` | `TypeCorrect` | `Spec => []TypeOK` |
| | `PublishedOwnWeights` | `Spec => []PublishedContent` |
| | `CompleteWhenLanded` | `Spec => []LandedMeansComplete` |
| | `OneSlotEach` | `Spec => []SlotsOwned` |
| | `Limits` | `Spec => []WithinLimits` |
| | `ReuseNeverHurtsTransfers` | `Spec => []ReuseSparesTransfers` |
| | `NoReuseInFlight` | `"transfer" \notin Failures => (Spec => []SlotNotReusedInFlight)` |
| | `LifecycleImplemented` | `Spec => ImplementsLifecycle` |
| `PrefetchEngineProofs` | `LoopKeepsContent` | `PSpec => [](PublishedContent /\ SlotsOwned /\ WithinLimits)` |
| | `LoopLifecycle` | `PSpec => ImplementsLifecycle` |
| | `PrefetchesTracked` | `PSpec => []NoStalePrefetch` |
| | `PassRestoresResidency` | `IsFiniteSet(Keys) => (PSpec => []ResidencyRestored)` |
| | `LayersServed` | `SlotBytes <= BudgetBytes => (PSpec => []LayerServed)` |
| `InferenceEngineProofs` | `RuntimeComplete` | `ESpec => []InitializedComplete` |
| | `ContextStaysAligned` | `ESpec => []ContextAligned` |
| | `TokensAreAccounted` | `ESpec => []TokensAccounted` |
| | `UniformStoresServe` | `ESpec => []UniformStoreServes` |
| | `LongStacksRefuse` | `ESpec => []DoubledStackRefuses` |
| `MetricsProofs` | `NothingIsLost` | `RSpec => []NothingLost` |
| | `SnapshotsAreConsistent` | `RSpec => []SnapshotConsistent` |
| | `OneReports` | `RSpec => []OneReporter` |
| | `StartedReports` | `RSpec => []KeepsReporting` |

The assumptions are those the modules name: slots are naturals, the policy is one
of the three, `NoKey` is no expert; the model has a layer and an expert, a
prompt has a length, preloaded experts were deserialized; `Free` is no thread,
`NoValue` no number, a call touches a field at most once.

*From the callers.* `InferenceEngine.PreloadExperts` has the guard
`~initialized`, which `set_preloaded_cpu_experts` itself has not: its docstring
speaks of experts "prepared before inference" and its only caller under `src/`
calls it then. `UniformStoreServes`, its run and `UniformStoresServe` rest on
that; experts preloaded later, in another format, would break it.

*The premises.* `SlotStats`, `Capacity` and `NoReuseInFlight` are false without
theirs: the alias `"gpu"` above, finding 1 and finding 2. `KeepsMostRecent` and
`KeepsTheHotter` say what their policies are for. `Keys` is finite in every
model, which has finitely many experts; without it "there was room for all"
would compare the slots with the size of an infinite set. A budget of less than
one slot serves no layer, and the first request says so
(`reusable_staging.py`, `acquire`).

### The cache

`CacheOK` is the record form of `TypeOK`: the types, and that a tier lists no
expert twice. That second part makes it inductive, since removing an expert by
its position (`list.remove`) only removes it altogether if it occurs once. Each
operator of `ArcState` and `CacheOps` has a lemma that it preserves its part,
and a call is their composition (`PutRefresh`, `PutInsert`, `EvictVictim`,
`DemoteResident`, `GetOK`). `TierReplaced` says once what it takes to replace one
tier of a good cache.

`SlotStats` adds `CountersExact`: each counter is its tier's length. It needs
that a call refreshes the counter of the one tier it changes, so the device
must map to the same tier under both of the code's tests.

`Capacity` adds `Fits`. A tier of at least one slot stays within its slots if
a full one always yields a victim that is resident. For LRU that is the head of
`order`. For LFU it is the expert no other is colder than: that one exists
because the experts colder than a given one form a strictly smaller set when
one goes from an expert to a colder one, and a finite set has no endless
descent (`LfuVictimColdest`). `EvictedSmaller` and `RoomForOne` carry it
through `MadeRoom` to `Put`.

`StoreImplemented` needs no further invariant: the mapped state is the set of
experts a tier holds (`Held`), and the lemmas `GetHeld`, `PutHeld`, `DemoteHeld`
and `EvictHeld` say what each call does to it. As a tier repeats no expert, the
size of the set is the length of the list (`HeldResident`), which is what the
code compares with the slots.

The history adds one description of what any call does to a tier and its past
(`TierStep`: nothing, an eviction, a use, or a use forgotten), from which both
theorems follow tier by tier. Under LRU, `HoldsMostRecent` is inductive by
itself, given that the list of uses repeats no one (`RecentOK`): taking an
expert out of a list and out of its suffix leaves a suffix, and so does
dropping the head (`SuffixWithout`, `SuffixTail`). Under LFU the entries are no
suffix, but they are in the order of their latest uses (`UseOrder`), and their
counts are their uses since they entered (`UsesCounted`); `HotterSurvives`
follows from both and from what the victim is (`LfuVictimColdest`).

### The scheduler

No property of the scheduler is inductive alone: that published bytes are right
depends on what a landed transfer's buffers hold, that on which copies are
still to come, and that on who has which slot. `TransferInv` has a part for
each:

* `ContentOK`: a good cache, and published bytes that are those of the experts
  on the GPU and of no others.
* `SlotsHeld`: a slot is in use exactly if an outstanding transfer has it, and
  no two transfers have the same. `Claims` and `Borrows` say what the pool's
  operations do to that: an asynchronous transfer claims one slot, a
  synchronous one gives back what it borrowed, with every failure in between.
* `CopiesTracked`: a copy on the stream for an outstanding transfer reads that
  transfer's slot, and the events that slot and transfer wait for are behind it.
  So once `Landed` is gone from the stream, no copy of the transfer is left.
* `Arriving`: each part of an outstanding transfer is in its buffer, or a copy
  that brings it is on the stream and its slot holds it.
  With the previous part this gives `LandedMeansComplete`.

`CopiesTracked` says nothing of copies whose transfer failed while it was being
enqueued. They may read a slot that is handed out again, and so may bring
anything; they go to buffers nobody reads. That is why `PublishedContent` holds
with every failure while `SlotNotReusedInFlight` does not, and
`ReuseSparesTransfers` states what is left of it: a reusable slot is never read
for a transfer that is still outstanding. Without failures of that kind there
are no such copies (`NoStrayCopies`).

A device step makes the copy at the head of the stream: `Arriving` turns from
"on its way" to "there" for one part. A poll publishes a buffer that is
complete and takes the expert into the cache, which may evict another, whose
published bytes go with it.

For the life cycle, `LifecycleStep` is shown action by action. What has arrived
stays: a device step makes a buffer complete or leaves it (`DeviceCompletes`),
a synchronisation makes all of them complete (`SynchronizedCompletes`), and a
transfer that starts has nothing in its buffers yet (`StartedIncomplete`). That
a transfer which ends has all its bytes is `EndedComplete`: its event has gone
from the stream, no copy of it can be left before it, and so by `Arriving` every
part is there.

### The inference loop

Each step of `MoELayer` and `PrefetchEngine` is, for the scheduler, one of its
own, a lookup, a demotion, or a refused prefetch (`HostStep`, `LoopIsHost`).
Hence `TransferInv` and the life cycle carry over (`HostKeeps`,
`HostLifecycle`), and `LoopInv` adds only what the pass and the callback are
about:

* `PassOK`: where the pass is; the experts it keeps are those that were there
  before it.
* `OwnRequest` and `Asking`: the queue is empty but for the pass's own request,
  whose expert is in the CPU tier and not on the GPU. Prefetches never enter
  the queue, and no eviction can come between a lookup and the request.
* `ResidencyOK`: on the GPU are the experts from before and those the pass
  brought; what it brought is still on its list when it gives them back; and
  those from before are all there if all it needed fits the tier, since then
  no insertion finds it full.
* `TrackingOK`: every transfer in flight is in `_in_flight`; while a callback
  cancels, what is marked there for layers passed is still on its list, in
  flight or not, and when the next layer runs nothing of it is left.

### The engine

`IInv` says what holds at each place of a call. `Built`: the parts assigned and
the layers appended so far; `BuildLayerInv` is the step that appends one,
whatever an earlier build left below it. `Aligned`: in a pass, the layers before
the one at hand hold a key for every column of the mask, the others all but the
new ones (`Held`), and the mask's length is that of the prompt and the tokens out
(`MaskInPass`, `MaskAfter`). The latter holds for a stack built in one go.
`SlotFormat`: the slot has a format that is around, since an expert was staged
into it only after the build, when nothing can be preloaded any more.
`RaiseInv` deals with every exception at once: it leaves the thread idle, where
`IInv` asks for nothing a failed call could have broken. `LeastPlace`, which
the order of the stores needs, is the well-foundedness of finite sets again.

For a stack that failed builds have lengthened, `StackInv` says what matters:
every build begins with layer 0, so the stack begins with it, and so does its
last copy of the model (`SecondFirstLayer`). From the first layer 0 on, the
cache holds for it at least as many keys as the causal mask has columns; at the
second it would get more, and the layer refuses unless there is one column, as
in the pass of a prompt of one token (`StackAttendTo`). A decoding pass has at
least two. No counting of visits is needed.

### The metrics

`NothingLost` says nothing of a section in progress, so it is not inductive.
`CInv` adds what holds there (`Midway`): the fields are the exact ones with the
updates made so far (`Applied`), and a value that was read is still the exact
one. Only the thread that holds the lock is in its section, so another thread's
steps leave this alone (`StepInSection`). `AppliedNext` is the lemma that one
`Store` makes one update more; it needs that no two updates of a call are of one
field. When the section ends, all of them are made (`LeaveInv`). A snapshot
makes no updates, so what it reads is exact (`ReaderFields`). `OwnerInv` adds to
`OneReporter` and `KeepsReporting` what `start` relies on between clearing the
event and creating the thread (`Starting`).

### Only model-checked

Liveness (`ReleasedSlotsReturn`, `TurnEnds`, `CallEnds`, `StopEnds`) is beyond
the prover, which has no rule for fairness or ENABLED. The five refuted
properties are not theorems, of course; each is refuted by one behaviour of a
small instance. The modules use no RECURSIVE operator and no induction over
data, which the prover could not follow either: where an argument needs a least
or a greatest element it takes the well-foundedness of finite sets.

## 5. What is not modelled

* **Bandwidth monitor**: no decision depends on it.
* **Single-use staging pools** (`staging.py`, `staging_pool.py`,
  `expert_staging.py`): earlier variants that tests and benchmarks alone use; no
  component of the engine reaches them.
* **Configuration, logging, benchmarks**: input and output, no state to check.
* **NF4 reconstruction, expert algebra, routing, attention**: data, not control.
  Where they can fail, the failure is a branch (`reconstruct`, `compute`,
  `expert`). Of attention the model keeps the lengths it compares, as the
  eager implementation, the default of the model's configuration, does;
  routing is an arbitrary choice of experts.
* **File access of the model loader**: the fixed weights are loads that succeed
  or raise; an expert's file is its format.
* `destroy` of the staging slots (called by tests alone), the hit, miss and
  eviction counters, sizes in bytes of individual experts, timing and logging.
* The size of a staged expert is not compared with its slot's, in the code as
  in the model; the budget counts slots.

## 6. Plan

Done, in this order: cache (operators, machine, history, abstract store),
staging slots and stream, scheduler with its abstract life cycle, MoE layer,
prefetch engine; the proofs of the cache; model loader and inference engine,
and its proofs; metrics and their proofs; the proofs of the cache's refinement
and history, of the scheduler, of the inference loop, and of what a doubled
stack refuses.

What is left to model is what section 5 lists, none of which decides anything
in a running engine.

Next, to prove:

1. Under ARC, what bounds the tiers that outgrow their slots: which sequences of
   calls let the CPU tier do so, given that its lists are fed by misses.
2. The cache's promises in the composition: that the tiers of the inference loop
   stay within their slots under LRU and LFU, from `CallsFit` and `HostStep`.
3. The steps towards liveness that need no fairness: a variant for a turn and
   for a call that every step decreases.
