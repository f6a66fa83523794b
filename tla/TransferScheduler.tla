-------------------------- MODULE TransferScheduler --------------------------
(***************************************************************************)
(* transfer/scheduler.py's TransferScheduler with the three objects it     *)
(* drives: the expert cache, the pool of pinned staging slots and the CUDA *)
(* transfer stream.  The scheduler runs on the caller's thread, so a call  *)
(* is one step; the device works through the stream in between, in steps   *)
(* of its own.                                                             *)
(*                                                                         *)
(* Requests carry no id: submit() keeps the queued (expert, direction)     *)
(* pairs distinct, so the pair names the request.  The heap and the list   *)
(* _queue always hold the same requests; queue is that list, in the order  *)
(* of submission, which is the order of issued_at.  _in_flight is empty    *)
(* between calls.  The bandwidth monitor is left out.                      *)
(***************************************************************************)
EXTENDS CacheOps, StagingPool

CONSTANTS
    MaxConcurrent,  \* max_concurrent
    Failures,       \* the calls that may raise
    MaxQueue,       \* bound of the exploration: queued requests
    MaxStream       \* bound of the exploration: items on the stream

ASSUME SchedulerAssumption ==
    /\ MaxConcurrent \in Nat \ {0}
    /\ Failures \subseteq {"load", "stage", "transfer", "reconstruct", "compute"}
    /\ MaxQueue \in Nat /\ MaxStream \in Nat

VARIABLES
    cache,      \* the CacheManager
    published,  \* the bytes of the GPU copy of each GPU-resident expert
    pool,       \* the ReusablePinnedStagingPool
    stream,     \* the transfer stream
    queue,      \* the requests waiting for execute_next()
    handles,    \* _async_in_flight: a transfer's status and slot, by expert
    buffers     \* the gpu_state of each asynchronous transfer

vars == <<cache, published, pool, stream, queue, handles, buffers>>

Requests ==
    [key : Keys, direction : {"cpu_to_gpu", "gpu_to_cpu"}, priority : 0..2]

NoHandle == [status |-> "none", slot |-> NoSlot]

Init ==
    /\ cache = InitCache
    /\ published = [k \in Keys |-> Blank]
    /\ pool = InitPool
    /\ stream = <<>>
    /\ queue = <<>>
    /\ handles = [k \in Keys |-> NoHandle]
    /\ buffers = [k \in Keys |-> Blank]

Active == {k \in Keys : handles[k].status # "none"}

\* An expert that leaves the GPU tier takes its bytes with it.
Keeps(bytes) ==
    published' = [j \in Keys |-> IF Resident(cache', "gpu", j) THEN bytes[j] ELSE Blank]

Publish(k, bytes) ==
    /\ cache' = Put(cache, k, "cuda")
    /\ Keeps([published EXCEPT ![k] = bytes])

(***************************************************************************)
(* The caller's own use of the cache: a lookup that hits, and the load of  *)
(* an expert that is in neither tier into the CPU tier.                    *)
(***************************************************************************)
Lookup(k) ==
    /\ Resident(cache, "gpu", k) \/ Resident(cache, "cpu", k)
    /\ cache' = Get(cache, k)
    /\ UNCHANGED <<published, pool, stream, queue, handles, buffers>>

LoadExpert(k) ==
    /\ ~Resident(cache, "gpu", k) /\ ~Resident(cache, "cpu", k)
    /\ cache' = Put(Get(cache, k), k, "cpu")
    /\ UNCHANGED <<published, pool, stream, queue, handles, buffers>>

(***************************************************************************)
(* The queue of synchronous requests.                                      *)
(***************************************************************************)
SameTransfer(r, s) == r.key = s.key /\ r.direction = s.direction

IsDuplicate(r) ==
    \/ \E i \in DOMAIN queue : SameTransfer(queue[i], r)
    \/ r.key \in Active

Submit(r) ==
    /\ Len(queue) < MaxQueue
    /\ ~IsDuplicate(r)
    /\ queue' = Append(queue, r)
    /\ UNCHANGED <<cache, published, pool, stream, handles, buffers>>

\* The position of the request with the least (priority, issued_at).
IsNext(i) ==
    /\ i \in DOMAIN queue
    /\ \A j \in DOMAIN queue :
          \/ queue[i].priority < queue[j].priority
          \/ queue[i].priority = queue[j].priority /\ i <= j

CancelQueued(i) ==
    /\ i \in DOMAIN queue
    /\ queue' = RemoveAt(queue, i)
    /\ UNCHANGED <<cache, published, pool, stream, handles, buffers>>

\* The device buffers after all the stream's copies were made out of slots.
Arrived(slots) ==
    [k \in Keys |-> [p \in 1..Parts |->
        LET copies == {i \in DOMAIN stream :
                          /\ IsCopy(stream[i])
                          /\ stream[i].dest = k /\ stream[i].part = p}
        IN  IF copies = {} THEN buffers[k][p]
            ELSE slots[stream[Max(copies)].slot].content[p]]]

StreamHasRoom == Len(stream) + Parts + 1 <= MaxStream

(***************************************************************************)
(* A synchronous CPU-to-GPU transfer of k, through the slot acquired for   *)
(* it: acquire, stage, enqueue the copies, stream.synchronize(),           *)
(* reconstruct, put, release.  Each of the failures leaves through the     *)
(* finally clause, which releases the slot.                                *)
(***************************************************************************)
CanTransfer(k) ==
    /\ Resident(cache, "cpu", k)
    /\ AcquiredSlot(pool, stream) # NoSlot

SyncRefused(k) ==
    /\ ~CanTransfer(k)
    /\ UNCHANGED <<cache, published, pool, stream, buffers>>

SyncTransferred(k) ==
    LET i == AcquiredSlot(pool, stream)
        staged == Staged(Acquire(pool, stream), i, k, Parts)
    IN  /\ CanTransfer(k)
        /\ buffers' = Arrived(staged.slots)
        /\ stream' = <<>>
        /\ pool' = Release(staged, i)
        /\ \/ Publish(k, staged.slots[i].content)
           \/ "reconstruct" \in Failures /\ UNCHANGED <<cache, published>>

SyncStageFails(k) ==
    LET i == AcquiredSlot(pool, stream) IN
    /\ "stage" \in Failures
    /\ CanTransfer(k)
    /\ \E n \in 0..(Parts - 1) :
          pool' = Release(Staged(Acquire(pool, stream), i, k, n), i)
    /\ UNCHANGED <<cache, published, stream, buffers>>

SyncEnqueueFails(k) ==
    LET i == AcquiredSlot(pool, stream) IN
    /\ "transfer" \in Failures
    /\ CanTransfer(k)
    /\ StreamHasRoom
    /\ \E n \in 0..(Parts - 1) : stream' = Enqueued(stream, i, n, NoKey)
    /\ pool' = Release(Staged(Acquire(pool, stream), i, k, Parts), i)
    /\ UNCHANGED <<cache, published, buffers>>

Demoted(k) ==
    /\ cache' = Demote(cache, k)
    /\ Keeps(published)
    /\ UNCHANGED <<pool, stream, buffers>>

\* Mutant: the executed request stays queued.
ExecuteUndequeued ==
    \E i \in DOMAIN queue :
        /\ IsNext(i)
        /\ UNCHANGED <<queue, handles>>
        /\ SyncRefused(queue[i].key) \/ SyncTransferred(queue[i].key)

ExecuteNext ==
    \E i \in DOMAIN queue :
        LET r == queue[i] IN
        /\ IsNext(i)
        /\ queue' = RemoveAt(queue, i)
        /\ UNCHANGED handles
        /\ \/ r.direction = "gpu_to_cpu" /\ Demoted(r.key)
           \/ /\ r.direction = "cpu_to_gpu"
              /\ \/ SyncRefused(r.key) \/ SyncTransferred(r.key)
                 \/ SyncStageFails(r.key) \/ SyncEnqueueFails(r.key)

(***************************************************************************)
(* Asynchronous transfers.  A call that answers READY, REJECTED or with    *)
(* the handle of an earlier call changes nothing; the guards below are     *)
(* those of the call that starts a transfer or fails on the way.           *)
(***************************************************************************)
Accepts(k) ==
    /\ ~Resident(cache, "gpu", k)
    /\ k \notin Active
    /\ Cardinality(Active) < MaxConcurrent
    /\ AcquiredSlot(pool, stream) # NoSlot

\* Mutant: the slot acquired for an expert without CPU copy is kept.
AsyncUnbackedLeaks(k) ==
    /\ Accepts(k)
    /\ ~Resident(cache, "cpu", k)
    /\ pool' = Acquire(pool, stream)
    /\ UNCHANGED <<cache, published, stream, queue, handles, buffers>>

\* No CPU copy: the acquired slot (which may be a new one) is given back.
AsyncUnbacked(k) ==
    /\ Accepts(k)
    /\ ~Resident(cache, "cpu", k)
    /\ pool' = Release(Acquire(pool, stream), AcquiredSlot(pool, stream))
    /\ UNCHANGED <<cache, published, stream, queue, handles, buffers>>

\* Mutant: the event is recorded before the copies are enqueued.
LaunchedEventFirst(i, k) == Enqueued(Append(stream, Landed(k)), i, Parts, k)

\* The copies, and behind them the event of the transfer.
Launched(i, k) == Append(Enqueued(stream, i, Parts, k), Landed(k))

SubmitAsync(k) ==
    LET i == AcquiredSlot(pool, stream) IN
    /\ Accepts(k)
    /\ Resident(cache, "cpu", k)
    /\ StreamHasRoom
    /\ pool' = Staged(Acquire(pool, stream), i, k, Parts)
    /\ stream' = Launched(i, k)
    /\ handles' = [handles EXCEPT ![k] = [status |-> "in_flight", slot |-> i]]
    /\ buffers' = [buffers EXCEPT ![k] = Blank]
    /\ UNCHANGED <<cache, published, queue>>

\* stage_expert() or the enqueueing raises: the slot is released as it is.
AsyncFails(k) ==
    LET i == AcquiredSlot(pool, stream)
        acquired == Acquire(pool, stream)
    IN  /\ Accepts(k)
        /\ Resident(cache, "cpu", k)
        /\ \/ /\ "stage" \in Failures
              /\ \E n \in 0..(Parts - 1) : pool' = Release(Staged(acquired, i, k, n), i)
              /\ UNCHANGED stream
           \/ /\ "transfer" \in Failures
              /\ StreamHasRoom
              /\ \E n \in 0..Parts : stream' = Enqueued(stream, i, n, NoKey)
              /\ pool' = Release(Staged(acquired, i, k, Parts), i)
        /\ UNCHANGED <<cache, published, queue, handles, buffers>>

\* Mutant: cancellation frees the slot at once.
CancelAsyncFrees(k) ==
    /\ handles[k].status = "in_flight"
    /\ handles' = [handles EXCEPT ![k] = NoHandle]
    /\ pool' = Release(pool, handles[k].slot)
    /\ UNCHANGED <<cache, published, stream, queue, buffers>>

CancelAsync(k) ==
    /\ handles[k].status = "in_flight"
    /\ handles' = [handles EXCEPT ![k].status = "cancelled"]
    /\ UNCHANGED <<cache, published, pool, stream, queue, buffers>>

\* Mutant: the slot is read from the handle after it was dropped.
RetireForgetful(k) ==
    /\ Len(stream) < MaxStream
    /\ pool' = Release(MarkComplete(pool, handles[k].slot), handles[k].slot)
    /\ handles' = [handles EXCEPT ![k] = NoHandle]
    /\ stream' = Append(stream, Ready(handles'[k].slot))
    /\ buffers' = [buffers EXCEPT ![k] = Blank]

\* The slot is marked, with an event behind all enqueued work, and released.
Retire(k) ==
    LET i == handles[k].slot IN
    /\ Len(stream) < MaxStream
    /\ pool' = Release(MarkComplete(pool, i), i)
    /\ stream' = Append(stream, Ready(i))
    /\ handles' = [handles EXCEPT ![k] = NoHandle]
    /\ buffers' = [buffers EXCEPT ![k] = Blank]

\* Mutant: the cancellation is overlooked once the event completed.
PollCancelledPublishes(k) ==
    /\ handles[k].status = "cancelled"
    /\ EventDone(stream, Landed(k))
    /\ Publish(k, buffers[k])
    /\ Retire(k)
    /\ UNCHANGED queue

\* poll_async() before the event completes only reports the status.
PollCancelled(k) ==
    /\ handles[k].status = "cancelled"
    /\ EventDone(stream, Landed(k))
    /\ Retire(k)
    /\ UNCHANGED <<cache, published, queue>>

\* Mutant: the event is not queried.
PollFinishedEarly(k) ==
    /\ handles[k].status = "in_flight"
    /\ Publish(k, buffers[k])
    /\ Retire(k)
    /\ UNCHANGED queue

PollFinished(k) ==
    /\ handles[k].status = "in_flight"
    /\ EventDone(stream, Landed(k))
    /\ Publish(k, buffers[k])
    /\ Retire(k)
    /\ UNCHANGED queue

PollReconstructFails(k) ==
    /\ "reconstruct" \in Failures
    /\ handles[k].status = "in_flight"
    /\ EventDone(stream, Landed(k))
    /\ pool' = Release(pool, handles[k].slot)
    /\ handles' = [handles EXCEPT ![k] = NoHandle]
    /\ buffers' = [buffers EXCEPT ![k] = Blank]
    /\ UNCHANGED <<cache, published, stream, queue>>

(***************************************************************************)
(* The device does the item at the head of the stream.                     *)
(***************************************************************************)
DeviceStep ==
    /\ stream # <<>>
    /\ stream' = Tail(stream)
    /\ LET item == Head(stream) IN
       buffers' = IF IsCopy(item) /\ item.dest \in Keys
                  THEN [buffers EXCEPT ![item.dest][item.part] =
                           pool.slots[item.slot].content[item.part]]
                  ELSE buffers
    /\ UNCHANGED <<cache, published, pool, queue, handles>>

Next ==
    \/ DeviceStep
    \/ ExecuteNext
    \/ \E r \in Requests : Submit(r)
    \/ \E i \in 1..MaxQueue : CancelQueued(i)
    \/ \E k \in Keys :
          \/ Lookup(k) \/ LoadExpert(k)
          \/ SubmitAsync(k) \/ AsyncUnbacked(k) \/ AsyncFails(k)
          \/ CancelAsync(k)
          \/ PollCancelled(k) \/ PollFinished(k) \/ PollReconstructFails(k)

\* The device never stops for good while it has work.
Spec == Init /\ [][Next]_vars /\ WF_vars(DeviceStep)

-----------------------------------------------------------------------------
SlotType == [in_use : BOOLEAN, ready : BOOLEAN, content : [1..Parts -> Keys \cup {NoKey}]]

HandleType ==
    [status : {"none", "in_flight", "cancelled"}, slot : Nat]

ItemOK(item) ==
    \/ \E i \in DOMAIN pool.slots :
          \/ item = Ready(i)
          \/ \E p \in 1..Parts, k \in Keys \cup {NoKey} : item = Copy(i, p, k)
    \/ \E k \in Keys : item = Landed(k)

(* Types of the scheduler's state; the stream names existing slots only.   *)
TypeOK ==
    /\ published \in [Keys -> [1..Parts -> Keys \cup {NoKey}]]
    /\ buffers \in [Keys -> [1..Parts -> Keys \cup {NoKey}]]
    /\ pool.used_bytes \in Nat /\ pool.slots \in Seq(SlotType)
    /\ \A i \in DOMAIN stream : ItemOK(stream[i])
    /\ queue \in Seq(Requests)
    /\ handles \in [Keys -> HandleType]

(* Every expert that can be looked up on the GPU has its own weights there, *)
(* all parts of them: no copy from a slot that was restaged, no transfer   *)
(* published before its copies were made, no cancelled or failed one.      *)
PublishedContent ==
    \A k \in Keys :
        published[k] = IF Resident(cache, "gpu", k) THEN ExpertBytes(k) ELSE Blank

(* "CUDA events [are used] so staging memory is not reused while DMA is    *)
(* still in flight": no slot that acquire() would hand out for restaging   *)
(* is the source of a copy still on the stream.                            *)
SlotNotReusedInFlight ==
    \A i \in Reusable(pool, stream) : PendingCopies(stream, i) = {}

(* Between calls a slot is in use exactly when one asynchronous transfer,  *)
(* running or cancelled, owns it: no path through success, rejection,      *)
(* failure or cancellation leaks a slot or gives one to two transfers.     *)
SlotsOwned ==
    /\ InUse(pool) = {handles[k].slot : k \in Active}
    /\ Cardinality(InUse(pool)) = Cardinality(Active)

(* The pinned memory reserved is that of the slots created, and within the *)
(* budget; outstanding transfers stay within max_concurrent.               *)
WithinLimits ==
    /\ pool.used_bytes = Len(pool.slots) * SlotBytes
    /\ pool.used_bytes <= BudgetBytes
    /\ Cardinality(Active) <= MaxConcurrent

(* Every transfer outstanding has its event still to come or its bytes in  *)
(* place: what poll_async() takes for complete is complete.                *)
LandedMeansComplete ==
    \A k \in Active : EventDone(stream, Landed(k)) => buffers[k] = ExpertBytes(k)

(* "The authoritative CPU NF4 backing copy remains in _cpu_cache": the     *)
(* comment in evict() about the GPU entry it drops.                        *)
CpuBackingRemains ==
    \A k \in Keys : Resident(cache, "gpu", k) => Resident(cache, "cpu", k)

\* The outstanding transfers whose parts are all in their buffers.
Complete == {k \in Active : buffers[k] = ExpertBytes(k)}

Lifecycle ==
    INSTANCE TransferLifecycle WITH status <- [k \in Keys |-> handles[k].status],
                                    arrived <- Complete,
                                    resident <- ToSet(cache.gpu.order)

(* Every call is a step of the life of one expert's transfer.  None ends,  *)
(* by completion, cancellation or a failed reconstruction, before the last *)
(* of its bytes is in its buffers (judged by the bytes, not by the event   *)
(* that poll_async() queries); the end of one that was cancelled moves no  *)
(* expert, that of any other none or its own to the GPU.                   *)
ImplementsLifecycle == Lifecycle!LifecycleSpec

(* A slot released with copies outstanding is not lost: the device reaches *)
(* its event, and the slot can be acquired again.                          *)
ReleasedSlotsReturn ==
    \A i \in 1..(BudgetBytes \div SlotBytes) :
        (i \in DOMAIN pool.slots /\ ~(i \in InUse(pool)))
            ~> (i \in Reusable(pool, stream) \/ i \in InUse(pool))
=============================================================================
