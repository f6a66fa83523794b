----------------------------- MODULE StagingPool -----------------------------
(***************************************************************************)
(* transfer/reusable_staging.py's ReusablePinnedStagingPool, with the      *)
(* PinnedMemoryBudget it reserves from, as operators on a pool record:     *)
(* used_bytes, and the slots by slot_id (from 1 here).  A slot's ready     *)
(* says that its ready_event is not None; the event itself is the stream's *)
(* Ready(slot) item.  A slot's tensors are one part per projection, each   *)
(* abstracted to the expert it was last copied from (NoKey for none).       *)
(***************************************************************************)
EXTENDS Experts, CudaStream, Integers, FiniteSetsExt

CONSTANTS
    Parts,        \* the number of parts an expert is staged in
    SlotBytes,    \* slot_size_bytes
    BudgetBytes   \* budget_bytes

ASSUME PoolAssumption ==
    /\ Parts \in Nat \ {0}
    /\ SlotBytes \in Nat \ {0}
    /\ BudgetBytes \in Nat

Blank == [p \in 1..Parts |-> NoKey]

ExpertBytes(k) == [p \in 1..Parts |-> k]

InitPool == [used_bytes |-> 0, slots |-> <<>>]

\* Mutant: the budget is tested before the slot's size is added.
CanReserveOneMore(pool) == pool.used_bytes <= BudgetBytes

CanReserve(pool) == pool.used_bytes + SlotBytes <= BudgetBytes

\* Mutant: a slot with a ready event is never looked at again.
ReusableUnqueried(pool, stream) ==
    {i \in DOMAIN pool.slots : ~pool.slots[i].in_use /\ ~pool.slots[i].ready}

Reusable(pool, stream) ==
    {i \in DOMAIN pool.slots :
        /\ ~pool.slots[i].in_use
        /\ pool.slots[i].ready => EventDone(stream, Ready(i))}

NoSlot == 0

\* The slot acquire() returns: the first reusable one, or else a new one.
AcquiredSlot(pool, stream) ==
    CASE Reusable(pool, stream) # {} -> Min(Reusable(pool, stream))
      [] Reusable(pool, stream) = {} /\ CanReserve(pool) -> Len(pool.slots) + 1
      [] OTHER -> NoSlot

Acquire(pool, stream) ==
    LET i == AcquiredSlot(pool, stream) IN
    CASE i = NoSlot -> pool
      [] i \in DOMAIN pool.slots ->
            [pool EXCEPT !.slots[i].in_use = TRUE, !.slots[i].ready = FALSE]
      [] OTHER ->
            [used_bytes |-> pool.used_bytes + SlotBytes,
             slots |-> Append(pool.slots,
                        [in_use |-> TRUE, ready |-> FALSE, content |-> Blank])]

\* stage_expert() after n parts were copied; all of them when it succeeds.
Staged(pool, i, k, n) ==
    [pool EXCEPT !.slots[i].content =
        [p \in 1..Parts |-> IF p <= n THEN k ELSE @[p]]]

\* transfer_staged_expert_to_gpu() after n parts were enqueued.
Enqueued(stream, i, n, dest) ==
    stream \o [p \in 1..n |-> Copy(i, p, dest)]

MarkComplete(pool, i) == [pool EXCEPT !.slots[i].ready = TRUE]

Release(pool, i) == [pool EXCEPT !.slots[i].in_use = FALSE]

InUse(pool) == {i \in DOMAIN pool.slots : pool.slots[i].in_use}
=============================================================================
