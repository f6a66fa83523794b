------------------------------ MODULE CacheOps ------------------------------
(***************************************************************************)
(* cache/manager.py's CacheManager as operators: each public method maps   *)
(* a cache record to the record it leaves.  CacheManager turns them into   *)
(* actions; the modules that compose the cache with the transfer machinery *)
(* apply several of them in one step, as the Python callers do.            *)
(*                                                                         *)
(* A tier abstracts one of the two dicts.  Its entries are the keys of     *)
(* order, by last_access, oldest first, so that touching an entry moves it *)
(* to the end (time.monotonic() never repeats a value).  count is          *)
(* access_count; only _lfu_victim reads it, so it stays 0 under the other  *)
(* policies.  The expert tensors and the hit/miss/eviction counters are    *)
(* left out: no decision of the cache depends on them.                     *)
(***************************************************************************)
EXTENDS Experts, ArcState, FiniteSets

CONSTANTS
    GpuSlots,   \* gpu_slots
    CpuSlots,   \* cpu_slots
    Policy      \* "lru", "lfu" or "arc"

ASSUME SlotsAssumption == GpuSlots \in Nat /\ CpuSlots \in Nat
ASSUME PolicyAssumption == Policy \in {"lru", "lfu", "arc"}

Tiers == {"gpu", "cpu"}

\* The device strings callers use; "cuda" stands for "cuda:0" too.
Devices == {"cuda", "gpu", "cpu"}

TierOf(device) == IF device \in {"cuda", "gpu"} THEN "gpu" ELSE "cpu"

Slots(tier) == IF tier = "gpu" THEN GpuSlots ELSE CpuSlots

EmptyTier == [order |-> <<>>, count |-> [k \in Keys |-> 0], arc |-> InitArc]

\* used is CacheStats.gpu_slots_used and cpu_slots_used.
InitCache ==
    [gpu |-> EmptyTier, cpu |-> EmptyTier, used |-> [t \in Tiers |-> 0]]

Resident(c, tier, k) == Contains(c[tier].order, k)

(***************************************************************************)
(* One tier.                                                               *)
(***************************************************************************)
Counted(t, k, n) == IF Policy = "lfu" THEN [t.count EXCEPT ![k] = n] ELSE t.count

\* Mutant: a hit does not refresh last_access.
TouchedInPlace(t, k) ==
    [t EXCEPT !.count = Counted(t, k, t.count[k] + 1)]

Touched(t, k) ==
    [order |-> MoveToMru(t.order, k),
     count |-> Counted(t, k, t.count[k] + 1),
     arc   |-> IF Policy = "arc" THEN OnHit(t.arc, k) ELSE t.arc]

LruVictim(t) == Head(t.order)

\* Mutant: the access counts are not compared.
ColderByAge(t, i, j) == i < j

\* Position i is evicted before position j: fewer accesses, ties by age.
Colder(t, i, j) ==
    \/ t.count[t.order[i]] < t.count[t.order[j]]
    \/ t.count[t.order[i]] = t.count[t.order[j]] /\ i < j

LfuVictim(t) ==
    t.order[CHOOSE i \in 1..Len(t.order) :
                \A j \in 1..Len(t.order) : ~Colder(t, j, i)]

\* The ARC lists may name a key that is not cached: then the oldest goes.
ArcVictim(t) ==
    IF NothingToEvict(t.arc) THEN NoKey
    ELSE IF Contains(t.order, ArcChoice(t.arc)) THEN ArcChoice(t.arc)
    ELSE LruVictim(t)

\* The key evict() selects in a tier that is not empty.
Victim(t) ==
    CASE Policy = "lru" -> LruVictim(t)
      [] Policy = "lfu" -> LfuVictim(t)
      [] Policy = "arc" -> ArcVictim(t)

\* The entry of k is popped and forgotten by the ARC lists.
Dropped(t, k) ==
    [order |-> Without(t.order, k),
     count |-> Counted(t, k, 0),
     arc   |-> IF Policy = "arc" THEN RemoveKey(t.arc, k) ELSE t.arc]

Evicts(t) == t.order # <<>> /\ Victim(t) # NoKey

AfterSelection(t) ==
    IF Policy = "arc" THEN [t EXCEPT !.arc = AfterChoice(@)] ELSE t

Evicted(t) == IF Evicts(t) THEN Dropped(AfterSelection(t), Victim(t)) ELSE t

\* Mutants: the tier is filled one entry too far; an entry is always evicted.
MadeRoomLate(t, slots) == IF Len(t.order) > slots THEN Evicted(t) ELSE t
MadeRoomAlways(t, slots) == Evicted(t)

MadeRoom(t, slots) == IF Len(t.order) >= slots THEN Evicted(t) ELSE t

Inserted(t, k) ==
    [order |-> Append(t.order, k), count |-> Counted(t, k, 1), arc |-> t.arc]

(***************************************************************************)
(* The manager.                                                            *)
(***************************************************************************)
\* The counter put and evict refresh: they test for "cuda" alone.
StatsTier(device) == IF device = "cuda" THEN "gpu" ELSE "cpu"

Synced(c, tier) == [c EXCEPT !.used[tier] = Len(c[tier].order)]

Get(c, k) ==
    IF Resident(c, "gpu", k) THEN [c EXCEPT !.gpu = Touched(@, k)]
    ELSE IF Resident(c, "cpu", k) THEN [c EXCEPT !.cpu = Touched(@, k)]
    ELSE IF Policy = "arc" THEN [c EXCEPT !.cpu.arc = OnMiss(@, k, CpuSlots)]
    ELSE c

\* A full tier whose evict() returned None still takes the new entry.
Put(c, k, device) ==
    LET tier == TierOf(device) IN
    IF Resident(c, tier, k) THEN [c EXCEPT ![tier] = Touched(@, k)]
    ELSE Synced([c EXCEPT ![tier] = Inserted(MadeRoom(@, Slots(tier)), k)],
                StatsTier(device))

Evict(c, device) ==
    LET tier == TierOf(device) IN
    IF Evicts(c[tier])
    THEN Synced([c EXCEPT ![tier] = Evicted(@)], StatsTier(device))
    ELSE c

\* Mutant: the slot counter is not refreshed.
DemoteUncounted(c, k) ==
    IF Resident(c, "gpu", k) THEN [c EXCEPT !.gpu = Dropped(@, k)] ELSE c

\* Mutant: the demoted expert is put into the CPU tier.
DemoteMoves(c, k) ==
    IF Resident(c, "gpu", k)
    THEN Put(Synced([c EXCEPT !.gpu = Dropped(@, k)], "gpu"), k, "cpu")
    ELSE c

Demote(c, k) ==
    IF Resident(c, "gpu", k)
    THEN Synced([c EXCEPT !.gpu = Dropped(@, k)], "gpu")
    ELSE c
-----------------------------------------------------------------------------
\* The types of a tier's fields.
TierType(tier) ==
    [order : Seq(Keys), count : [Keys -> Nat], arc : ArcType(Keys, Slots(tier))]
=============================================================================
