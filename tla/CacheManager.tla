---------------------------- MODULE CacheManager ----------------------------
(***************************************************************************)
(* CacheManager as a state machine: one action per public method that      *)
(* changes state, called in any order with any expert and device.          *)
(* promote_to_gpu, get_size_bytes, stats, is_gpu_resident, peek_cpu and    *)
(* peek_gpu only read.                                                     *)
(***************************************************************************)
EXTENDS CacheOps

CONSTANTS
    UsedDevices,  \* the device strings the callers of this instance pass
    MaxAccess,    \* bound of the exploration: accesses of one entry (LFU)
    MaxArcList    \* bound of the exploration: length of an ARC list

ASSUME UsedDevicesAssumption == UsedDevices \subseteq Devices
ASSUME BoundsAssumption == MaxAccess \in Nat /\ MaxArcList \in Nat

VARIABLE cache

Init == cache = InitCache

WithinBounds(c) ==
    \A t \in Tiers : /\ \A k \in Keys : c[t].count[k] <= MaxAccess
                     /\ \A l \in {"t1", "t2", "b1", "b2"} : Len(c[t].arc[l]) <= MaxArcList

CallGet(k) == cache' = Get(cache, k) /\ WithinBounds(Get(cache, k))

CallPut(k, device) ==
    cache' = Put(cache, k, device) /\ WithinBounds(Put(cache, k, device))

CallEvict(device) ==
    cache' = Evict(cache, device) /\ WithinBounds(Evict(cache, device))

CallDemote(k) == cache' = Demote(cache, k)

Next ==
    \/ \E k \in Keys : CallGet(k) \/ CallDemote(k)
    \/ \E device \in UsedDevices :
          CallEvict(device) \/ \E k \in Keys : CallPut(k, device)

Spec == Init /\ [][Next]_cache

-----------------------------------------------------------------------------
(* Types: a cache record of two tiers and two counters.  A tier lists no   *)
(* expert twice, as befits the dict it stands for, and the target of ARC's *)
(* t1 stays within the slots however ghost hits move it.                   *)
TypeOK ==
    /\ cache \in [gpu : TierType("gpu"), cpu : TierType("cpu"), used : [Tiers -> Nat]]
    /\ \A t \in Tiers : IsInjective(cache[t].order)

(* "Maximum number of expert tensors that may reside on GPU" (and on CPU): *)
(* no sequence of calls leaves a tier with more entries than its slots.  A *)
(* tier of no slots holds one entry, since put() inserts after an evict()  *)
(* that found nothing.                                                     *)
WithinSlots ==
    \A t \in Tiers : Len(cache[t].order) <= Larger(1, Slots(t))

(* CacheStats' slot counters are the occupancy of the tiers after every    *)
(* call, whichever path (insert, evict inside put, evict, demote) changed  *)
(* it.                                                                     *)
SlotStatsExact == \A t \in Tiers : cache.used[t] = Len(cache[t].order)

Store ==
    INSTANCE TwoTierStore WITH gpu <- ToSet(cache.gpu.order),
                               cpu <- ToSet(cache.cpu.order),
                               MayOverflow <- Policy = "arc"

(* Every call is one step of the two-tier store: a lookup or a refresh     *)
(* never changes who is resident, an insertion displaces at most one entry *)
(* and only from a full tier, and no call touches both tiers.  The LRU and *)
(* LFU policies always find a victim in a full tier; the ARC lists may     *)
(* offer none, and then the tier outgrows its slots.                       *)
ImplementsStore == Store!StoreSpec
=============================================================================
