------------------------- MODULE CacheManagerProofs -------------------------
(***************************************************************************)
(* Theorems about the expert cache, for any experts, slots and policy.     *)
(* The invariant that carries them is CacheOK of the cache record, which   *)
(* every operator of the cache keeps (CacheOpsProofs).                     *)
(***************************************************************************)
EXTENDS CacheManager, CacheOpsProofs

USE SlotsAssumption, PolicyAssumption, NoKeyAssumption

(* The types of TypeOK are those of CacheOK.                               *)
LEMMA TypeOKIsCacheOK == TypeOK <=> CacheOK(cache)
<1>1. TypeOK => CacheOK(cache)
  BY DEF TypeOK, CacheOK, Tiers
<1>2. CacheOK(cache) => TypeOK
  BY DEF TypeOK, CacheOK, Tiers
<1> QED
  BY <1>1, <1>2

(* The calls of Next, with devices among those the code knows.             *)
LEMMA NextCalls ==
    ASSUME Next
    PROVE  \/ \E k \in Keys : cache' = Get(cache, k) \/ cache' = Demote(cache, k)
           \/ \E device \in UsedDevices :
                 \/ cache' = Evict(cache, device)
                 \/ \E k \in Keys : cache' = Put(cache, k, device)
  BY DEF Next, CallGet, CallPut, CallEvict, CallDemote

(* Every state of the cache manager is well typed: tiers without repeated  *)
(* experts, ARC's target within the slots, counters naturals.              *)
THEOREM TypeCorrect == Spec => []TypeOK
<1>1. Init => CacheOK(cache)
  BY InitOK DEF Init
<1>2. ASSUME CacheOK(cache), [Next]_cache
      PROVE  CacheOK(cache)'
  <2>1. CASE UNCHANGED cache
    BY <1>2, <2>1 DEF CacheOK
  <2>2. ASSUME NEW k \in Keys, cache' = Get(cache, k) \/ cache' = Demote(cache, k)
        PROVE  CacheOK(cache')
    BY <1>2, <2>2, CallsOK
  <2>3. ASSUME NEW device \in UsedDevices, cache' = Evict(cache, device)
        PROVE  CacheOK(cache')
    BY <1>2, <2>3, CallsOK, UsedDevicesAssumption
  <2>4. ASSUME NEW device \in UsedDevices, NEW k \in Keys, cache' = Put(cache, k, device)
        PROVE  CacheOK(cache')
    BY <1>2, <2>4, CallsOK, UsedDevicesAssumption
  <2> QED
    BY <1>2, <2>1, <2>2, <2>3, <2>4, NextCalls
<1>3. Spec => []CacheOK(cache)
  BY <1>1, <1>2, PTL DEF Spec
<1> QED
  BY <1>3, TypeOKIsCacheOK, PTL

-----------------------------------------------------------------------------
(* CacheStats' slot counters equal the occupancy of the tiers after every  *)
(* call, provided no caller says "gpu" for the GPU tier: put and evict     *)
(* store such an entry on the GPU but refresh the CPU's counter.           *)
THEOREM SlotStats ==
    ASSUME "gpu" \notin UsedDevices
    PROVE  Spec => []SlotStatsExact
<1> DEFINE IInv == CacheOK(cache) /\ CountersExact(cache)
<1>1. Init => IInv
  BY InitOK DEF Init, CountersExact
<1>2. ASSUME IInv, [Next]_cache
      PROVE  IInv'
  <2>1. CASE UNCHANGED cache
    BY <1>2, <2>1 DEF CacheOK, CountersExact
  <2>2. ASSUME NEW k \in Keys, cache' = Get(cache, k) \/ cache' = Demote(cache, k)
        PROVE  CacheOK(cache') /\ CountersExact(cache')
    BY <1>2, <2>2, CallsOK, CallsKeepCounts
  <2>3. UsedDevices \subseteq Devices \ {"gpu"}
    BY UsedDevicesAssumption
  <2>4. ASSUME NEW device \in UsedDevices,
               \/ cache' = Evict(cache, device)
               \/ \E k \in Keys : cache' = Put(cache, k, device)
        PROVE  CacheOK(cache') /\ CountersExact(cache')
    BY <1>2, <2>3, <2>4, CallsOK, CallsKeepCounts
  <2> QED
    BY <1>2, <2>1, <2>2, <2>4, NextCalls
<1>3. IInv => SlotStatsExact
  BY DEF CountersExact, SlotStatsExact
<1> QED
  BY <1>1, <1>2, <1>3, PTL DEF Spec

-----------------------------------------------------------------------------
(* Under LRU and LFU no sequence of calls leaves a tier with more entries  *)
(* than its slots (one entry in a tier of no slots).  ARC is excluded: its *)
(* lists may offer no victim in a full tier.                               *)
THEOREM Capacity ==
    ASSUME Policy # "arc"
    PROVE  Spec => []WithinSlots
<1> DEFINE IInv == CacheOK(cache) /\ Fits(cache)
<1>1. Init => IInv
  <2>1. \A t \in Tiers : 0 <= Larger(1, Slots(t))
    BY SlotsType DEF Larger
  <2> QED
    BY <2>1, InitOK DEF Init, Fits
<1>2. ASSUME IInv, [Next]_cache
      PROVE  IInv'
  <2>1. CASE UNCHANGED cache
    BY <1>2, <2>1 DEF CacheOK, Fits
  <2>2. ASSUME NEW k \in Keys, cache' = Get(cache, k) \/ cache' = Demote(cache, k)
        PROVE  CacheOK(cache') /\ Fits(cache')
    BY <1>2, <2>2, CallsOK, CallsFit
  <2>3. ASSUME NEW device \in UsedDevices,
               \/ cache' = Evict(cache, device)
               \/ \E k \in Keys : cache' = Put(cache, k, device)
        PROVE  CacheOK(cache') /\ Fits(cache')
    BY <1>2, <2>3, CallsOK, CallsFit, UsedDevicesAssumption
  <2> QED
    BY <1>2, <2>1, <2>2, <2>3, NextCalls
<1>3. IInv => WithinSlots
  BY DEF Fits, WithinSlots
<1> QED
  BY <1>1, <1>2, <1>3, PTL DEF Spec
-----------------------------------------------------------------------------
(* The store counts the experts of a tier as the cache does.               *)
LEMMA StoreCounts == \A S : Store!Cardinality(S) = Cardinality(S)
  BY Zenon DEF Store!Cardinality, Cardinality

(* An insertion into a tier is one of the abstract store's: at most one    *)
(* expert is displaced, and only from a full tier.                         *)
LEMMA PutInserts ==
    ASSUME NEW c, CacheOK(c), NEW k \in Keys, NEW device \in Devices,
           k \notin Held(c, TierOf(device))
    PROVE  Store!Inserts(Held(c, TierOf(device)), Held(Put(c, k, device), TierOf(device)),
                         k, Slots(TierOf(device)))
<1> DEFINE tier == TierOf(device)
           before == Held(c, tier)
           after == Held(Put(c, k, device), tier)
<1>1. tier \in Tiers /\ TierOK(c[tier], tier)
  BY DeviceTiers, CacheOKTiers
<1>2. /\ Cardinality(before) = Len(c[tier].order)
      /\ before = {} <=> c[tier].order = <<>>
      /\ Len(c[tier].order) \in Nat /\ Slots(tier) \in Nat
  BY <1>1, HeldResident, SlotsType DEF Held, TierOK, TierType
<1>3. \/ Len(c[tier].order) < Slots(tier) /\ after = before \cup {k}
      \/ /\ Len(c[tier].order) >= Slots(tier)
         /\ c[tier].order = <<>> \/ Policy = "arc"
         /\ after = before \cup {k}
      \/ /\ Len(c[tier].order) >= Slots(tier)
         /\ \E v \in before : after = (before \ {v}) \cup {k}
  BY PutHeld
<1> HIDE DEF tier, before, after
<1>4. Store!Inserts(before, after, k, Slots(tier))
  <2>1. k \notin before
    BY DEF before, tier
  <2>0. /\ Store!Full(before, Slots(tier)) <=> Len(c[tier].order) >= Slots(tier)
        /\ Len(c[tier].order) < Slots(tier) <=> ~(Len(c[tier].order) >= Slots(tier))
    <3>1. Store!Full(before, Slots(tier)) <=> Len(c[tier].order) >= Slots(tier)
      <4>1. Store!Full(before, Slots(tier)) <=> Cardinality(before) >= Slots(tier)
        BY StoreCounts, Zenon DEF Store!Full
      <4> QED
        BY <1>2, <4>1
    <3>2. Len(c[tier].order) < Slots(tier) <=> ~(Len(c[tier].order) >= Slots(tier))
      BY <1>2
    <3> QED
      BY <3>1, <3>2
  <2>2. CASE Len(c[tier].order) < Slots(tier) /\ after = before \cup {k}
    BY <2>0, <2>1, <2>2, Zenon DEF Store!Inserts
  <2>3. CASE /\ Len(c[tier].order) >= Slots(tier)
             /\ c[tier].order = <<>> \/ Policy = "arc"
             /\ after = before \cup {k}
    BY <1>2, <2>0, <2>1, <2>3, Zenon DEF Store!Inserts
  <2>4. CASE /\ Len(c[tier].order) >= Slots(tier)
             /\ \E v \in before : after = (before \ {v}) \cup {k}
    BY <2>0, <2>1, <2>4, Zenon DEF Store!Inserts
  <2> QED
    BY <1>3, <2>2, <2>3, <2>4
<1> QED
  BY <1>4 DEF tier, before, after

(* A step that changes neither tier's experts is a stutter of the store,   *)
(* and one that changes one tier's by an insertion or a removal is a step. *)
LEMMA StoreSteps ==
    ASSUME \/ /\ Held(cache', "gpu") = Held(cache, "gpu")
              /\ Held(cache', "cpu") = Held(cache, "cpu")
           \/ \E tier, other \in Tiers :
                 /\ tier # other
                 /\ Held(cache', other) = Held(cache, other)
                 /\ \/ \E k \in Keys : Store!Inserts(Held(cache, tier),
                                          Held(cache', tier), k, Slots(tier))
                    \/ Store!Removes(Held(cache, tier), Held(cache', tier))
    PROVE  [Store!GpuStep \/ Store!CpuStep]_<<ToSet(cache.gpu.order), ToSet(cache.cpu.order)>>
<1>1. /\ Held(cache, "gpu") = ToSet(cache.gpu.order)
      /\ Held(cache, "cpu") = ToSet(cache.cpu.order)
      /\ Held(cache', "gpu") = ToSet(cache'.gpu.order)
      /\ Held(cache', "cpu") = ToSet(cache'.cpu.order)
  BY DEF Held, HeldIn
<1>2. CASE /\ Held(cache', "gpu") = Held(cache, "gpu")
           /\ Held(cache', "cpu") = Held(cache, "cpu")
  BY <1>1, <1>2
<1>3. ASSUME Held(cache', "cpu") = Held(cache, "cpu"),
             \/ \E k \in Keys : Store!Inserts(Held(cache, "gpu"),
                                   Held(cache', "gpu"), k, Slots("gpu"))
             \/ Store!Removes(Held(cache, "gpu"), Held(cache', "gpu"))
      PROVE  Store!GpuStep
  BY <1>1, <1>3 DEF Store!GpuStep, Slots
<1>4. ASSUME Held(cache', "gpu") = Held(cache, "gpu"),
             \/ \E k \in Keys : Store!Inserts(Held(cache, "cpu"),
                                   Held(cache', "cpu"), k, Slots("cpu"))
             \/ Store!Removes(Held(cache, "cpu"), Held(cache', "cpu"))
      PROVE  Store!CpuStep
  BY <1>1, <1>4 DEF Store!CpuStep, Slots
<1> QED
  BY <1>2, <1>3, <1>4 DEF Tiers

(* Every call is a step of the store that says nothing of which entry is   *)
(* given up, or changes no residency at all: lookups and refreshes move no *)
(* expert in or out, an insertion displaces at most one expert and only    *)
(* from a full tier, and no call touches both tiers.                       *)
THEOREM StoreImplemented == Spec => ImplementsStore
<1>1. Init => Store!StoreInit
  <2>1. Init => cache.gpu.order = <<>> /\ cache.cpu.order = <<>>
    BY InitOK DEF Init, Tiers
  <2> QED
    BY <2>1 DEF Store!StoreInit, ToSet
<1>2. ASSUME CacheOK(cache), [Next]_cache
      PROVE  [Store!GpuStep \/ Store!CpuStep]_<<ToSet(cache.gpu.order), ToSet(cache.cpu.order)>>
  <2>0. "gpu" \in Tiers /\ "cpu" \in Tiers
    BY DEF Tiers
  <2>1. CASE UNCHANGED cache
    BY <2>1
  <2>2. ASSUME NEW k \in Keys, cache' = Get(cache, k)
        PROVE  Held(cache', "gpu") = Held(cache, "gpu") /\ Held(cache', "cpu") = Held(cache, "cpu")
    BY <1>2, <2>0, <2>2, GetHeld
  <2>3. ASSUME NEW k \in Keys, cache' = Demote(cache, k)
        PROVE  \/ Held(cache', "gpu") = Held(cache, "gpu") /\ Held(cache', "cpu") = Held(cache, "cpu")
               \/ /\ Held(cache', "cpu") = Held(cache, "cpu")
                  /\ Store!Removes(Held(cache, "gpu"), Held(cache', "gpu"))
    <3>1. /\ Held(cache', "gpu") = Held(cache, "gpu") \ {k}
          /\ Held(cache', "cpu") = Held(cache, "cpu")
      BY <1>2, <2>3, DemoteHeld
    <3>2. CASE k \in Held(cache, "gpu")
      BY <3>1, <3>2 DEF Store!Removes
    <3>3. CASE k \notin Held(cache, "gpu")
      BY <3>1, <3>3
    <3> QED
      BY <3>2, <3>3
  <2>4. ASSUME NEW device \in Devices, cache' = Evict(cache, device)
        PROVE  \/ cache' = cache
               \/ LET tier == TierOf(device)
                  IN  /\ \A t \in Tiers \ {tier} : cache'[t] = cache[t]
                      /\ Store!Removes(Held(cache, tier), Held(cache', tier))
    BY <1>2, <2>4, EvictHeld DEF Store!Removes
  <2>5. ASSUME NEW device \in Devices, NEW k \in Keys, cache' = Put(cache, k, device)
        PROVE  LET tier == TierOf(device)
               IN  /\ \A t \in Tiers \ {tier} : cache'[t] = cache[t]
                   /\ \/ Held(cache', tier) = Held(cache, tier)
                      \/ Store!Inserts(Held(cache, tier), Held(cache', tier), k, Slots(tier))
    <3>1. CASE k \in Held(cache, TierOf(device))
      BY <1>2, <2>5, <3>1, PutHeld
    <3>2. CASE k \notin Held(cache, TierOf(device))
      <4>1. \A t \in Tiers \ {TierOf(device)} : cache'[t] = cache[t]
        BY <1>2, <2>5, PutHeld
      <4>2. Store!Inserts(Held(cache, TierOf(device)), Held(cache', TierOf(device)),
                          k, Slots(TierOf(device)))
        BY <1>2, <2>5, <3>2, PutInserts
      <4> QED
        BY <4>1, <4>2
    <3> QED
      BY <3>1, <3>2
  <2>6. \A device \in UsedDevices : device \in Devices /\ TierOf(device) \in Tiers
    BY UsedDevicesAssumption, DeviceTiers
  <2>7. \A t \in Tiers : cache'[t] = cache[t] => Held(cache', t) = Held(cache, t)
    BY DEF Held
  <2>8. ASSUME NEW k \in Keys, cache' = Get(cache, k) \/ cache' = Demote(cache, k)
        PROVE  [Store!GpuStep \/ Store!CpuStep]_<<ToSet(cache.gpu.order), ToSet(cache.cpu.order)>>
    BY <2>0, <2>2, <2>3, <2>8, StoreSteps
  <2>9. ASSUME NEW device \in Devices,
               \/ cache' = Evict(cache, device)
               \/ \E k \in Keys : cache' = Put(cache, k, device)
        PROVE  [Store!GpuStep \/ Store!CpuStep]_<<ToSet(cache.gpu.order), ToSet(cache.cpu.order)>>
    <3> DEFINE tier == TierOf(device)
    <3>2. tier \in Tiers
      BY DeviceTiers
    <3>1. PICK other \in Tiers : other # tier /\ \A t \in Tiers : t = tier \/ t = other
      <4> HIDE DEF tier
      <4>1. CASE tier = "gpu"
        BY <4>1 DEF Tiers
      <4>2. CASE tier = "cpu"
        BY <4>2 DEF Tiers
      <4> QED
        BY <3>2, <4>1, <4>2 DEF Tiers
    <3>3. \/ cache' = cache
          \/ /\ cache'[other] = cache[other]
             /\ \/ Held(cache', tier) = Held(cache, tier)
                \/ Store!Removes(Held(cache, tier), Held(cache', tier))
                \/ \E k \in Keys :
                      Store!Inserts(Held(cache, tier), Held(cache', tier), k, Slots(tier))
      BY <2>4, <2>5, <2>9, <3>1
    <3> HIDE DEF tier
    <3>4. CASE Held(cache', tier) = Held(cache, tier) /\ Held(cache', other) = Held(cache, other)
      <4>1. /\ Held(cache', "gpu") = Held(cache, "gpu")
            /\ Held(cache', "cpu") = Held(cache, "cpu")
        BY <2>0, <3>1, <3>4
      <4> QED
        BY <4>1, StoreSteps
    <3>5. CASE /\ Held(cache', other) = Held(cache, other)
               /\ \/ Store!Removes(Held(cache, tier), Held(cache', tier))
                  \/ \E k \in Keys :
                        Store!Inserts(Held(cache, tier), Held(cache', tier), k, Slots(tier))
      BY <3>1, <3>2, <3>5, StoreSteps
    <3> QED
      BY <2>7, <3>1, <3>2, <3>3, <3>4, <3>5
  <2> QED
    BY <1>2, <2>1, <2>6, <2>8, <2>9, NextCalls
<1>3. Spec => []CacheOK(cache)
  BY TypeCorrect, TypeOKIsCacheOK, PTL
<1> QED
  BY <1>1, <1>2, <1>3, PTL DEF Spec, ImplementsStore, Store!StoreSpec
=============================================================================
