---------------------------- MODULE CacheOpsProofs ----------------------------
(***************************************************************************)
(* Facts about the operators of the expert cache, for any experts, slots   *)
(* and policy: each call keeps a cache record well formed (CacheOK: types, *)
(* no expert listed twice in a tier, ARC's target within the slots), what  *)
(* it does to the slot counters, to the number of entries of a tier and to *)
(* the set of experts held there.                                          *)
(***************************************************************************)
EXTENDS CacheOps, ArcStateProofs, FunctionTheorems, FiniteSetTheorems,
        WellFoundedInduction

TierOK(t, tier) == t \in TierType(tier) /\ IsInjective(t.order)

CacheOK(c) ==
    /\ c \in [gpu : TierType("gpu"), cpu : TierType("cpu"), used : [Tiers -> Nat]]
    /\ IsInjective(c.gpu.order) /\ IsInjective(c.cpu.order)

USE SlotsAssumption, PolicyAssumption, NoKeyAssumption

(* Slots of either tier are naturals.                                      *)
LEMMA SlotsType == \A tier : Slots(tier) \in Nat
  BY DEF Slots

-----------------------------------------------------------------------------
(* A hit in a tier keeps it well formed and as large as it was.            *)
LEMMA TouchedOK ==
    ASSUME NEW tier \in Tiers, NEW t, TierOK(t, tier), NEW k \in Keys, Contains(t.order, k)
    PROVE  TierOK(Touched(t, k), tier) /\ Len(Touched(t, k).order) = Len(t.order)
<1>1. /\ MoveToMru(t.order, k) \in Seq(Keys) /\ IsInjective(MoveToMru(t.order, k))
      /\ Len(MoveToMru(t.order, k)) = Len(t.order)
  BY MoveToMruProperties DEF TierOK, TierType
<1>2. Counted(t, k, t.count[k] + 1) \in [Keys -> Nat]
  BY DEF Counted, TierOK, TierType
<1>3. OnHit(t.arc, k) \in ArcType(Keys, Slots(tier))
  BY SlotsType, OnHitType DEF TierOK, TierType
<1>4. t.arc \in ArcType(Keys, Slots(tier))
  BY DEF TierOK, TierType
<1> QED
  BY <1>1, <1>2, <1>3, <1>4 DEF Touched, TierOK, TierType

(* Popping a key keeps a tier well formed, and makes it one smaller when   *)
(* the key was in it.                                                      *)
LEMMA DroppedOK ==
    ASSUME NEW tier \in Tiers, NEW t, TierOK(t, tier), NEW k
    PROVE  /\ TierOK(Dropped(t, k), tier)
           /\ Contains(t.order, k) => Len(Dropped(t, k).order) = Len(t.order) - 1
           /\ \A x : Contains(Dropped(t, k).order, x) => Contains(t.order, x)
<1>1. t.order \in Seq(Keys) /\ IsInjective(t.order)
  BY DEF TierOK, TierType
<1>2. /\ Without(t.order, k) \in Seq(Keys)
      /\ \A x : Contains(Without(t.order, k), x) => Contains(t.order, x)
  BY <1>1, WithoutType, WithoutContains
<1>3. Contains(t.order, k) => /\ IsInjective(Without(t.order, k))
                              /\ Len(Without(t.order, k)) = Len(t.order) - 1
  BY <1>1, WithoutPresent
<1>4. ~Contains(t.order, k) => IsInjective(Without(t.order, k))
  BY <1>1, WithoutAbsent
<1>5. Counted(t, k, 0) \in [Keys -> Nat]
  BY DEF Counted, TierOK, TierType
<1>6. RemoveKey(t.arc, k) \in ArcType(Keys, Slots(tier))
  BY SlotsType, RemoveKeyType DEF TierOK, TierType
<1>7. t.arc \in ArcType(Keys, Slots(tier))
  BY DEF TierOK, TierType
<1> QED
  BY <1>2, <1>3, <1>4, <1>5, <1>6, <1>7 DEF Dropped, TierOK, TierType

(* Choosing a victim changes ARC's lists alone.                            *)
LEMMA AfterSelectionOK ==
    ASSUME NEW tier \in Tiers, NEW t, TierOK(t, tier)
    PROVE  TierOK(AfterSelection(t), tier) /\ AfterSelection(t).order = t.order
<1>1. AfterChoice(t.arc) \in ArcType(Keys, Slots(tier))
  BY SlotsType, AfterChoiceType DEF TierOK, TierType
<1> QED
  BY <1>1 DEF AfterSelection, TierOK, TierType

(* evict() keeps a tier well formed and brings nothing in.                 *)
LEMMA EvictedOK ==
    ASSUME NEW tier \in Tiers, NEW t, TierOK(t, tier)
    PROVE  /\ TierOK(Evicted(t), tier)
           /\ \A x : Contains(Evicted(t).order, x) => Contains(t.order, x)
  BY AfterSelectionOK, DroppedOK DEF Evicted

(* A new key makes a tier one larger.                                      *)
LEMMA InsertedOK ==
    ASSUME NEW tier \in Tiers, NEW t, TierOK(t, tier), NEW k \in Keys, ~Contains(t.order, k)
    PROVE  TierOK(Inserted(t, k), tier) /\ Len(Inserted(t, k).order) = Len(t.order) + 1
<1>1. /\ Append(t.order, k) \in Seq(Keys) /\ IsInjective(Append(t.order, k))
      /\ Len(Append(t.order, k)) = Len(t.order) + 1
  BY DEF Contains, IsInjective, TierOK, TierType
<1>2. Counted(t, k, 1) \in [Keys -> Nat] /\ t.arc \in ArcType(Keys, Slots(tier))
  BY DEF Counted, TierOK, TierType
<1> QED
  BY <1>1, <1>2 DEF Inserted, TierOK, TierType

(* Making room keeps a tier well formed and brings nothing in.             *)
LEMMA MadeRoomOK ==
    ASSUME NEW tier \in Tiers, NEW t, TierOK(t, tier)
    PROVE  /\ TierOK(MadeRoom(t, Slots(tier)), tier)
           /\ \A x : Contains(MadeRoom(t, Slots(tier)).order, x) => Contains(t.order, x)
  BY EvictedOK DEF MadeRoom

-----------------------------------------------------------------------------
(* A well-formed cache is a record of two well-formed tiers.               *)
LEMMA CacheOKTiers ==
    ASSUME NEW c, CacheOK(c), NEW tier \in Tiers
    PROVE  TierOK(c[tier], tier)
  BY DEF CacheOK, TierOK, Tiers

WithTier(c, tier, t) == [c EXCEPT ![tier] = t]

(* Replacing one tier by a well-formed one keeps the cache well formed.    *)
LEMMA TierReplaced ==
    ASSUME NEW c, CacheOK(c), NEW tier \in Tiers, NEW t, TierOK(t, tier)
    PROVE  /\ CacheOK(WithTier(c, tier, t))
           /\ WithTier(c, tier, t)[tier] = t
           /\ WithTier(c, tier, t).used = c.used
           /\ \A other \in Tiers \ {tier} : WithTier(c, tier, t)[other] = c[other]
  BY DEF CacheOK, TierOK, Tiers, WithTier

(* Replacing one tier by one as large leaves the sizes and counters.       *)
LEMMA TierReplacedAlike ==
    ASSUME NEW c, CacheOK(c), NEW tier \in Tiers, NEW t, TierOK(t, tier),
           Len(t.order) = Len(c[tier].order)
    PROVE  LET d == WithTier(c, tier, t)
           IN  /\ CacheOK(d) /\ d.used = c.used
               /\ \A u \in Tiers : Len(d[u].order) = Len(c[u].order)
<1> DEFINE d == WithTier(c, tier, t)
<1>1. /\ CacheOK(d) /\ d.used = c.used /\ d[tier] = t
      /\ \A other \in Tiers \ {tier} : d[other] = c[other]
  BY TierReplaced
<1> HIDE DEF d
<1>2. ASSUME NEW u \in Tiers
      PROVE  Len(d[u].order) = Len(c[u].order)
  <2>1. CASE u = tier
    BY <1>1, <2>1
  <2>2. CASE u # tier
    <3>1. d[u] = c[u]
      BY <1>1, <2>2
    <3> QED
      BY <3>1
  <2> QED
    BY <2>1, <2>2
<1> QED
  BY <1>1, <1>2 DEF d

(* Refreshing a slot counter keeps the cache well formed and the tiers as  *)
(* they are.                                                               *)
LEMMA SyncedOK ==
    ASSUME NEW c, CacheOK(c), NEW tier \in Tiers
    PROVE  /\ CacheOK(Synced(c, tier))
           /\ \A other \in Tiers : Synced(c, tier)[other] = c[other]
           /\ Synced(c, tier).used = [c.used EXCEPT ![tier] = Len(c[tier].order)]
<1>1. Len(c[tier].order) \in Nat
  BY CacheOKTiers DEF TierOK, TierType
<1> QED
  BY <1>1 DEF Synced, CacheOK, Tiers

(* The device strings select one of the two tiers, for entries and stats.  *)
LEMMA DeviceTiers ==
    \A device : TierOf(device) \in Tiers /\ StatsTier(device) \in Tiers
  BY DEF TierOf, StatsTier, Tiers

(* put() of a key that is resident: one tier is touched.                   *)
LEMMA PutRefresh ==
    ASSUME NEW c, CacheOK(c), NEW k \in Keys, NEW device \in Devices,
           Resident(c, TierOf(device), k)
    PROVE  /\ CacheOK(Put(c, k, device))
           /\ Put(c, k, device).used = c.used
           /\ Put(c, k, device)[TierOf(device)] = Touched(c[TierOf(device)], k)
           /\ \A t \in Tiers \ {TierOf(device)} : Put(c, k, device)[t] = c[t]
           /\ \A t \in Tiers : Len(Put(c, k, device)[t].order) = Len(c[t].order)
<1> DEFINE tier == TierOf(device)
           touched == Touched(c[tier], k)
<1>1. tier \in Tiers
  BY DeviceTiers
<1>2. TierOK(touched, tier) /\ Len(touched.order) = Len(c[tier].order)
  BY <1>1, CacheOKTiers, TouchedOK DEF Resident
<1>3. Put(c, k, device) = WithTier(c, tier, touched)
  BY <1>1 DEF Put, WithTier
<1> HIDE DEF tier, touched
<1>4. /\ CacheOK(Put(c, k, device))
      /\ Put(c, k, device).used = c.used
      /\ \A t \in Tiers : Len(Put(c, k, device)[t].order) = Len(c[t].order)
  BY <1>1, <1>2, <1>3, TierReplacedAlike
<1>5. /\ Put(c, k, device)[tier] = touched
      /\ \A t \in Tiers \ {tier} : Put(c, k, device)[t] = c[t]
  BY <1>1, <1>2, <1>3, TierReplaced
<1> QED
  BY <1>4, <1>5 DEF tier, touched

(* put() of a new key: room is made in one tier, the key inserted there.   *)
LEMMA PutInsert ==
    ASSUME NEW c, CacheOK(c), NEW k \in Keys, NEW device \in Devices,
           ~Resident(c, TierOf(device), k)
    PROVE  LET tier == TierOf(device)
               room == MadeRoom(c[tier], Slots(tier))
           IN  /\ CacheOK(Put(c, k, device))
               /\ Len(Put(c, k, device)[tier].order) = Len(room.order) + 1
               /\ \A t \in Tiers \ {tier} : Put(c, k, device)[t] = c[t]
               /\ Put(c, k, device).used =
                     [c.used EXCEPT ![StatsTier(device)] =
                         Len(Put(c, k, device)[StatsTier(device)].order)]
<1> DEFINE tier == TierOf(device)
           room == MadeRoom(c[tier], Slots(tier))
           filled == Inserted(room, k)
           d == WithTier(c, tier, filled)
<1>1. tier \in Tiers /\ StatsTier(device) \in Tiers
  BY DeviceTiers
<1>2. TierOK(room, tier) /\ ~Contains(room.order, k)
  BY <1>1, CacheOKTiers, MadeRoomOK DEF Resident
<1>3. TierOK(filled, tier) /\ Len(filled.order) = Len(room.order) + 1
  BY <1>1, <1>2, InsertedOK
<1>4. Put(c, k, device) = Synced(d, StatsTier(device))
  BY DEF Put, WithTier
<1> HIDE DEF tier, room, filled
<1>5. /\ CacheOK(d) /\ d[tier] = filled /\ d.used = c.used
      /\ \A t \in Tiers \ {tier} : d[t] = c[t]
  BY <1>1, <1>3, TierReplaced
<1> HIDE DEF d
<1>6. /\ CacheOK(Put(c, k, device))
      /\ \A t \in Tiers : Put(c, k, device)[t] = d[t]
      /\ Put(c, k, device).used =
            [c.used EXCEPT ![StatsTier(device)] = Len(d[StatsTier(device)].order)]
  BY <1>1, <1>4, <1>5, SyncedOK
<1> QED
  BY <1>1, <1>3, <1>5, <1>6 DEF tier, room

(* The tier put() leaves when it inserts.                                  *)
LEMMA PutInserted ==
    ASSUME NEW c, CacheOK(c), NEW k \in Keys, NEW device \in Devices,
           ~Resident(c, TierOf(device), k)
    PROVE  Put(c, k, device)[TierOf(device)]
              = Inserted(MadeRoom(c[TierOf(device)], Slots(TierOf(device))), k)
<1> DEFINE tier == TierOf(device)
           filled == Inserted(MadeRoom(c[tier], Slots(tier)), k)
           d == WithTier(c, tier, filled)
<1>1. tier \in Tiers /\ StatsTier(device) \in Tiers
  BY DeviceTiers
<1>2. /\ TierOK(MadeRoom(c[tier], Slots(tier)), tier)
      /\ ~Contains(MadeRoom(c[tier], Slots(tier)).order, k)
  BY <1>1, CacheOKTiers, MadeRoomOK DEF Resident
<1>3. TierOK(filled, tier)
  BY <1>1, <1>2, InsertedOK
<1>4. Put(c, k, device) = Synced(d, StatsTier(device))
  BY DEF Put, WithTier
<1> HIDE DEF tier, filled
<1>5. CacheOK(d) /\ d[tier] = filled
  BY <1>1, <1>3, TierReplaced
<1> HIDE DEF d
<1>6. \A t \in Tiers : Synced(d, StatsTier(device))[t] = d[t]
  BY <1>1, <1>5, SyncedOK
<1>7. Put(c, k, device)[tier] = filled
  BY <1>1, <1>4, <1>5, <1>6
<1> QED
  BY <1>7 DEF tier, filled

(* evict() of a tier that yields a victim.                                 *)
LEMMA EvictVictim ==
    ASSUME NEW c, CacheOK(c), NEW device \in Devices, Evicts(c[TierOf(device)])
    PROVE  LET tier == TierOf(device)
           IN  /\ CacheOK(Evict(c, device))
               /\ Evict(c, device)[tier].order = Evicted(c[tier]).order
               /\ \A t \in Tiers \ {tier} : Evict(c, device)[t] = c[t]
               /\ Evict(c, device).used =
                     [c.used EXCEPT ![StatsTier(device)] =
                         Len(Evict(c, device)[StatsTier(device)].order)]
<1> DEFINE tier == TierOf(device)
           shrunk == Evicted(c[tier])
           d == WithTier(c, tier, shrunk)
<1>1. tier \in Tiers /\ StatsTier(device) \in Tiers
  BY DeviceTiers
<1>2. TierOK(shrunk, tier)
  BY <1>1, CacheOKTiers, EvictedOK
<1>3. Evict(c, device) = Synced(d, StatsTier(device))
  BY DEF Evict, WithTier
<1> HIDE DEF tier, shrunk
<1>4. /\ CacheOK(d) /\ d[tier] = shrunk /\ d.used = c.used
      /\ \A t \in Tiers \ {tier} : d[t] = c[t]
  BY <1>1, <1>2, TierReplaced
<1> HIDE DEF d
<1>5. /\ CacheOK(Evict(c, device))
      /\ \A t \in Tiers : Evict(c, device)[t] = d[t]
      /\ Evict(c, device).used =
            [c.used EXCEPT ![StatsTier(device)] = Len(d[StatsTier(device)].order)]
  BY <1>1, <1>3, <1>4, SyncedOK
<1> QED
  BY <1>1, <1>4, <1>5 DEF tier, shrunk

(* demote_to_cpu() of an expert on the GPU.                                *)
LEMMA DemoteResident ==
    ASSUME NEW c, CacheOK(c), NEW k \in Keys, Resident(c, "gpu", k)
    PROVE  /\ CacheOK(Demote(c, k))
           /\ Demote(c, k)["gpu"] = Dropped(c["gpu"], k)
           /\ Len(Demote(c, k)["gpu"].order) = Len(c["gpu"].order) - 1
           /\ Demote(c, k)["cpu"] = c["cpu"]
           /\ Demote(c, k).used =
                 [c.used EXCEPT !["gpu"] = Len(Demote(c, k)["gpu"].order)]
<1> DEFINE shrunk == Dropped(c["gpu"], k)
           d == WithTier(c, "gpu", shrunk)
<1>0. "gpu" \in Tiers /\ "cpu" \in Tiers \ {"gpu"} /\ Contains(c["gpu"].order, k)
  BY DEF Tiers, Resident
<1>1. TierOK(c["gpu"], "gpu")
  BY <1>0, CacheOKTiers
<1>2. TierOK(shrunk, "gpu") /\ Len(shrunk.order) = Len(c["gpu"].order) - 1
  BY <1>0, <1>1, DroppedOK
<1>3. Demote(c, k) = Synced(d, "gpu")
  BY DEF Demote, WithTier
<1> HIDE DEF shrunk
<1>4. CacheOK(d) /\ d["gpu"] = shrunk /\ d.used = c.used /\ d["cpu"] = c["cpu"]
  BY <1>0, <1>2, TierReplaced
<1> HIDE DEF d
<1>5. /\ CacheOK(Synced(d, "gpu"))
      /\ \A t \in Tiers : Synced(d, "gpu")[t] = d[t]
      /\ Synced(d, "gpu").used = [d.used EXCEPT !["gpu"] = Len(d["gpu"].order)]
  BY <1>0, <1>4, SyncedOK
<1> QED
  BY <1>0, <1>2, <1>3, <1>4, <1>5 DEF shrunk

(* get(): a hit touches the tier that answers; a miss may teach the CPU    *)
(* tier's ARC lists.  No one enters or leaves a tier.                      *)
LEMMA GetOK ==
    ASSUME NEW c, CacheOK(c), NEW k \in Keys
    PROVE  /\ CacheOK(Get(c, k))
           /\ Get(c, k).used = c.used
           /\ \A t \in Tiers : Len(Get(c, k)[t].order) = Len(c[t].order)
<1>0. "gpu" \in Tiers /\ "cpu" \in Tiers
  BY DEF Tiers
<1>1. CASE Resident(c, "gpu", k)
  <2>1. /\ TierOK(Touched(c["gpu"], k), "gpu")
        /\ Len(Touched(c["gpu"], k).order) = Len(c["gpu"].order)
    BY <1>0, <1>1, CacheOKTiers, TouchedOK DEF Resident
  <2>2. Get(c, k) = WithTier(c, "gpu", Touched(c["gpu"], k))
    BY <1>1 DEF Get, WithTier
  <2> QED
    BY <1>0, <2>1, <2>2, TierReplacedAlike
<1>2. CASE ~Resident(c, "gpu", k) /\ Resident(c, "cpu", k)
  <2>1. /\ TierOK(Touched(c["cpu"], k), "cpu")
        /\ Len(Touched(c["cpu"], k).order) = Len(c["cpu"].order)
    BY <1>0, <1>2, CacheOKTiers, TouchedOK DEF Resident
  <2>2. Get(c, k) = WithTier(c, "cpu", Touched(c["cpu"], k))
    BY <1>2 DEF Get, WithTier
  <2> QED
    BY <1>0, <2>1, <2>2, TierReplacedAlike
<1>3. CASE /\ ~Resident(c, "gpu", k) /\ ~Resident(c, "cpu", k)
           /\ Policy = "arc"
  <2> DEFINE taught == [c["cpu"] EXCEPT !.arc = OnMiss(c["cpu"].arc, k, CpuSlots)]
  <2>1. TierOK(c["cpu"], "cpu")
    BY <1>0, CacheOKTiers
  <2>2. OnMiss(c["cpu"].arc, k, CpuSlots) \in ArcType(Keys, CpuSlots)
    BY <2>1, OnMissType DEF TierOK, TierType, Slots
  <2>3. TierOK(taught, "cpu") /\ taught.order = c["cpu"].order
    BY <2>1, <2>2 DEF TierOK, TierType, Slots
  <2>4. Get(c, k) = WithTier(c, "cpu", taught)
    BY <1>3 DEF Get, WithTier
  <2> HIDE DEF taught
  <2> QED
    BY <1>0, <2>3, <2>4, TierReplacedAlike
<1>4. CASE /\ ~Resident(c, "gpu", k) /\ ~Resident(c, "cpu", k)
           /\ Policy # "arc"
  BY <1>4 DEF Get
<1> QED
  BY <1>1, <1>2, <1>3, <1>4

-----------------------------------------------------------------------------
(* A call leaves the cache well formed.                                    *)
LEMMA CallsOK ==
    ASSUME NEW c, CacheOK(c)
    PROVE  /\ \A k \in Keys : CacheOK(Get(c, k)) /\ CacheOK(Demote(c, k))
           /\ \A device \in Devices : CacheOK(Evict(c, device))
           /\ \A k \in Keys, device \in Devices : CacheOK(Put(c, k, device))
<1>1. ASSUME NEW k \in Keys, NEW device \in Devices
      PROVE  CacheOK(Put(c, k, device))
  BY PutRefresh, PutInsert
<1>2. ASSUME NEW device \in Devices
      PROVE  CacheOK(Evict(c, device))
  BY EvictVictim DEF Evict
<1>3. ASSUME NEW k \in Keys
      PROVE  CacheOK(Demote(c, k))
  BY DemoteResident DEF Demote
<1> QED
  BY <1>1, <1>2, <1>3, GetOK

(* The constructor leaves two empty tiers.                                 *)
LEMMA InitOK == CacheOK(InitCache) /\ \A t \in Tiers : /\ InitCache[t].order = <<>>
                                                      /\ InitCache.used[t] = 0
<1>1. InitArc \in ArcType(Keys, GpuSlots) /\ InitArc \in ArcType(Keys, CpuSlots)
  BY InitArcType
<1> QED
  BY <1>1 DEF CacheOK, InitCache, EmptyTier, TierType, Slots, Tiers, IsInjective

-----------------------------------------------------------------------------
CountersExact(c) == \A t \in Tiers : c.used[t] = Len(c[t].order)

(* When the device a caller passes selects the same tier for the entries   *)
(* and for the statistics, every call keeps the slot counters exact.       *)
LEMMA CallsKeepCounts ==
    ASSUME NEW c, CacheOK(c), CountersExact(c)
    PROVE  /\ \A k \in Keys : CountersExact(Get(c, k)) /\ CountersExact(Demote(c, k))
           /\ \A device \in Devices \ {"gpu"} : CountersExact(Evict(c, device))
           /\ \A k \in Keys, device \in Devices \ {"gpu"} :
                 CountersExact(Put(c, k, device))
<1>0. /\ c.used \in [Tiers -> Nat] /\ "gpu" \in Tiers
      /\ \A t \in Tiers : t # "gpu" => t = "cpu"
      /\ \A device \in Devices \ {"gpu"} :
            StatsTier(device) = TierOf(device) /\ TierOf(device) \in Tiers
  BY DEF CacheOK, Devices, StatsTier, TierOf, Tiers
<1>1. ASSUME NEW k \in Keys
      PROVE  CountersExact(Get(c, k))
  BY GetOK DEF CountersExact
<1>2. ASSUME NEW k \in Keys, NEW device \in Devices \ {"gpu"}
      PROVE  CountersExact(Put(c, k, device))
  <2>1. CASE Resident(c, TierOf(device), k)
    BY <2>1, PutRefresh DEF CountersExact
  <2>2. CASE ~Resident(c, TierOf(device), k)
    <3> DEFINE tier == TierOf(device)
               d == Put(c, k, device)
    <3>1. /\ \A t \in Tiers \ {tier} : d[t] = c[t]
          /\ d.used = [c.used EXCEPT ![tier] = Len(d[tier].order)]
      BY <1>0, <2>2, PutInsert
    <3> HIDE DEF d, tier
    <3> QED
      BY <1>0, <3>1 DEF CountersExact, d, tier
  <2> QED
    BY <2>1, <2>2
<1>3. ASSUME NEW device \in Devices \ {"gpu"}
      PROVE  CountersExact(Evict(c, device))
  <2>1. CASE ~Evicts(c[TierOf(device)])
    BY <2>1 DEF Evict
  <2>2. CASE Evicts(c[TierOf(device)])
    <3> DEFINE tier == TierOf(device)
               d == Evict(c, device)
    <3>1. /\ \A t \in Tiers \ {tier} : d[t] = c[t]
          /\ d.used = [c.used EXCEPT ![tier] = Len(d[tier].order)]
      BY <1>0, <2>2, EvictVictim
    <3> HIDE DEF d, tier
    <3> QED
      BY <1>0, <3>1 DEF CountersExact, d, tier
  <2> QED
    BY <2>1, <2>2
<1>4. ASSUME NEW k \in Keys
      PROVE  CountersExact(Demote(c, k))
  <2>1. CASE ~Resident(c, "gpu", k)
    BY <2>1 DEF Demote
  <2>2. CASE Resident(c, "gpu", k)
    <3> DEFINE d == Demote(c, k)
    <3>1. /\ d["cpu"] = c["cpu"]
          /\ d.used = [c.used EXCEPT !["gpu"] = Len(d["gpu"].order)]
      BY <2>2, DemoteResident
    <3> HIDE DEF d
    <3> QED
      BY <1>0, <3>1 DEF CountersExact, d
  <2> QED
    BY <2>1, <2>2
<1> QED
  BY <1>1, <1>2, <1>3, <1>4

-----------------------------------------------------------------------------
(* "Colder" orders the entries of a tier strictly.                         *)
LEMMA ColderOrder ==
    ASSUME NEW tier \in Tiers, NEW t, TierOK(t, tier), NEW i \in 1..Len(t.order),
           NEW j \in 1..Len(t.order), NEW l \in 1..Len(t.order)
    PROVE  /\ ~Colder(t, i, i)
           /\ Colder(t, i, j) /\ Colder(t, j, l) => Colder(t, i, l)
<1> DEFINE uses(n) == t.count[t.order[n]]
<1>1. Len(t.order) \in Nat /\ \A n \in 1..Len(t.order) : uses(n) \in Nat
  BY DEF TierOK, TierType
<1>2. \A m, n : Colder(t, m, n) <=> uses(m) < uses(n) \/ (uses(m) = uses(n) /\ m < n)
  BY DEF Colder
<1> HIDE DEF uses
<1>3. uses(i) \in Nat /\ uses(j) \in Nat /\ uses(l) \in Nat
      /\ i \in Int /\ j \in Int /\ l \in Int
  BY <1>1
<1>4. ~Colder(t, i, i)
  BY <1>2, <1>3
<1>5. Colder(t, i, j) /\ Colder(t, j, l) => Colder(t, i, l)
  BY <1>2, <1>3
<1> QED
  BY <1>4, <1>5

(* _lfu_victim returns a coldest entry of the tier: some entry of a        *)
(* non-empty tier has no colder one.                                       *)
LEMMA LfuVictimColdest ==
    ASSUME NEW tier \in Tiers, NEW t, TierOK(t, tier), t.order # <<>>
    PROVE  \E n \in 1..Len(t.order) : /\ LfuVictim(t) = t.order[n]
                                      /\ \A j \in 1..Len(t.order) : ~Colder(t, j, n)
<1> DEFINE I == 1..Len(t.order)
           ColderThan(i) == {j \in I : Colder(t, j, i)}
           Sets == {ColderThan(i) : i \in I}
<1>1. I # {} /\ IsFiniteSet(I)
  <2>1. Len(t.order) \in Nat /\ Len(t.order) # 0
    BY DEF TierOK, TierType
  <2>2. IsFiniteSet(I)
    <3>1. 1 \in Int /\ Len(t.order) \in Int
      BY <2>1
    <3> QED
      BY <3>1, FS_Interval
  <2>3. 1 \in I
    BY <2>1
  <2> HIDE DEF I
  <2> QED
    BY <2>2, <2>3
<1>2. Sets \subseteq FiniteSubsetsOf(I) /\ Sets # {}
  <2>1. \A i : ColderThan(i) \subseteq I
    OBVIOUS
  <2> HIDE DEF ColderThan, I
  <2>2. Sets \subseteq SUBSET I /\ Sets # {}
    BY <1>1, <2>1
  <2> QED
    BY <1>1, <2>2, FS_FiniteSubsetsOfFinite
<1>3. PICK i \in I : \A j \in I : <<ColderThan(j), ColderThan(i)>> \notin StrictSubsetOrdering(I)
  <2>1. PICK S \in Sets : \A T \in Sets : <<T, S>> \notin StrictSubsetOrdering(I)
    <3> HIDE DEF Sets, I
    <3> QED
      BY <1>2, FS_StrictSubsetOrderingWellFounded, WFMin
  <2> QED
    BY <2>1
<1>4. ASSUME NEW j \in I, Colder(t, j, i)
      PROVE  FALSE
  <2>1. ColderThan(j) \subseteq ColderThan(i)
    BY <1>4, ColderOrder
  <2>2. j \in ColderThan(i) /\ j \notin ColderThan(j)
    BY <1>4, ColderOrder
  <2>3. <<ColderThan(j), ColderThan(i)>> \in StrictSubsetOrdering(I)
    BY <2>1, <2>2 DEF StrictSubsetOrdering
  <2> QED
    BY <1>3, <2>3
<1>5. \E n \in 1..Len(t.order) : \A j \in 1..Len(t.order) : ~Colder(t, j, n)
  BY <1>4
<1> QED
  BY <1>5 DEF LfuVictim

(* It is an entry of the tier.                                             *)
LEMMA LfuVictimResident ==
    ASSUME NEW tier \in Tiers, NEW t, TierOK(t, tier), t.order # <<>>
    PROVE  Contains(t.order, LfuVictim(t))
  BY LfuVictimColdest DEF Contains

(* Under LRU and LFU a tier that is not empty has a victim, and evicting   *)
(* it makes the tier one smaller.                                          *)
LEMMA EvictedSmaller ==
    ASSUME NEW tier \in Tiers, NEW t, TierOK(t, tier), t.order # <<>>, Policy # "arc"
    PROVE  Evicts(t) /\ Len(Evicted(t).order) = Len(t.order) - 1
<1>1. Contains(t.order, LruVictim(t))
  BY DEF TierOK, TierType, Contains, LruVictim
<1>2. Contains(t.order, Victim(t))
  BY <1>1, LfuVictimResident DEF Victim
<1>3. Victim(t) \in Keys
  BY <1>2 DEF Contains, TierOK, TierType
<1>4. Evicts(t) /\ AfterSelection(t) = t
  BY <1>3 DEF Evicts, AfterSelection
<1> QED
  BY <1>2, <1>4, DroppedOK DEF Evicted

-----------------------------------------------------------------------------
\* The experts of a tier, and of a tier of a cache.
HeldIn(t) == ToSet(t.order)

Held(c, tier) == HeldIn(c[tier])

(* The experts of a tier are those that are resident there.                *)
LEMMA HeldResident ==
    ASSUME NEW tier \in Tiers, NEW t, TierOK(t, tier)
    PROVE  /\ \A x : x \in HeldIn(t) <=> Contains(t.order, x)
           /\ HeldIn(t) \subseteq Keys
           /\ HeldIn(t) = {} <=> t.order = <<>>
           /\ IsFiniteSet(HeldIn(t)) /\ Cardinality(HeldIn(t)) = Len(t.order)
<1>1. /\ t.order \in Seq(Keys) /\ Len(t.order) \in Nat
      /\ DOMAIN t.order = 1..Len(t.order)
      /\ \A i, j \in 1..Len(t.order) : t.order[i] = t.order[j] => i = j
  BY DEF TierOK, TierType, IsInjective
<1>2. HeldIn(t) = {t.order[i] : i \in 1..Len(t.order)}
  BY <1>1 DEF HeldIn, ToSet
<1>3. \A x : x \in HeldIn(t) <=> Contains(t.order, x)
  BY <1>1, <1>2 DEF Contains
<1>4. HeldIn(t) \subseteq Keys
  BY <1>1, <1>2
<1>5. HeldIn(t) = {} <=> t.order = <<>>
  <2>1. t.order # <<>> => t.order[1] \in HeldIn(t)
    BY <1>1, <1>2
  <2>2. t.order = <<>> => HeldIn(t) = {}
    BY <1>1, <1>2
  <2> QED
    BY <2>1, <2>2
<1>6. IsFiniteSet(1..Len(t.order)) /\ Cardinality(1..Len(t.order)) = Len(t.order)
  BY <1>1, FS_Interval
<1>7. t.order \in Bijection(1..Len(t.order), HeldIn(t))
  <2>1. t.order \in [1..Len(t.order) -> HeldIn(t)]
    BY <1>1, <1>2
  <2>2. t.order \in Injection(1..Len(t.order), HeldIn(t))
    BY <1>1, <2>1, Fun_IsInj
  <2>3. t.order \in Surjection(1..Len(t.order), HeldIn(t))
    BY <1>2, <2>1, Fun_IsSurj
  <2> QED
    BY <2>2, <2>3, Fun_IsBij
<1>8. IsFiniteSet(HeldIn(t)) /\ Cardinality(HeldIn(t)) = Len(t.order)
  BY <1>6, <1>7, FS_Bijection DEF ExistsBijection
<1> QED
  BY <1>3, <1>4, <1>5, <1>8

(* A hit moves no one in or out of a tier.                                 *)
LEMMA TouchedHeld ==
    ASSUME NEW tier \in Tiers, NEW t, TierOK(t, tier), NEW k \in Keys, Contains(t.order, k)
    PROVE  HeldIn(Touched(t, k)) = HeldIn(t)
<1> DEFINE w == Without(t.order, k)
<1>1. t.order \in Seq(Keys) /\ IsInjective(t.order) /\ k \in HeldIn(t)
  BY HeldResident DEF TierOK, TierType
<1>2. w \in Seq(Keys) /\ ToSet(w) = HeldIn(t) \ {k}
  BY <1>1, WithoutType, WithoutSet DEF HeldIn
<1>3. Touched(t, k).order = Append(w, k)
  BY DEF Touched, MoveToMru
<1> HIDE DEF w
<1>4. ToSet(Append(w, k)) = ToSet(w) \cup {k}
  BY <1>2, AppendSet
<1> QED
  BY <1>1, <1>2, <1>3, <1>4 DEF HeldIn

(* A popped expert leaves its tier alone.                                  *)
LEMMA DroppedHeld ==
    ASSUME NEW tier \in Tiers, NEW t, TierOK(t, tier), NEW k
    PROVE  HeldIn(Dropped(t, k)) = HeldIn(t) \ {k}
  BY WithoutSet DEF HeldIn, Dropped, TierOK, TierType

(* An inserted expert joins its tier.                                      *)
LEMMA InsertedHeld ==
    ASSUME NEW tier \in Tiers, NEW t, TierOK(t, tier), NEW k \in Keys
    PROVE  HeldIn(Inserted(t, k)) = HeldIn(t) \cup {k}
<1>1. t.order \in Seq(Keys)
  BY DEF TierOK, TierType
<1>2. ToSet(Append(t.order, k)) = ToSet(t.order) \cup {k}
  BY <1>1, AppendSet
<1> QED
  BY <1>2 DEF HeldIn, Inserted

(* The victim of a tier is one of its experts, whatever the policy.        *)
LEMMA VictimHeld ==
    ASSUME NEW tier \in Tiers, NEW t, TierOK(t, tier), Evicts(t)
    PROVE  Victim(t) \in HeldIn(t)
<1>1. t.order \in Seq(Keys) /\ t.order # <<>> /\ Victim(t) # NoKey
  BY DEF Evicts, TierOK, TierType
<1>2. Contains(t.order, LruVictim(t))
  BY <1>1 DEF Contains, LruVictim
<1>3. Contains(t.order, Victim(t))
  BY <1>1, <1>2, LfuVictimResident DEF Victim, ArcVictim
<1> QED
  BY <1>3, HeldResident

(* evict() takes one expert from a tier, or none.                          *)
LEMMA EvictedHeld ==
    ASSUME NEW tier \in Tiers, NEW t, TierOK(t, tier)
    PROVE  \/ ~Evicts(t) /\ HeldIn(Evicted(t)) = HeldIn(t)
           \/ Evicts(t) /\ \E v \in HeldIn(t) : HeldIn(Evicted(t)) = HeldIn(t) \ {v}
<1>1. CASE ~Evicts(t)
  BY <1>1 DEF Evicted
<1>2. CASE Evicts(t)
  <2>1. TierOK(AfterSelection(t), tier) /\ HeldIn(AfterSelection(t)) = HeldIn(t)
    BY AfterSelectionOK DEF HeldIn
  <2>2. Victim(t) \in HeldIn(t) /\ Evicted(t) = Dropped(AfterSelection(t), Victim(t))
    BY <1>2, VictimHeld DEF Evicted
  <2>3. HeldIn(Evicted(t)) = HeldIn(t) \ {Victim(t)}
    BY <2>1, <2>2, DroppedHeld
  <2> QED
    BY <1>2, <2>2, <2>3
<1> QED
  BY <1>1, <1>2

(* Making room takes at most one expert from a tier, and only from a full  *)
(* one; it fails to only for an empty tier, or for the ARC policy.         *)
LEMMA MadeRoomHeld ==
    ASSUME NEW tier \in Tiers, NEW t, TierOK(t, tier)
    PROVE  LET room == HeldIn(MadeRoom(t, Slots(tier)))
           IN  \/ Len(t.order) < Slots(tier) /\ room = HeldIn(t)
               \/ /\ Len(t.order) >= Slots(tier)
                  /\ t.order = <<>> \/ Policy = "arc"
                  /\ room = HeldIn(t)
               \/ /\ Len(t.order) >= Slots(tier)
                  /\ \E v \in HeldIn(t) : room = HeldIn(t) \ {v}
<1>1. Len(t.order) \in Nat /\ Slots(tier) \in Nat
  BY SlotsType DEF TierOK, TierType
<1>2. CASE Len(t.order) < Slots(tier)
  BY <1>1, <1>2 DEF MadeRoom
<1>3. CASE Len(t.order) >= Slots(tier)
  <2>1. MadeRoom(t, Slots(tier)) = Evicted(t)
    BY <1>3 DEF MadeRoom
  <2>2. ~Evicts(t) => t.order = <<>> \/ Policy = "arc"
    BY EvictedSmaller
  <2> QED
    BY <1>3, <2>1, <2>2, EvictedHeld
<1> QED
  BY <1>1, <1>2, <1>3

(* A lookup changes no one's residency.                                    *)
LEMMA GetHeld ==
    ASSUME NEW c, CacheOK(c), NEW k \in Keys, NEW tier \in Tiers
    PROVE  Held(Get(c, k), tier) = Held(c, tier)
<1>0. "gpu" \in Tiers /\ "cpu" \in Tiers
  BY DEF Tiers
<1>1. /\ \A u \in Tiers : TierOK(c[u], u)
      /\ \A u \in Tiers : Contains(c[u].order, k) => HeldIn(Touched(c[u], k)) = HeldIn(c[u])
  BY CacheOKTiers, TouchedHeld
<1>2. CASE Resident(c, "gpu", k)
  <2> DEFINE t == Touched(c["gpu"], k)
  <2>1. Get(c, k) = WithTier(c, "gpu", t) /\ HeldIn(t) = HeldIn(c["gpu"])
    BY <1>0, <1>1, <1>2 DEF Get, WithTier, Resident
  <2>2. TierOK(t, "gpu")
    BY <1>0, <1>1, <1>2, TouchedOK DEF Resident
  <2> HIDE DEF t
  <2> QED
    BY <1>0, <2>1, <2>2, TierReplaced DEF Held
<1>3. CASE ~Resident(c, "gpu", k) /\ Resident(c, "cpu", k)
  <2> DEFINE t == Touched(c["cpu"], k)
  <2>1. Get(c, k) = WithTier(c, "cpu", t) /\ HeldIn(t) = HeldIn(c["cpu"])
    BY <1>0, <1>1, <1>3 DEF Get, WithTier, Resident
  <2>2. TierOK(t, "cpu")
    BY <1>0, <1>1, <1>3, TouchedOK DEF Resident
  <2> HIDE DEF t
  <2> QED
    BY <1>0, <2>1, <2>2, TierReplaced DEF Held
<1>4. CASE /\ ~Resident(c, "gpu", k) /\ ~Resident(c, "cpu", k)
           /\ Policy = "arc"
  <2> DEFINE t == [c["cpu"] EXCEPT !.arc = OnMiss(c["cpu"].arc, k, CpuSlots)]
  <2>1. Get(c, k) = WithTier(c, "cpu", t)
    BY <1>4 DEF Get, WithTier
  <2>2. OnMiss(c["cpu"].arc, k, CpuSlots) \in ArcType(Keys, CpuSlots)
    BY <1>0, <1>1, OnMissType DEF TierOK, TierType, Slots
  <2>3. TierOK(t, "cpu") /\ HeldIn(t) = HeldIn(c["cpu"])
    BY <1>0, <1>1, <2>2 DEF TierOK, TierType, Slots, HeldIn
  <2> HIDE DEF t
  <2> QED
    BY <1>0, <2>1, <2>3, TierReplaced DEF Held
<1>5. CASE /\ ~Resident(c, "gpu", k) /\ ~Resident(c, "cpu", k)
           /\ Policy # "arc"
  BY <1>5 DEF Get
<1> QED
  BY <1>2, <1>3, <1>4, <1>5

(* put() of a resident expert changes no one's residency.  put() of        *)
(* another adds it to one tier and displaces at most one expert of it.     *)
LEMMA PutHeld ==
    ASSUME NEW c, CacheOK(c), NEW k \in Keys, NEW device \in Devices
    PROVE  LET tier == TierOf(device)
               before == Held(c, tier)
               after == Held(Put(c, k, device), tier)
           IN  /\ \A t \in Tiers \ {tier} : Put(c, k, device)[t] = c[t]
               /\ k \in before => after = before
               /\ k \notin before =>
                     \/ Len(c[tier].order) < Slots(tier) /\ after = before \cup {k}
                     \/ /\ Len(c[tier].order) >= Slots(tier)
                        /\ c[tier].order = <<>> \/ Policy = "arc"
                        /\ after = before \cup {k}
                     \/ /\ Len(c[tier].order) >= Slots(tier)
                        /\ \E v \in before : after = (before \ {v}) \cup {k}
<1> DEFINE tier == TierOf(device)
           before == Held(c, tier)
           d == Put(c, k, device)
           room == MadeRoom(c[tier], Slots(tier))
<1>1. tier \in Tiers /\ TierOK(c[tier], tier)
  BY DeviceTiers, CacheOKTiers
<1>2. k \in before <=> Resident(c, tier, k)
  BY <1>1, HeldResident DEF Held, Resident
<1>3. CASE k \in before
  <2>1. d[tier] = Touched(c[tier], k) /\ \A t \in Tiers \ {tier} : d[t] = c[t]
    BY <1>2, <1>3, PutRefresh
  <2>2. HeldIn(Touched(c[tier], k)) = before
    BY <1>1, <1>2, <1>3, TouchedHeld DEF Held, Resident
  <2> QED
    BY <1>3, <2>1, <2>2 DEF Held
<1>4. CASE k \notin before
  <2>0. ~Resident(c, tier, k)
    BY <1>2, <1>4
  <2>1. d[tier] = Inserted(room, k) /\ \A t \in Tiers \ {tier} : d[t] = c[t]
    <3>1. Put(c, k, device)[TierOf(device)]
             = Inserted(MadeRoom(c[TierOf(device)], Slots(TierOf(device))), k)
      BY <2>0, PutInserted
    <3>2. \A t \in Tiers \ {TierOf(device)} : Put(c, k, device)[t] = c[t]
      BY <2>0, PutInsert, Zenon
    <3> QED
      BY <3>1, <3>2
  <2>2. TierOK(room, tier)
    BY <1>1, MadeRoomOK
  <2>3. HeldIn(Inserted(room, k)) = HeldIn(room) \cup {k}
    BY <1>1, <2>2, InsertedHeld
  <2>4. \/ Len(c[tier].order) < Slots(tier) /\ HeldIn(room) = before
        \/ /\ Len(c[tier].order) >= Slots(tier)
           /\ c[tier].order = <<>> \/ Policy = "arc"
           /\ HeldIn(room) = before
        \/ /\ Len(c[tier].order) >= Slots(tier)
           /\ \E v \in before : HeldIn(room) = before \ {v}
    BY <1>1, MadeRoomHeld DEF Held
  <2>5. Held(d, tier) = HeldIn(room) \cup {k}
    BY <2>1, <2>3 DEF Held
  <2> HIDE DEF tier, before, d, room
  <2>6. \A t \in Tiers \ {tier} : d[t] = c[t]
    BY <2>1
  <2>7. \/ Len(c[tier].order) < Slots(tier) /\ Held(d, tier) = before \cup {k}
        \/ /\ Len(c[tier].order) >= Slots(tier)
           /\ c[tier].order = <<>> \/ Policy = "arc"
           /\ Held(d, tier) = before \cup {k}
        \/ /\ Len(c[tier].order) >= Slots(tier)
           /\ \E v \in before : Held(d, tier) = (before \ {v}) \cup {k}
    BY <2>4, <2>5
  <2> QED
    BY <1>4, <2>6, <2>7 DEF tier, before, d
<1> QED
  BY <1>3, <1>4

(* demote_to_cpu() takes its expert from the GPU tier.                     *)
LEMMA DemoteHeld ==
    ASSUME NEW c, CacheOK(c), NEW k \in Keys
    PROVE  /\ Held(Demote(c, k), "gpu") = Held(c, "gpu") \ {k}
           /\ Held(Demote(c, k), "cpu") = Held(c, "cpu")
<1>1. "gpu" \in Tiers /\ TierOK(c["gpu"], "gpu")
  BY CacheOKTiers DEF Tiers
<1>2. k \in Held(c, "gpu") <=> Resident(c, "gpu", k)
  BY <1>1, HeldResident DEF Held, Resident
<1>3. CASE Resident(c, "gpu", k)
  <2>1. /\ Demote(c, k)["gpu"] = Dropped(c["gpu"], k)
        /\ Demote(c, k)["cpu"] = c["cpu"]
    BY <1>3, DemoteResident
  <2>2. HeldIn(Dropped(c["gpu"], k)) = HeldIn(c["gpu"]) \ {k}
    BY <1>1, DroppedHeld
  <2> QED
    BY <2>1, <2>2 DEF Held
<1>4. CASE ~Resident(c, "gpu", k)
  BY <1>2, <1>4 DEF Demote
<1> QED
  BY <1>3, <1>4

(* evict() takes one expert from one tier, or changes nothing.             *)
LEMMA EvictHeld ==
    ASSUME NEW c, CacheOK(c), NEW device \in Devices
    PROVE  LET tier == TierOf(device)
               d == Evict(c, device)
           IN  \/ d = c
               \/ /\ \A t \in Tiers \ {tier} : d[t] = c[t]
                  /\ \E v \in Held(c, tier) : Held(d, tier) = Held(c, tier) \ {v}
<1> DEFINE tier == TierOf(device)
           d == Evict(c, device)
<1>1. tier \in Tiers /\ TierOK(c[tier], tier)
  BY DeviceTiers, CacheOKTiers
<1>2. CASE ~Evicts(c[tier])
  BY <1>2 DEF Evict
<1>3. CASE Evicts(c[tier])
  <2>1. d[tier].order = Evicted(c[tier]).order /\ \A t \in Tiers \ {tier} : d[t] = c[t]
    BY <1>3, EvictVictim
  <2>2. \E v \in HeldIn(c[tier]) : HeldIn(Evicted(c[tier])) = HeldIn(c[tier]) \ {v}
    BY <1>1, <1>3, EvictedHeld
  <2> QED
    BY <2>1, <2>2 DEF Held, HeldIn
<1> QED
  BY <1>2, <1>3

-----------------------------------------------------------------------------
Fits(c) == \A t \in Tiers : Len(c[t].order) <= Larger(1, Slots(t))

(* A tier within its slots has room for one more once room is made.        *)
LEMMA RoomForOne ==
    ASSUME NEW tier \in Tiers, NEW t, TierOK(t, tier), Policy # "arc",
           Len(t.order) <= Larger(1, Slots(tier))
    PROVE  Len(MadeRoom(t, Slots(tier)).order) + 1 <= Larger(1, Slots(tier))
<1>1. Slots(tier) \in Nat /\ Len(t.order) \in Nat
  BY SlotsType DEF TierOK, TierType
<1>2. CASE Len(t.order) < Slots(tier)
  BY <1>1, <1>2 DEF MadeRoom, Larger
<1>3. CASE Len(t.order) >= Slots(tier) /\ t.order = <<>>
  BY <1>1, <1>3 DEF MadeRoom, Evicted, Evicts, Larger
<1>4. CASE Len(t.order) >= Slots(tier) /\ t.order # <<>>
  BY <1>1, <1>4, EvictedSmaller DEF MadeRoom, Larger
<1> QED
  BY <1>1, <1>2, <1>3, <1>4

(* No call takes a tier beyond its slots.                                  *)
LEMMA CallsFit ==
    ASSUME NEW c, CacheOK(c), Fits(c), Policy # "arc"
    PROVE  /\ \A k \in Keys : Fits(Get(c, k)) /\ Fits(Demote(c, k))
           /\ \A device \in Devices : Fits(Evict(c, device))
           /\ \A k \in Keys, device \in Devices : Fits(Put(c, k, device))
<1>0. \A t \in Tiers : Len(c[t].order) \in Nat /\ Slots(t) \in Nat /\ TierOK(c[t], t)
  BY SlotsType, CacheOKTiers DEF TierOK, TierType
<1>1. ASSUME NEW k \in Keys
      PROVE  Fits(Get(c, k))
  BY GetOK DEF Fits
<1>2. ASSUME NEW k \in Keys, NEW device \in Devices
      PROVE  Fits(Put(c, k, device))
  <2>1. CASE Resident(c, TierOf(device), k)
    BY <2>1, PutRefresh DEF Fits
  <2>2. CASE ~Resident(c, TierOf(device), k)
    <3> DEFINE tier == TierOf(device)
               d == Put(c, k, device)
    <3>0. tier \in Tiers
      BY DeviceTiers
    <3>1. /\ Len(d[tier].order) = Len(MadeRoom(c[tier], Slots(tier)).order) + 1
          /\ \A t \in Tiers \ {tier} : d[t] = c[t]
      BY <2>2, PutInsert, ZenonT(30)
    <3> HIDE DEF d, tier
    <3>2. Len(d[tier].order) <= Larger(1, Slots(tier))
      <4>1. TierOK(c[tier], tier) /\ Len(c[tier].order) <= Larger(1, Slots(tier))
        BY <1>0, <3>0 DEF Fits
      <4>2. Len(MadeRoom(c[tier], Slots(tier)).order) + 1 <= Larger(1, Slots(tier))
        BY <3>0, <4>1, RoomForOne
      <4> QED
        BY <3>1, <4>2
    <3> QED
      BY <3>1, <3>2 DEF Fits, d
  <2> QED
    BY <2>1, <2>2
<1>3. ASSUME NEW device \in Devices
      PROVE  Fits(Evict(c, device))
  <2>1. CASE ~Evicts(c[TierOf(device)])
    BY <2>1 DEF Evict
  <2>2. CASE Evicts(c[TierOf(device)])
    <3> DEFINE tier == TierOf(device)
               d == Evict(c, device)
    <3>1. /\ tier \in Tiers
          /\ d[tier].order = Evicted(c[tier]).order
          /\ \A t \in Tiers \ {tier} : d[t] = c[t]
      BY <2>2, DeviceTiers, EvictVictim
    <3>2. c[tier].order # <<>>
      BY <2>2 DEF Evicts
    <3> HIDE DEF d, tier
    <3>3. Len(d[tier].order) <= Larger(1, Slots(tier))
      BY <1>0, <3>1, <3>2, EvictedSmaller DEF Fits, Larger
    <3> QED
      BY <3>1, <3>3 DEF Fits, d
  <2> QED
    BY <2>1, <2>2
<1>4. ASSUME NEW k \in Keys
      PROVE  Fits(Demote(c, k))
  <2>1. CASE ~Resident(c, "gpu", k)
    BY <2>1 DEF Demote
  <2>2. CASE Resident(c, "gpu", k)
    <3> DEFINE d == Demote(c, k)
    <3>1. /\ d["cpu"] = c["cpu"] /\ Len(d["gpu"].order) = Len(c["gpu"].order) - 1
      BY <2>2, DemoteResident
    <3> HIDE DEF d
    <3> QED
      BY <1>0, <3>1 DEF Fits, Tiers, Larger, d
  <2> QED
    BY <2>1, <2>2
<1> QED
  BY <1>1, <1>2, <1>3, <1>4

=============================================================================
