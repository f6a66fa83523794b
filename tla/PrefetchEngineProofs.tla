------------------------ MODULE PrefetchEngineProofs ------------------------
(***************************************************************************)
(* Theorems about the inference loop: the MoE layers' passes and the       *)
(* prefetches between them, over the scheduler whose invariant is proved   *)
(* in TransferSchedulerProofs.  The invariant (LoopInv) adds to that one   *)
(* where a pass is (PassOK), what it asks for (OwnRequest, Asking), which  *)
(* experts it has brought (ResidencyOK) and which prefetches are tracked   *)
(* (TrackingOK).                                                           *)
(***************************************************************************)
EXTENDS PrefetchEngine, TransferSchedulerProofs

USE ExpertIdsAssumption, DepthAssumption

-----------------------------------------------------------------------------
(* A set of natural numbers that is not empty has a least one.             *)
LEMMA LeastNatural ==
    ASSUME NEW S \in SUBSET Nat, S # {}
    PROVE  Min(S) \in S /\ \A i \in S : Min(S) <= i
<1>1. PICK n \in S : TRUE
  OBVIOUS
<1> DEFINE T == {i \in 1..(n + 1) : i - 1 \in S}
<1>2. T \in SUBSET (1..(n + 1)) /\ T # {}
  <2>1. n + 1 \in T
    BY <1>1
  <2> QED
    BY <2>1
<1>3. PICK m \in T : \A j \in T : m <= j
  <2>1. n + 1 \in Nat
    BY <1>1
  <2> HIDE DEF T
  <2> QED
    BY <1>2, <2>1, LeastPlace
<1>4. m - 1 \in S /\ m - 1 <= n
  BY <1>1, <1>3
<1>5. ASSUME NEW i \in S
      PROVE  m - 1 <= i
  <2>1. CASE i <= n
    <3>1. i + 1 \in T
      BY <1>1, <2>1
    <3> QED
      BY <1>3, <3>1
  <2>2. CASE i > n
    BY <1>1, <1>4, <2>2
  <2> QED
    BY <1>1, <2>1, <2>2
<1> DEFINE g == m - 1
<1>6. g \in S /\ \A i \in S : g <= i
  BY <1>4, <1>5
<1> HIDE DEF g
<1> QED
  BY <1>6 DEF Min

(* The expert whose turn it is is one of those to be visited.              *)
LEMMA LeastExpert ==
    ASSUME NEW S \in SUBSET Keys, S # {}
    PROVE  Least(S) \in S
<1> DEFINE L == {k[1] : k \in S}
<1>0. \A k \in S : k[1] \in Nat /\ k[2] \in Nat
  OBVIOUS
<1>1. L \in SUBSET Nat /\ L # {}
  BY <1>0
<1>2. PICK l \in L : \A i \in L : l <= i
  <2> HIDE DEF L
  <2> QED
    BY <1>1, LeastNatural
<1> DEFINE R == {k \in S : k[1] = l}
           I == {k[2] : k \in R}
<1>3. I \in SUBSET Nat /\ I # {}
  BY <1>0, <1>2
<1>4. PICK e \in I : \A i \in I : e <= i
  <2> HIDE DEF I
  <2> QED
    BY <1>3, LeastNatural
<1>5. PICK k \in S : k[1] = l /\ k[2] = e
  BY <1>4
<1>6. ASSUME NEW j \in S
      PROVE  k[1] < j[1] \/ (k[1] = j[1] /\ k[2] <= j[2])
  <2>1. l <= j[1]
    BY <1>2
  <2>2. j[1] = l => e <= j[2]
    BY <1>4
  <2> QED
    BY <1>0, <1>5, <2>1, <2>2
<1> QED
  BY <1>5, <1>6 DEF Least

-----------------------------------------------------------------------------
(***************************************************************************)
(* A pass.                                                                 *)
(***************************************************************************)
PassType ==
    [phase : {"idle", "ensure", "submit", "execute", "check", "run", "release"},
     working : SUBSET Keys, todo : SUBSET Keys, kept : SUBSET Keys,
     held : SUBSET Keys, failed : BOOLEAN, before : SUBSET Keys]

PassOK(f) ==
    /\ f \in PassType
    /\ f.todo \subseteq f.working
    /\ f.kept = f.working \cap f.before

\* g is the pass f, at another place with other experts to visit.
SamePass(f, g) == g.working = f.working /\ g.before = f.before

(* A pass goes from one phase to another for the same experts.             *)
LEMMA GotoPass ==
    ASSUME PassOK(fwd), NEW phase,
           phase \in {"submit", "execute", "check"}, Goto(phase)
    PROVE  /\ PassOK(fwd') /\ SamePass(fwd, fwd')
           /\ fwd'.phase = phase /\ fwd'.todo = fwd.todo
  BY DEF PassOK, PassType, Goto, SamePass

(* An expert was brought; the next one's turn, or the run.                 *)
LEMMA EnsuredPass ==
    ASSUME PassOK(fwd), NEW k \in Keys, Ensured(k)
    PROVE  /\ PassOK(fwd') /\ SamePass(fwd, fwd')
           /\ fwd'.phase \in {"ensure", "run"} /\ fwd'.todo = fwd.todo \ {k}
  BY DEF PassOK, PassType, Ensured, SamePass

(* The finally clause is for the experts that were not there before.       *)
LEMMA FinallyPass ==
    ASSUME PassOK(fwd), NEW failed \in BOOLEAN, Finally(failed)
    PROVE  /\ PassOK(fwd') /\ SamePass(fwd, fwd')
           /\ fwd'.phase = "release" /\ fwd'.todo = fwd.working \ fwd.before
  BY DEF PassOK, PassType, Finally, SamePass

-----------------------------------------------------------------------------
(***************************************************************************)
(* The loop over the scheduler: its steps are the scheduler's, a lookup    *)
(* that misses and whose load then fails, demotions of their own, and      *)
(* prefetches of experts there are not.                                    *)
(***************************************************************************)
(* The cache holds experts only.                                           *)
LEMMA ResidentIsExpert ==
    ASSUME NEW c, CacheOK(c), NEW tier \in Tiers, NEW k, Resident(c, tier, k)
    PROVE  k \in Keys
  BY CacheOKTiers, HeldResident DEF Resident

LookupAlone(k) ==
    /\ cache' = Get(cache, k)
    /\ UNCHANGED <<published, pool, stream, queue, handles, buffers>>

DemotionAlone(k) == Demoted(k) /\ UNCHANGED <<queue, handles>>

HostStep ==
    \/ [Next]_vars
    \/ \E k \in Keys : LookupAlone(k) \/ DemotionAlone(k)
    \/ \E k : AsyncUnbacked(k)

(* The loop does nothing else to the scheduler.                            *)
LEMMA LoopIsHost ==
    ASSUME CacheOK(cache), [PNext]_pvars
    PROVE  HostStep
<1> USE DEF HostStep
<1>1. CASE UNCHANGED pvars
  BY <1>1 DEF pvars, vars
<1>2. CASE BeginPass
  BY <1>2 DEF BeginPass, Begin
<1>3. ASSUME PassStep
      PROVE  HostStep
  <2>1. CASE RunExperts \/ Finish
    BY <2>1 DEF RunExperts, Finish
  <2>2. ASSUME NEW k \in Keys, FindOnGpu(k) \/ FindOnCpu(k) \/ LoadMissing(k) \/ Transferred(k)
        PROVE  HostStep
    <3>1. Lookup(k) \/ LoadExpert(k)
      BY <2>2 DEF FindOnGpu, FindOnCpu, LoadMissing, Transferred
    <3> QED
      BY <3>1 DEF Next
  <2>3. ASSUME NEW k \in Keys, LoadFails(k)
        PROVE  HostStep
    BY <2>3 DEF LoadFails, LookupAlone
  <2>4. ASSUME NEW k \in Keys, SubmitOwn(k)
        PROVE  HostStep
    <3>1. Request(k) \in Requests
      BY DEF Request, Requests
    <3> QED
      BY <2>4, <3>1 DEF SubmitOwn, Next
  <2>5. ASSUME NEW k \in Keys, SubmitRefused(k) \/ NotTransferred(k)
        PROVE  HostStep
    BY <2>5 DEF SubmitRefused, NotTransferred
  <2>6. ASSUME NEW k \in Keys, Execute(k)
        PROVE  HostStep
    BY <2>6 DEF Execute, Next
  <2>7. ASSUME NEW k \in Keys, DemoteUsed(k)
        PROVE  HostStep
    BY <2>7 DEF DemoteUsed, DemotionAlone
  <2> QED
    BY <1>3, <2>1, <2>2, <2>3, <2>4, <2>5, <2>6, <2>7 DEF PassStep
<1>4. CASE PassCompletes \/ PassRaises \/ StartSubmitting \/ NextLayer
  BY <1>4 DEF PassCompletes, PassRaises, StartSubmitting, NextLayer, Finish, vars
<1>5. ASSUME NEW k \in Keys, CancelStale(k)
      PROVE  HostStep
  BY <1>5 DEF CancelStale, Next
<1>6. ASSUME NEW k, PrefetchStarts(k) \/ PrefetchUnbacked(k) \/ PrefetchRaises(k)
      PROVE  HostStep
  <2>1. SubmitAsync(k) \/ AsyncUnbacked(k) \/ AsyncFails(k)
    BY <1>6 DEF PrefetchStarts, PrefetchUnbacked, PrefetchRaises
  <2>2. Resident(cache, "cpu", k) => k \in Keys
    BY ResidentIsExpert DEF Tiers
  <2> QED
    BY <2>1, <2>2 DEF Next, SubmitAsync, AsyncFails
<1>7. ASSUME NEW k, PrefetchRefused(k)
      PROVE  HostStep
  BY <1>7 DEF PrefetchRefused
<1>8. ASSUME NEW k \in Keys, PollBetweenPasses(k)
      PROVE  HostStep
  BY <1>8 DEF PollBetweenPasses, Poll, Next
<1>9. CASE DeviceStep
  BY <1>9 DEF Next
<1> QED
  BY <1>1, <1>2, <1>3, <1>4, <1>5, <1>6, <1>7, <1>8, <1>9 DEF PNext, TurnStep

(* A lookup leaves the experts of each tier where they are.                *)
LEMMA LookupKeeps ==
    ASSUME CacheOK(cache), NEW k \in Keys, cache' = Get(cache, k)
    PROVE  CacheOK(cache') /\ \A tier \in Tiers : Held(cache', tier) = Held(cache, tier)
  BY CallsOK, GetHeld

(* The scheduler's invariant survives what the loop does beside it.        *)
LEMMA HostKeeps ==
    ASSUME TransferInv, HostStep
    PROVE  TransferInv'
<1>1. ASSUME NEW k \in Keys, LookupAlone(k)
      PROVE  TransferInv'
  <2>1. CacheOK(cache) /\ PublishedOK(cache, published)
    BY DEF TransferInv, ContentOK
  <2>2. CacheOK(cache') /\ Held(cache', "gpu") = Held(cache, "gpu")
    BY <1>1, <2>1, LookupKeeps DEF LookupAlone, Tiers
  <2>3. PublishedOK(cache', published)
    BY <2>1, <2>2, SameResidency
  <2> QED
    BY <1>1, <2>2, <2>3 DEF TransferInv, ContentOK, LookupAlone
<1>2. ASSUME NEW k \in Keys, DemotionAlone(k)
      PROVE  TransferInv'
  <2>1. CacheOK(cache') /\ PublishedOK(cache', published')
    BY <1>2, DemotedKeeps DEF TransferInv, ContentOK, DemotionAlone
  <2>2. UNCHANGED <<pool, stream, queue, handles, buffers>>
    BY <1>2 DEF DemotionAlone, Demoted
  <2> QED
    BY <2>1, <2>2 DEF TransferInv, ContentOK
<1>3. ASSUME NEW k, AsyncUnbacked(k)
      PROVE  TransferInv'
  <2>1. UNCHANGED <<cache, published, queue>>
    BY <1>3 DEF AsyncUnbacked
  <2>2. TransfersOK(pool', stream', handles', buffers')
    BY <1>3, UnbackedKeeps DEF TransferInv
  <2> QED
    BY <2>1, <2>2 DEF TransferInv
<1> QED
  BY <1>1, <1>2, <1>3, NextKeeps DEF HostStep

(* Nor does it escape the life of a transfer.                              *)
LEMMA HostLifecycle ==
    ASSUME TransferInv, HostStep
    PROVE  LifecycleStep
<1>0. CacheOK(cache)
  BY DEF TransferInv, ContentOK
<1>1. ASSUME NEW k \in Keys, LookupAlone(k)
      PROVE  LifecycleStep
  <2>1. Held(cache', "gpu") = Held(cache, "gpu")
    BY <1>0, <1>1, LookupKeeps DEF LookupAlone, Tiers
  <2> QED
    BY <1>1, <2>1, ElsewhereStep DEF LookupAlone, OnGpu, Held, HeldIn, Complete, Active
<1>2. ASSUME NEW k \in Keys, DemotionAlone(k)
      PROVE  LifecycleStep
  <2>1. cache' = Demote(cache, k) /\ UNCHANGED <<handles, buffers>>
    BY <1>2 DEF DemotionAlone, Demoted
  <2>2. Held(cache', "gpu") = Held(cache, "gpu") \ {k}
    BY <1>0, <2>1, DemoteHeld
  <2>3. OnGpu(cache') = OnGpu(cache) \ {k}
    BY <2>2 DEF OnGpu, Held, HeldIn
  <2>4. k \notin OnGpu(cache) => OnGpu(cache') = OnGpu(cache)
    BY <2>3
  <2> QED
    BY <2>1, <2>3, <2>4, ElsewhereStep DEF Complete, Active
<1>3. ASSUME NEW k, AsyncUnbacked(k)
      PROVE  LifecycleStep
  BY <1>3, ElsewhereStep DEF AsyncUnbacked, Complete, Active
<1> QED
  BY <1>1, <1>2, <1>3, LifecycleSteps DEF HostStep

-----------------------------------------------------------------------------
(***************************************************************************)
(* What a pass asks for and what it has brought.                           *)
(***************************************************************************)
\* The queue holds the pass's own request while that is to be executed.
OwnRequest(s, f) ==
    IF f.phase = "execute" THEN f.todo # {} /\ s = <<Request(Least(f.todo))>>
    ELSE s = <<>>

\* The expert requested is in the CPU tier and not on the GPU.
Asking(c, f) ==
    f.phase \in {"submit", "execute"} =>
        /\ f.todo # {}
        /\ Least(f.todo) \in Held(c, "cpu") /\ Least(f.todo) \notin Held(c, "gpu")

RoomForAll(f) ==
    /\ IsFiniteSet(f.before \cup f.working)
    /\ Cardinality(f.before \cup f.working) <= GpuSlots

\* On the GPU are the experts from before and those brought; the latter are
\* all to be demoted, and the former are all there if there is room.
ResidencyOK(c, f) ==
    /\ f.phase \notin {"idle", "release"} => Held(c, "gpu") \subseteq f.before \cup f.working
    /\ f.phase = "release" =>
          /\ Held(c, "gpu") \subseteq f.before \cup f.todo
          /\ f.todo \cap f.before = {}
    /\ f.phase # "idle" /\ RoomForAll(f) => f.before \subseteq Held(c, "gpu")

PassInv(c, s, f) ==
    PassOK(f) /\ OwnRequest(s, f) /\ Asking(c, f) /\ ResidencyOK(c, f)

(* A move within a pass, or into its finally clause, that brings nothing.  *)
LEMMA ResidencyMoves ==
    ASSUME NEW c, NEW f, ResidencyOK(c, f), f.phase \notin {"idle", "release"},
           NEW d, Held(d, "gpu") = Held(c, "gpu"),
           NEW g, SamePass(f, g), g.phase # "idle",
           g.phase = "release" => g.todo = f.working \ f.before
    PROVE  ResidencyOK(d, g)
  BY DEF ResidencyOK, SamePass, RoomForAll

(* A pass begins with nothing brought and no request.                      *)
LEMMA BeginKeeps ==
    ASSUME CacheOK(cache), PassInv(cache, queue, fwd), NEW E \in SUBSET Keys, Begin(E)
    PROVE  PassInv(cache', queue', fwd')
<1>1. GpuExperts = Held(cache, "gpu") /\ GpuExperts \subseteq Keys
  <2>1. GpuExperts = Held(cache, "gpu")
    BY DEF GpuExperts, Held, HeldIn
  <2>2. Held(cache, "gpu") \subseteq Keys
    BY CacheOKTiers, HeldResident DEF Held, Tiers
  <2> QED
    BY <2>1, <2>2
<1>2. /\ PassOK(fwd') /\ fwd'.phase = "ensure" /\ fwd'.before = GpuExperts
  BY <1>1 DEF PassInv, PassOK, PassType, Begin
<1>3. UNCHANGED <<cache, queue>> /\ queue = <<>>
  BY DEF Begin, vars, PassInv, OwnRequest
<1> QED
  BY <1>1, <1>2, <1>3 DEF PassInv, OwnRequest, Asking, ResidencyOK

(* An expert found in one tier or loaded into the CPU tier.                *)
LEMMA FindKeeps ==
    ASSUME CacheOK(cache), PassInv(cache, queue, fwd), NEW k \in Keys,
           FindOnGpu(k) \/ FindOnCpu(k) \/ Transferred(k)
    PROVE  PassInv(cache', queue', fwd')
<1>1. /\ cache' = Get(cache, k)
      /\ Resident(cache, "gpu", k) \/ Resident(cache, "cpu", k)
      /\ UNCHANGED queue /\ queue = <<>>
      /\ fwd.phase \in {"ensure", "check"} /\ fwd.todo # {} /\ k = Least(fwd.todo)
  BY DEF FindOnGpu, FindOnCpu, Transferred, Lookup, At, PassInv, OwnRequest
<1>2. CacheOK(cache') /\ \A tier \in Tiers : Held(cache', tier) = Held(cache, tier)
  BY <1>1, LookupKeeps
<1>3. PassOK(fwd)
  BY DEF PassInv
<1>4. CASE Ensured(k)
  <2>1. /\ PassOK(fwd') /\ SamePass(fwd, fwd')
        /\ fwd'.phase \in {"ensure", "run"}
    BY <1>3, <1>4, EnsuredPass
  <2>2. ResidencyOK(cache', fwd')
    BY <1>1, <1>2, <2>1, ResidencyMoves DEF PassInv, Tiers
  <2> QED
    BY <1>1, <2>1, <2>2 DEF PassInv, OwnRequest, Asking
<1>5. CASE FindOnCpu(k)
  <2>1. /\ PassOK(fwd') /\ SamePass(fwd, fwd')
        /\ fwd'.phase = "submit" /\ fwd'.todo = fwd.todo
    BY <1>3, <1>5, GotoPass DEF FindOnCpu
  <2>2. ResidencyOK(cache', fwd')
    BY <1>1, <1>2, <2>1, ResidencyMoves DEF PassInv, Tiers
  <2>3. k \in Held(cache, "cpu") /\ k \notin Held(cache, "gpu")
    BY <1>1, <1>5, CacheOKTiers, HeldResident DEF FindOnCpu, Resident, Held, Tiers
  <2>4. Asking(cache', fwd')
    BY <1>1, <1>2, <2>1, <2>3 DEF Asking, Tiers
  <2> QED
    BY <1>1, <2>1, <2>2, <2>4 DEF PassInv, OwnRequest
<1> QED
  BY <1>4, <1>5 DEF FindOnGpu, Transferred

LoadedCache(k) == Put(Get(cache, k), k, "cpu")

(* An expert loaded is in the CPU tier, and the GPU tier is as it was.     *)
LEMMA LoadedHeld ==
    ASSUME CacheOK(cache), NEW k \in Keys
    PROVE  /\ Held(LoadedCache(k), "gpu") = Held(cache, "gpu")
           /\ k \in Held(LoadedCache(k), "cpu")
<1> DEFINE c == Get(cache, k)
<1>1. CacheOK(c) /\ Held(c, "gpu") = Held(cache, "gpu")
  BY CallsOK, GetHeld DEF Tiers
<1>2. "cpu" \in Devices /\ TierOf("cpu") = "cpu" /\ "gpu" \in Tiers \ {"cpu"}
  BY DEF Devices, TierOf, Tiers
<1>3. LoadedCache(k) = Put(c, k, "cpu")
  BY DEF LoadedCache
<1> HIDE DEF c
<1>4. /\ Put(c, k, "cpu")["gpu"] = c["gpu"]
      /\ k \in Held(Put(c, k, "cpu"), "cpu")
  <2> DEFINE before == Held(c, "cpu")
             after == Held(Put(c, k, "cpu"), "cpu")
  <2>1. /\ \A t \in Tiers \ {"cpu"} : Put(c, k, "cpu")[t] = c[t]
        /\ k \in before => after = before
        /\ k \notin before => \/ after = before \cup {k}
                              \/ \E v \in before : after = (before \ {v}) \cup {k}
    BY <1>1, <1>2, PutHeld
  <2> QED
    BY <1>2, <2>1
<1> QED
  BY <1>1, <1>3, <1>4 DEF Held

(* An expert loaded from disk.                                             *)
LEMMA LoadKeeps ==
    ASSUME CacheOK(cache), PassInv(cache, queue, fwd), NEW k \in Keys, LoadMissing(k)
    PROVE  PassInv(cache', queue', fwd')
<1>1. /\ cache' = LoadedCache(k) /\ ~Resident(cache, "gpu", k)
      /\ UNCHANGED queue /\ queue = <<>>
      /\ fwd.phase = "ensure" /\ fwd.todo # {} /\ k = Least(fwd.todo) /\ PassOK(fwd)
  BY DEF LoadMissing, LoadExpert, LoadedCache, At, PassInv, OwnRequest
<1>2. /\ PassOK(fwd') /\ SamePass(fwd, fwd')
      /\ fwd'.phase = "submit" /\ fwd'.todo = fwd.todo
  BY <1>1, GotoPass DEF LoadMissing
<1>3. /\ Held(cache', "gpu") = Held(cache, "gpu")
      /\ k \in Held(cache', "cpu") /\ k \notin Held(cache, "gpu")
  BY <1>1, LoadedHeld, GpuHeld
<1>4. ResidencyOK(cache', fwd')
  BY <1>1, <1>2, <1>3, ResidencyMoves DEF PassInv
<1> QED
  BY <1>1, <1>2, <1>3, <1>4 DEF PassInv, OwnRequest, Asking

(* The finally clause is entered, whatever happened.                       *)
LEMMA FinallyKeeps ==
    ASSUME CacheOK(cache), PassInv(cache, queue, fwd),
           \/ RunExperts
           \/ \E k \in Keys : LoadFails(k) \/ SubmitRefused(k) \/ NotTransferred(k)
    PROVE  PassInv(cache', queue', fwd')
<1>1. /\ UNCHANGED queue /\ queue = <<>>
      /\ fwd.phase \in {"ensure", "submit", "check", "run"}
      /\ PassOK(fwd)
      /\ Finally(TRUE) \/ Finally(FALSE)
      /\ cache' = cache \/ \E k \in Keys : cache' = Get(cache, k)
  BY DEF LoadFails, SubmitRefused, NotTransferred, RunExperts, Raise, At, PassInv,
         OwnRequest, vars
<1>2. /\ PassOK(fwd') /\ SamePass(fwd, fwd') /\ fwd'.phase = "release"
      /\ fwd'.todo = fwd.working \ fwd.before
  BY <1>1, FinallyPass
<1>3. Held(cache', "gpu") = Held(cache, "gpu")
  BY <1>1, LookupKeeps DEF Tiers
<1>4. ResidencyOK(cache', fwd')
  BY <1>1, <1>2, <1>3, ResidencyMoves DEF PassInv
<1> QED
  BY <1>1, <1>2, <1>4 DEF PassInv, OwnRequest, Asking

(* The request goes into the empty queue.                                  *)
LEMMA SubmitOwnKeeps ==
    ASSUME PassInv(cache, queue, fwd), NEW k \in Keys, SubmitOwn(k)
    PROVE  PassInv(cache', queue', fwd')
<1>1. /\ queue' = <<Request(k)>> /\ UNCHANGED cache
      /\ fwd.phase = "submit" /\ fwd.todo # {} /\ k = Least(fwd.todo) /\ PassOK(fwd)
  BY DEF SubmitOwn, Submit, At, PassInv, OwnRequest
<1>2. /\ PassOK(fwd') /\ SamePass(fwd, fwd')
      /\ fwd'.phase = "execute" /\ fwd'.todo = fwd.todo
  BY <1>1, GotoPass DEF SubmitOwn
<1>3. ResidencyOK(cache', fwd')
  BY <1>1, <1>2, ResidencyMoves DEF PassInv
<1> QED
  BY <1>1, <1>2, <1>3 DEF PassInv, OwnRequest, Asking

(* An expert that fits beside all the others displaces none of them.       *)
LEMMA RoomOnGpu ==
    ASSUME NEW c, CacheOK(c), NEW k \in Keys, NEW B, IsFiniteSet(B),
           Cardinality(B) <= GpuSlots, Held(c, "gpu") \subseteq B, k \in B
    PROVE  Held(Put(c, k, "cuda"), "gpu") = Held(c, "gpu") \cup {k}
<1> DEFINE before == Held(c, "gpu")
           after == Held(Put(c, k, "cuda"), "gpu")
<1>1. "cuda" \in Devices /\ TierOf("cuda") = "gpu" /\ "gpu" \in Tiers /\ Slots("gpu") = GpuSlots
  BY DEF Devices, TierOf, Tiers, Slots
<1>2. /\ k \in before => after = before
      /\ k \notin before => \/ after = before \cup {k}
                            \/ Len(c["gpu"].order) >= Slots("gpu")
  BY <1>1, PutHeld
<1>3. Cardinality(before) = Len(c["gpu"].order)
  BY <1>1, CacheOKTiers, HeldResident DEF Held
<1> HIDE DEF before, after
<1>4. ASSUME k \notin before
      PROVE  Cardinality(before) < GpuSlots
  <2> DEFINE m == Cardinality(before)
             n == Cardinality(B)
  <2>1. before \in SUBSET B /\ before # B
    BY <1>4 DEF before
  <2>2. IsFiniteSet(before) /\ m <= n /\ (n = m => B = before)
    BY <2>1, FS_Subset
  <2>3. m \in Nat /\ n \in Nat /\ n # m /\ n <= GpuSlots
    BY <2>1, <2>2, FS_CardinalityType
  <2> HIDE DEF m, n
  <2>4. m < GpuSlots
    BY <2>2, <2>3, SlotsAssumption
  <2> QED
    BY <2>4 DEF m
<1>5. after = before \cup {k}
  <2>1. CASE k \in before
    BY <1>2, <2>1
  <2>2. CASE k \notin before
    <3> DEFINE n == Len(c["gpu"].order)
    <3>1. ~(n >= Slots("gpu"))
      <4>1. TierOK(c["gpu"], "gpu")
        BY <1>1, CacheOKTiers
      <4>2. n \in Nat
        BY <4>1 DEF TierOK, TierType
      <4>3. n < GpuSlots /\ Slots("gpu") = GpuSlots
        BY <1>1, <1>3, <1>4, <2>2
      <4> HIDE DEF n
      <4> QED
        BY <4>2, <4>3, SlotsAssumption
    <3> QED
      BY <1>2, <2>2, <3>1
  <2> QED
    BY <2>1, <2>2
<1> QED
  BY <1>5 DEF before, after

(* The request executed is the pass's own, and brings its expert or none.  *)
LEMMA OwnExecuted ==
    ASSUME PassInv(cache, queue, fwd), NEW k \in Keys, Execute(k)
    PROVE  queue' = <<>> /\ (cache' = cache \/ cache' = Put(cache, k, "cuda"))
<1>1. queue = <<Request(k)>>
  BY DEF Execute, At, PassInv, OwnRequest
<1>2. PICK i \in DOMAIN queue :
         /\ queue' = RemoveAt(queue, i)
         /\ \/ queue[i].direction = "gpu_to_cpu"
            \/ SyncRefused(queue[i].key) \/ SyncTransferred(queue[i].key)
            \/ SyncStageFails(queue[i].key) \/ SyncEnqueueFails(queue[i].key)
  BY DEF Execute, ExecuteNext
<1>3. /\ queue \in Seq({Request(k)}) /\ Len(queue) = 1 /\ i \in 1..Len(queue)
      /\ queue[i] = Request(k)
  BY <1>1
<1>4. queue' = <<>>
  <2>1. /\ RemoveAt(queue, i) \in Seq({Request(k)})
        /\ Len(RemoveAt(queue, i)) = Len(queue) - 1
    BY <1>3, RemoveAtProperties
  <2>2. queue' \in Seq({Request(k)}) /\ Len(queue') = 0
    BY <1>2, <1>3, <2>1
  <2> QED
    BY <2>2
<1>5. queue[i].key = k /\ queue[i].direction # "gpu_to_cpu"
  BY <1>3 DEF Request
<1>6. cache' = cache \/ cache' = Put(cache, k, "cuda")
  BY <1>2, <1>5
  DEF SyncRefused, SyncTransferred, SyncStageFails, SyncEnqueueFails, Publish
<1> QED
  BY <1>4, <1>6

(* The request is executed.                                                *)
LEMMA ExecutePass ==
    ASSUME CacheOK(cache), PassInv(cache, queue, fwd), NEW k \in Keys, Execute(k)
    PROVE  PassInv(cache', queue', fwd')
<1>1. queue' = <<>> /\ (cache' = cache \/ cache' = Put(cache, k, "cuda"))
  BY OwnExecuted
<1>2. /\ fwd.phase = "execute" /\ fwd.todo # {} /\ k = Least(fwd.todo) /\ PassOK(fwd)
  BY DEF Execute, At, PassInv
<1>3. /\ PassOK(fwd') /\ SamePass(fwd, fwd')
      /\ fwd'.phase = "check" /\ fwd'.todo = fwd.todo
  BY <1>2, GotoPass DEF Execute
<1>4. k \in fwd.working
  <2>1. fwd.todo \in SUBSET Keys /\ fwd.todo \subseteq fwd.working
    BY <1>2 DEF PassOK, PassType
  <2> QED
    BY <1>2, <2>1, LeastExpert
<1>5. CASE cache' = cache
  <2>1. ResidencyOK(cache', fwd')
    BY <1>2, <1>3, <1>5, ResidencyMoves DEF PassInv
  <2> QED
    BY <1>1, <1>3, <2>1 DEF PassInv, OwnRequest, Asking
<1>6. CASE cache' = Put(cache, k, "cuda")
  <2> DEFINE B == fwd.before \cup fwd.working
             old == Held(cache, "gpu")
             new == Held(cache', "gpu")
  <2>1. new \subseteq old \cup {k}
    <3>1. "cuda" \in Devices /\ TierOf("cuda") = "gpu"
      BY DEF Devices, TierOf
    <3> QED
      BY <1>6, <3>1, PutHeld
  <2>2. old \subseteq B /\ (RoomForAll(fwd) => fwd.before \subseteq old)
    BY <1>2 DEF PassInv, ResidencyOK
  <2>3. RoomForAll(fwd) => new = old \cup {k}
    BY <1>4, <1>6, <2>2, RoomOnGpu DEF RoomForAll
  <2>4. new \subseteq B /\ (RoomForAll(fwd) => fwd.before \subseteq new)
    BY <1>4, <2>1, <2>2, <2>3
  <2>5. RoomForAll(fwd') <=> RoomForAll(fwd)
    BY <1>3 DEF SamePass, RoomForAll
  <2>6. ResidencyOK(cache', fwd')
    BY <1>3, <2>4, <2>5 DEF ResidencyOK, SamePass
  <2> QED
    BY <1>1, <1>3, <2>6 DEF PassInv, OwnRequest, Asking
<1> QED
  BY <1>1, <1>5, <1>6

(* Each expert the pass brought is demoted in its turn.                    *)
LEMMA DemoteUsedKeeps ==
    ASSUME CacheOK(cache), PassInv(cache, queue, fwd), NEW k \in Keys, DemoteUsed(k)
    PROVE  PassInv(cache', queue', fwd')
<1>1. /\ cache' = Demote(cache, k) /\ UNCHANGED queue /\ queue = <<>>
      /\ fwd.phase = "release" /\ fwd.todo # {} /\ k = Least(fwd.todo)
      /\ fwd' = [fwd EXCEPT !.todo = @ \ {k}] /\ PassOK(fwd)
  BY DEF DemoteUsed, Demoted, At, PassInv, OwnRequest
<1>2. /\ PassOK(fwd') /\ SamePass(fwd, fwd')
      /\ fwd'.phase = "release" /\ fwd'.todo = fwd.todo \ {k}
  BY <1>1 DEF PassOK, PassType, SamePass
<1>3. Held(cache', "gpu") = Held(cache, "gpu") \ {k}
  BY <1>1, DemoteHeld
<1>4. k \in fwd.todo
  BY <1>1, LeastExpert DEF PassOK, PassType
<1>5. ResidencyOK(cache', fwd')
  <2>1. RoomForAll(fwd') <=> RoomForAll(fwd)
    BY <1>2 DEF SamePass, RoomForAll
  <2> QED
    BY <1>1, <1>2, <1>3, <1>4, <2>1 DEF PassInv, ResidencyOK, SamePass
<1> QED
  BY <1>1, <1>2, <1>5 DEF PassInv, OwnRequest, Asking

(* Between passes there is no request, and nothing is promised.            *)
LEMMA IdleKeeps ==
    ASSUME NEW c, NEW s, s = <<>>
    PROVE  PassInv(c, s, Idle)
  BY DEF PassInv, PassOK, PassType, OwnRequest, Asking, ResidencyOK, Idle

(* Every step of a pass, and every step beside it.                         *)
LEMMA PassKeeps ==
    ASSUME CacheOK(cache), PassInv(cache, queue, fwd), [PNext]_pvars
    PROVE  PassInv(cache', queue', fwd')
<1>1. ASSUME UNCHANGED <<cache, queue, fwd>>
      PROVE  PassInv(cache', queue', fwd')
  BY <1>1
<1>2. CASE BeginPass
  <2>1. PICK E \in SUBSET Keys : Begin(E)
    BY <1>2 DEF BeginPass, ExpertsOf
  <2> QED
    BY <2>1, BeginKeeps
<1>3. ASSUME Finish
      PROVE  PassInv(cache', queue', fwd')
  <2>1. fwd' = Idle /\ queue' = <<>>
    BY <1>3 DEF Finish, PassInv, OwnRequest, vars
  <2> QED
    BY <2>1, IdleKeeps
<1>4. ASSUME PassStep
      PROVE  PassInv(cache', queue', fwd')
  <2>1. CASE RunExperts
    BY <2>1, FinallyKeeps
  <2>2. ASSUME NEW k \in Keys,
               \/ FindOnGpu(k) \/ FindOnCpu(k) \/ LoadMissing(k) \/ LoadFails(k)
               \/ SubmitOwn(k) \/ SubmitRefused(k) \/ Execute(k)
               \/ Transferred(k) \/ NotTransferred(k)
               \/ DemoteUsed(k)
        PROVE  PassInv(cache', queue', fwd')
    BY <2>2, FindKeeps, LoadKeeps, FinallyKeeps, SubmitOwnKeeps, ExecutePass, DemoteUsedKeeps
  <2> QED
    BY <1>3, <1>4, <2>1, <2>2 DEF PassStep
<1>5. CASE PassCompletes \/ PassRaises
  BY <1>3, <1>5 DEF PassCompletes, PassRaises
<1>6. CASE StartSubmitting \/ NextLayer
  BY <1>1, <1>6 DEF StartSubmitting, NextLayer, vars
<1>7. ASSUME NEW k, CancelStale(k)
      PROVE  UNCHANGED <<cache, queue, fwd>>
  BY <1>7 DEF CancelStale, CancelAsync, vars
<1>8. ASSUME NEW k, \/ PrefetchStarts(k) \/ PrefetchUnbacked(k)
                    \/ PrefetchRefused(k) \/ PrefetchRaises(k)
      PROVE  UNCHANGED <<cache, queue, fwd>>
  BY <1>8
  DEF PrefetchStarts, PrefetchUnbacked, PrefetchRefused, PrefetchRaises,
      SubmitAsync, AsyncUnbacked, AsyncFails, NextExpert, vars
<1>9. ASSUME NEW k, PollBetweenPasses(k)
      PROVE  PassInv(cache', queue', fwd')
  <2>1. fwd.phase = "idle" /\ UNCHANGED <<queue, fwd>>
    BY <1>9
    DEF PollBetweenPasses, Poll, PollFinished, PollCancelled, PollReconstructFails
  <2> QED
    BY <2>1 DEF PassInv, OwnRequest, Asking, ResidencyOK
<1>10. ASSUME DeviceStep, UNCHANGED fwd
       PROVE  UNCHANGED <<cache, queue, fwd>>
  BY <1>10 DEF DeviceStep
<1>11. UNCHANGED pvars => UNCHANGED <<cache, queue, fwd>>
  BY DEF pvars
<1> QED
  BY <1>1, <1>2, <1>4, <1>5, <1>6, <1>7, <1>8, <1>9, <1>10, <1>11 DEF PNext, TurnStep

-----------------------------------------------------------------------------
(***************************************************************************)
(* The prefetches tracked.                                                 *)
(***************************************************************************)
StepType ==
    [do : {"run", "cancel", "submit"}, layer : Nat,
     todo : SUBSET (Nat \X Nat), used : SUBSET (Nat \X Nat)]

InFlight(h) == {k \in Keys : h[k].status = "in_flight"}

\* Every transfer in flight is tracked, and what is tracked for the layers
\* passed is still to be cancelled, or gone.
TrackingOK(h, T, st) ==
    /\ st \in StepType
    /\ T \subseteq Keys
    /\ InFlight(h) \subseteq T
    /\ st.do = "run" => \A k \in T : k[1] >= st.layer
    /\ st.do = "cancel" => \A k \in T : k[1] > st.layer \/ k \in st.todo
    /\ st.do = "submit" => \A k \in T : k[1] > st.layer

(* No layer comes before the first.                                        *)
LEMMA FirstLayer ==
    ASSUME Keys # {}
    PROVE  Min(Layers) \in Nat /\ \A k \in Keys : k[1] >= Min(Layers)
<1>1. Layers \in SUBSET Nat /\ Layers # {} /\ \A k \in Keys : k[1] \in Layers
  BY DEF Layers
<1>2. Min(Layers) \in Layers /\ \A l \in Layers : Min(Layers) <= l
  BY <1>1, LeastNatural
<1> QED
  BY <1>1, <1>2

(* When a layer's turn begins at the first one, nothing is stale.          *)
LEMMA StartsOver ==
    ASSUME Keys # {}, NEW h, NEW T \in SUBSET Keys, InFlight(h) \subseteq T
    PROVE  TrackingOK(h, T, AtLayer(Min(Layers)))
<1> DEFINE st == AtLayer(Min(Layers))
<1>1. st \in StepType /\ st.do = "run" /\ st.layer = Min(Layers)
  BY FirstLayer DEF AtLayer, StepType
<1> HIDE DEF st
<1>2. TrackingOK(h, T, st)
  BY <1>1, FirstLayer DEF TrackingOK, InFlight
<1> QED
  BY <1>2 DEF st

(* What the calls do to the transfers in flight.                           *)
LEMMA InFlightChanges ==
    ASSUME handles \in [Keys -> HandleType], NEW k \in Keys
    PROVE  /\ CancelAsync(k) => InFlight(handles') = InFlight(handles) \ {k}
           /\ SubmitAsync(k) => InFlight(handles') = InFlight(handles) \cup {k}
           /\ PollFinished(k) \/ PollCancelled(k) \/ PollReconstructFails(k) =>
                 InFlight(handles') \subseteq InFlight(handles)
<1>1. ASSUME CancelAsync(k)
      PROVE  InFlight(handles') = InFlight(handles) \ {k}
  <2>1. HandleBecomes(handles, handles', k, "cancelled")
    BY <1>1, HandleReplaced DEF CancelAsync
  <2> QED
    BY <2>1 DEF HandleBecomes, InFlight
<1>2. ASSUME SubmitAsync(k)
      PROVE  InFlight(handles') = InFlight(handles) \cup {k}
  BY <1>2 DEF SubmitAsync, InFlight
<1>3. ASSUME PollFinished(k) \/ PollCancelled(k) \/ PollReconstructFails(k)
      PROVE  InFlight(handles') \subseteq InFlight(handles)
  <2>1. handles' = [handles EXCEPT ![k] = NoHandle]
    BY <1>3 DEF PollFinished, PollCancelled, PollReconstructFails, Retire
  <2> QED
    BY <2>1 DEF InFlight, NoHandle
<1> QED
  BY <1>1, <1>2, <1>3

(* A callback's turn: cancelling what is stale, then submitting ahead.     *)
LEMMA CallbackKeeps ==
    ASSUME Keys # {}, CacheOK(cache), handles \in [Keys -> HandleType], fwd \in PassType,
           TrackingOK(handles, tracked, step),
           \/ PassCompletes \/ StartSubmitting \/ NextLayer
           \/ \E k \in Keys : CancelStale(k)
           \/ \E k \in Predicted(step.layer, step.used) :
                 \/ PrefetchStarts(k) \/ PrefetchUnbacked(k)
                 \/ PrefetchRefused(k) \/ PrefetchRaises(k)
    PROVE  TrackingOK(handles', tracked', step')
<1>1. /\ step \in StepType /\ tracked \subseteq Keys /\ InFlight(handles) \subseteq tracked
      /\ step.layer \in Nat /\ \A k \in Keys : k[1] \in Nat /\ k[2] \in Nat
  BY DEF TrackingOK, StepType
<1>2. CASE PassCompletes
  <2>1. /\ step' = [do |-> "cancel", layer |-> step.layer, todo |-> Stale(step.layer),
                    used |-> fwd.working]
        /\ UNCHANGED <<tracked, handles>>
    BY <1>2 DEF PassCompletes, Finish, vars
  <2>2. fwd.working \in SUBSET (Nat \X Nat) /\ Stale(step.layer) \in SUBSET (Nat \X Nat)
    BY <1>1 DEF PassType, Stale
  <2>3. step' \in StepType /\ step'.do = "cancel"
    BY <1>1, <2>1, <2>2 DEF StepType
  <2>4. ASSUME NEW k \in tracked
        PROVE  k[1] > step.layer \/ k \in Stale(step.layer)
    <3>1. \A m, n \in Nat : m > n \/ m < n + 1
      OBVIOUS
    <3>2. k[1] > step.layer \/ k[1] < step.layer + 1
      BY <1>1, <3>1
    <3> QED
      BY <3>2 DEF Stale
  <2> QED
    BY <1>1, <2>1, <2>3, <2>4 DEF TrackingOK
<1>3. CASE StartSubmitting
  <2>1. /\ step.do = "cancel" /\ step.todo = {}
        /\ step' = [step EXCEPT !.do = "submit", !.todo = Predicted(step.layer, step.used)]
        /\ UNCHANGED <<tracked, handles>>
    BY <1>3 DEF StartSubmitting
  <2>2. Predicted(step.layer, step.used) \in SUBSET (Nat \X Nat)
    BY <1>1 DEF Predicted, StepType
  <2>3. step' \in StepType /\ step'.do = "submit" /\ step'.layer = step.layer
    BY <1>1, <2>1, <2>2 DEF StepType
  <2> QED
    BY <1>1, <2>1, <2>3 DEF TrackingOK
<1>4. CASE NextLayer
  <2>1. UNCHANGED <<tracked, handles>> /\ step.do = "submit"
    BY <1>4 DEF NextLayer, vars
  <2>2. CASE step' = AtLayer(Min(Layers))
    BY <1>1, <2>1, <2>2, StartsOver
  <2>3. CASE step' = AtLayer(step.layer + 1)
    <3>1. step' \in StepType /\ step'.do = "run" /\ step'.layer = step.layer + 1
      BY <1>1, <2>3 DEF AtLayer, StepType
    <3>2. \A k \in tracked : k[1] >= step.layer + 1
      BY <1>1, <2>1 DEF TrackingOK
    <3> QED
      BY <1>1, <2>1, <3>1, <3>2 DEF TrackingOK
  <2> QED
    BY <1>4, <2>2, <2>3 DEF NextLayer
<1>5. ASSUME NEW k \in Keys, CancelStale(k)
      PROVE  TrackingOK(handles', tracked', step')
  <2>1. /\ step.do = "cancel" /\ tracked' = tracked \ {k}
        /\ step' = [step EXCEPT !.todo = @ \ {k}]
        /\ \/ CancelAsync(k)
           \/ handles[k].status # "in_flight" /\ UNCHANGED handles
    BY <1>5 DEF CancelStale, vars
  <2>2. InFlight(handles') \subseteq InFlight(handles) \ {k}
    BY <1>1, <2>1, InFlightChanges DEF InFlight
  <2>3. /\ step' \in StepType /\ step'.do = "cancel" /\ step'.layer = step.layer
        /\ step'.todo = step.todo \ {k}
    BY <1>1, <2>1 DEF StepType
  <2> QED
    BY <1>1, <2>1, <2>2, <2>3 DEF TrackingOK
<1>6. ASSUME NEW k \in Predicted(step.layer, step.used),
             \/ PrefetchStarts(k) \/ PrefetchUnbacked(k)
             \/ PrefetchRefused(k) \/ PrefetchRaises(k)
      PROVE  TrackingOK(handles', tracked', step')
  <2>1. step.do = "submit" /\ k[1] > step.layer
    BY <1>1, <1>6
    DEF PrefetchStarts, PrefetchUnbacked, PrefetchRefused, PrefetchRaises, AtSubmit,
        Predicted, StepType
  <2>2. CASE PrefetchRaises(k)
    <3>1. step' = AtLayer(Min(Layers)) /\ UNCHANGED <<tracked, handles>>
      BY <2>2 DEF PrefetchRaises, AsyncFails
    <3> QED
      BY <1>1, <3>1, StartsOver
  <2>3. CASE PrefetchStarts(k) \/ PrefetchUnbacked(k) \/ PrefetchRefused(k)
    <3>1. step' = [step EXCEPT !.todo = @ \ {k}]
      BY <2>3 DEF PrefetchStarts, PrefetchUnbacked, PrefetchRefused, NextExpert
    <3>2. step' \in StepType /\ step'.do = "submit" /\ step'.layer = step.layer
      BY <1>1, <2>1, <3>1 DEF StepType
    <3>3. CASE PrefetchStarts(k)
      <4>1. tracked' = tracked \cup {k} /\ SubmitAsync(k)
        BY <3>3 DEF PrefetchStarts
      <4>2. k \in Keys
        BY <4>1, ResidentIsExpert DEF SubmitAsync, Tiers
      <4>3. InFlight(handles') \subseteq tracked'
        BY <1>1, <4>1, <4>2, InFlightChanges
      <4> QED
        BY <1>1, <2>1, <3>2, <4>1, <4>2, <4>3 DEF TrackingOK
    <3>4. CASE PrefetchUnbacked(k) \/ PrefetchRefused(k)
      <4>1. UNCHANGED <<tracked, handles>>
        BY <3>4 DEF PrefetchUnbacked, PrefetchRefused, AsyncUnbacked, vars
      <4> QED
        BY <1>1, <2>1, <3>2, <4>1 DEF TrackingOK
    <3> QED
      BY <2>3, <3>3, <3>4
  <2> QED
    BY <1>6, <2>2, <2>3
<1> QED
  BY <1>2, <1>3, <1>4, <1>5, <1>6

(* The transfers in flight are tracked, and none is stale, at every step.  *)
LEMMA TrackingKeeps ==
    ASSUME Keys # {}, CacheOK(cache), handles \in [Keys -> HandleType], fwd \in PassType,
           TrackingOK(handles, tracked, step), [PNext]_pvars
    PROVE  TrackingOK(handles', tracked', step')
<1>1. ASSUME UNCHANGED <<handles, tracked, step>>
      PROVE  TrackingOK(handles', tracked', step')
  BY <1>1
<1>2. CASE BeginPass
  BY <1>1, <1>2 DEF BeginPass, Begin, vars
<1>3. ASSUME PassStep
      PROVE  UNCHANGED handles
  BY <1>3
  DEF PassStep, RunExperts, Finish, FindOnGpu, FindOnCpu, LoadMissing, LoadFails,
      SubmitOwn, SubmitRefused, Execute, Transferred, NotTransferred, DemoteUsed,
      Lookup, LoadExpert, Submit, ExecuteNext, vars
<1>4. CASE PassRaises
  <2>1. step' = AtLayer(Min(Layers)) /\ UNCHANGED <<tracked, handles>>
    BY <1>4 DEF PassRaises, Finish, vars
  <2> QED
    BY <2>1, StartsOver DEF TrackingOK
<1>5. ASSUME NEW k \in Keys, PollBetweenPasses(k)
      PROVE  TrackingOK(handles', tracked', step')
  <2>1. /\ UNCHANGED <<tracked, step>>
        /\ PollFinished(k) \/ PollCancelled(k) \/ PollReconstructFails(k)
        /\ step.do = "run"
    BY <1>5 DEF PollBetweenPasses, Poll
  <2>2. InFlight(handles') \subseteq InFlight(handles)
    BY <2>1, InFlightChanges
  <2> QED
    BY <2>1, <2>2 DEF TrackingOK
<1>6. CASE DeviceStep /\ UNCHANGED <<fwd, tracked, step>>
  BY <1>1, <1>6 DEF DeviceStep
<1>7. CASE UNCHANGED pvars
  BY <1>1, <1>7 DEF pvars
<1> QED
  BY <1>1, <1>2, <1>3, <1>4, <1>5, <1>6, <1>7, CallbackKeeps DEF PNext, TurnStep

(* Only experts are tracked.                                               *)
LEMMA TrackedAreExperts ==
    ASSUME CacheOK(cache), tracked \subseteq Keys, [PNext]_pvars
    PROVE  tracked' \subseteq Keys
<1>1. ASSUME NEW k, PrefetchStarts(k)
      PROVE  tracked' \subseteq Keys
  <2>1. tracked' = tracked \cup {k} /\ SubmitAsync(k)
    BY <1>1 DEF PrefetchStarts
  <2>2. k \in Keys
    BY <2>1, ResidentIsExpert DEF SubmitAsync, Tiers
  <2> QED
    BY <2>1, <2>2
<1>2. ASSUME NEW k, CancelStale(k)
      PROVE  tracked' \subseteq Keys
  BY <1>2 DEF CancelStale
<1>3. ASSUME NEW k, PrefetchUnbacked(k) \/ PrefetchRefused(k) \/ PrefetchRaises(k)
      PROVE  UNCHANGED tracked
  BY <1>3 DEF PrefetchUnbacked, PrefetchRefused, PrefetchRaises
<1>4. ASSUME \/ BeginPass \/ PassCompletes \/ PassRaises
             \/ StartSubmitting \/ NextLayer
      PROVE  UNCHANGED tracked
  BY <1>4 DEF BeginPass, PassCompletes, PassRaises, StartSubmitting, NextLayer
<1>5. ASSUME NEW k, PollBetweenPasses(k)
      PROVE  UNCHANGED tracked
  BY <1>5 DEF PollBetweenPasses
<1>6. UNCHANGED pvars => UNCHANGED tracked
  BY DEF pvars
<1> QED
  BY <1>1, <1>2, <1>3, <1>4, <1>5, <1>6 DEF PNext, TurnStep

-----------------------------------------------------------------------------
(***************************************************************************)
(* The invariant of the loop.                                              *)
(***************************************************************************)
LoopInv ==
    /\ TransferInv
    /\ PassInv(cache, queue, fwd)
    /\ tracked \subseteq Keys
    /\ Keys # {} => TrackingOK(handles, tracked, step)

(* It holds before the first pass.                                         *)
LEMMA InitLoopInv == PInit => LoopInv
<1> SUFFICES ASSUME PInit PROVE LoopInv
  OBVIOUS
<1>1. TransferInv
  BY InitTransferInv DEF PInit, FInit
<1>2. fwd = Idle /\ queue = <<>> /\ tracked = {} /\ step = AtLayer(Min(Layers))
  BY DEF PInit, FInit, Init
<1>3. PassInv(cache, queue, fwd)
  BY <1>2, IdleKeeps
<1>4. InFlight(handles) = {}
  BY DEF PInit, FInit, Init, NoHandle, InFlight
<1>5. Keys # {} => TrackingOK(handles, tracked, step)
  BY <1>2, <1>4, StartsOver
<1> QED
  BY <1>1, <1>2, <1>3, <1>5 DEF LoopInv

(* Every step keeps it, and is one of the life of a transfer.              *)
LEMMA NextLoopInv ==
    ASSUME LoopInv, [PNext]_pvars
    PROVE  LoopInv' /\ LifecycleStep
<1>1. /\ TransferInv /\ CacheOK(cache) /\ handles \in [Keys -> HandleType]
      /\ PassInv(cache, queue, fwd) /\ fwd \in PassType
  BY DEF LoopInv, TransferInv, ContentOK, TransfersOK, HandlesOK, PassInv, PassOK
<1>2. HostStep
  BY <1>1, LoopIsHost
<1>3. TransferInv' /\ LifecycleStep
  BY <1>1, <1>2, HostKeeps, HostLifecycle
<1>4. PassInv(cache', queue', fwd')
  BY <1>1, PassKeeps
<1>5. Keys # {} => TrackingOK(handles', tracked', step')
  BY <1>1, TrackingKeeps DEF LoopInv
<1>6. tracked' \subseteq Keys
  BY <1>1, TrackedAreExperts DEF LoopInv
<1> QED
  BY <1>3, <1>4, <1>5, <1>6 DEF LoopInv

(* The invariant holds in every reachable state of the loop.               *)
LEMMA LoopInvariant == PSpec => []LoopInv
  BY InitLoopInv, NextLoopInv, PTL DEF PSpec

-----------------------------------------------------------------------------
(* Prefetching and demoting do not endanger what the scheduler ensures:    *)
(* whatever fails in a pass or a callback, an expert that can be looked up *)
(* on the GPU has its own weights there, a slot is in use exactly for one  *)
(* transfer, and the limits are kept.                                      *)
THEOREM LoopKeepsContent ==
    PSpec => [](PublishedContent /\ SlotsOwned /\ WithinLimits)
<1>1. LoopInv => PublishedContent /\ SlotsOwned /\ WithinLimits
  BY InvariantContent, InvariantSlots, InvariantLimits DEF LoopInv
<1> QED
  BY <1>1, LoopInvariant, PTL

(* With passes, prefetches and polls interleaved in any way, no transfer   *)
(* ends before the device has brought all its bytes, and the end of one    *)
(* that was cancelled moves no expert.                                     *)
THEOREM LoopLifecycle == PSpec => ImplementsLifecycle
<1>1. PInit => Lifecycle!LifecycleInit
  BY InitLifecycle DEF PInit, FInit
<1>2. ASSUME LoopInv, [PNext]_pvars
      PROVE  [Lifecycle!LifecycleNext]_<<[k \in Keys |-> handles[k].status], Complete,
                                      ToSet(cache.gpu.order)>>
  BY <1>2, NextLoopInv DEF LifecycleStep
<1> QED
  BY <1>1, <1>2, LoopInvariant, PTL DEF PSpec, ImplementsLifecycle, Lifecycle!LifecycleSpec

(* When a layer is about to run, every transfer in flight is one the       *)
(* prefetch engine tracks, and all it tracks is for that layer or a later  *)
(* one, whatever ended, failed or was refused before.                      *)
THEOREM PrefetchesTracked == PSpec => []NoStalePrefetch
<1>1. ASSUME LoopInv
      PROVE  NoStalePrefetch
  <2>1. CASE Keys = {}
    BY <1>1, <2>1 DEF LoopInv, NoStalePrefetch
  <2>2. CASE Keys # {}
    BY <1>1, <2>2 DEF LoopInv, TrackingOK, InFlight, NoStalePrefetch
  <2> QED
    BY <2>1, <2>2
<1> QED
  BY <1>1, LoopInvariant, PTL

(* A pass leaves no expert on the GPU that was not there when it began,    *)
(* and takes none away if there was room for all it needed.                *)
THEOREM PassRestoresResidency ==
    ASSUME IsFiniteSet(Keys)
    PROVE  PSpec => []ResidencyRestored
<1>1. ASSUME LoopInv
      PROVE  ResidencyRestored
  <2> SUFFICES ASSUME fwd.phase = "release", fwd.todo = {}
               PROVE  /\ GpuExperts \subseteq fwd.before
                      /\ Cardinality(fwd.before \cup fwd.working) <= GpuSlots =>
                            GpuExperts = fwd.before
    BY DEF ResidencyRestored
  <2>1. GpuExperts = Held(cache, "gpu")
    BY DEF GpuExperts, Held, HeldIn
  <2>2. fwd.before \cup fwd.working \in SUBSET Keys
    BY <1>1 DEF LoopInv, PassInv, PassOK, PassType
  <2>3. IsFiniteSet(fwd.before \cup fwd.working)
    BY <2>2, FS_Subset
  <2> QED
    BY <1>1, <2>1, <2>3 DEF LoopInv, PassInv, ResidencyOK, RoomForAll
<1> QED
  BY <1>1, LoopInvariant, PTL

(* With no slot in use and nothing on the stream, a slot can be had if the *)
(* budget is for one at all.                                               *)
LEMMA SlotToBeHad ==
    ASSUME TransferInv, SlotBytes <= BudgetBytes, Active = {}, stream = <<>>
    PROVE  AcquiredSlot(pool, stream) # NoSlot
<1>1. /\ pool \in PoolType /\ pool.slots \in Seq(SlotType)
      /\ DOMAIN pool.slots = 1..Len(pool.slots) /\ Len(pool.slots) \in Nat
  BY DEF TransferInv, TransfersOK, PoolType
<1>2. \A i \in 1..Len(pool.slots) : ~pool.slots[i].in_use
  BY DEF TransferInv, TransfersOK, SlotsHeld, Active, ActiveIn
<1>3. \A i \in 1..Len(pool.slots) : i \in Reusable(pool, stream)
  BY <1>1, <1>2 DEF Reusable, EventDone, Contains
<1>4. CASE Len(pool.slots) = 0
  <2>1. pool.used_bytes = 0 /\ CanReserve(pool)
    <3>1. pool.used_bytes = 0 * SlotBytes
      BY <1>4 DEF TransferInv, TransfersOK, Limited
    <3> QED
      BY <3>1, PoolAssumption DEF CanReserve
  <2>2. Reusable(pool, stream) = {}
    BY <1>1, <1>4 DEF Reusable
  <2> QED
    BY <1>4, <2>1, <2>2 DEF AcquiredSlot, NoSlot
<1>5. CASE Len(pool.slots) # 0
  <2>1. Reusable(pool, stream) \in SUBSET (1..Len(pool.slots))
    BY <1>1 DEF Reusable
  <2>2. Reusable(pool, stream) # {}
    BY <1>1, <1>3, <1>5
  <2>3. Min(Reusable(pool, stream)) \in 1..Len(pool.slots)
    BY <1>1, <2>1, <2>2, LeastPlace
  <2>4. AcquiredSlot(pool, stream) = Min(Reusable(pool, stream))
    BY <2>2 DEF AcquiredSlot
  <2> QED
    BY <1>1, <2>3, <2>4 DEF NoSlot
<1> QED
  BY <1>4, <1>5

(* The layer gets what it asks for, if the budget is for a slot at all.    *)
THEOREM LayersServed ==
    ASSUME SlotBytes <= BudgetBytes
    PROVE  PSpec => []LayerServed
<1>1. ASSUME LoopInv
      PROVE  LayerServed
  <2> SUFFICES ASSUME NEW k \in Keys
               PROVE  /\ At("submit", k) /\ IsDuplicate(Request(k)) => k \in Active
                      /\ At("execute", k) =>
                            /\ Resident(cache, "cpu", k)
                            /\ \A i \in DOMAIN queue : IsNext(i) => queue[i] = Request(k)
                            /\ Active = {} /\ stream = <<>> => CanTransfer(k)
    BY DEF LayerServed
  <2>1. ASSUME At("submit", k), IsDuplicate(Request(k))
        PROVE  k \in Active
    <3>1. queue = <<>>
      BY <1>1, <2>1 DEF LoopInv, PassInv, OwnRequest, At
    <3> QED
      BY <2>1, <3>1 DEF IsDuplicate, Request
  <2>2. ASSUME At("execute", k)
        PROVE  /\ Resident(cache, "cpu", k)
               /\ \A i \in DOMAIN queue : IsNext(i) => queue[i] = Request(k)
    <3>1. queue = <<Request(k)>> /\ k \in Held(cache, "cpu")
      BY <1>1, <2>2 DEF LoopInv, PassInv, OwnRequest, Asking, At
    <3>2. Resident(cache, "cpu", k)
      BY <1>1, <3>1, CacheOKTiers, HeldResident
      DEF LoopInv, TransferInv, ContentOK, Resident, Held, Tiers
    <3> QED
      BY <3>1, <3>2
  <2>3. ASSUME At("execute", k), Active = {}, stream = <<>>
        PROVE  CanTransfer(k)
    BY <1>1, <2>2, <2>3, SlotToBeHad DEF LoopInv, CanTransfer
  <2> QED
    BY <2>1, <2>2, <2>3
<1> QED
  BY <1>1, LoopInvariant, PTL
=============================================================================
