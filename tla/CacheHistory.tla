---------------------------- MODULE CacheHistory ----------------------------
(***************************************************************************)
(* CacheManager with a record of how its callers used it, kept from the    *)
(* calls alone: per tier, the experts used so far by latest use (recent)   *)
(* and the uses of each resident expert since it entered (uses, counted up *)
(* to MaxAccess).  A get() is a use of the tier that answers, a put() of   *)
(* the tier it addresses.                                                  *)
(***************************************************************************)
EXTENDS CacheManager

VARIABLES recent, uses

NoUses == [t \in Tiers |-> [k \in Keys |-> 0]]

HInit == Init /\ recent = [t \in Tiers |-> <<>>] /\ uses = NoUses

\* The calls' effect on the history, given the tier used (if any) for k.
Uses(tier, k) ==
    /\ recent' = [recent EXCEPT ![tier] = MoveToMru(@, k)]
    /\ uses' = [t \in Tiers |-> [j \in Keys |->
                  IF ~Resident(cache', t, j) THEN 0
                  ELSE IF t = tier /\ j = k THEN Smaller(uses[t][j] + 1, MaxAccess)
                  ELSE uses[t][j]]]

Forgets(tiers, k) ==
    /\ recent' = [t \in Tiers |->
                    IF t \in tiers THEN Without(recent[t], k) ELSE recent[t]]
    /\ uses' = [t \in Tiers |-> [j \in Keys |->
                  IF Resident(cache', t, j) THEN uses[t][j] ELSE 0]]

HGet(k) ==
    /\ CallGet(k)
    /\ \/ Resident(cache, "gpu", k) /\ Uses("gpu", k)
       \/ ~Resident(cache, "gpu", k) /\ Resident(cache, "cpu", k) /\ Uses("cpu", k)
       \/ ~Resident(cache, "gpu", k) /\ ~Resident(cache, "cpu", k) /\ Forgets({}, k)

HPut(k, device) == CallPut(k, device) /\ Uses(TierOf(device), k)

HEvict(device) == CallEvict(device) /\ Forgets({}, NoKey)

\* A demoted expert leaves by the caller's choice: its past use is forgotten.
HDemote(k) == CallDemote(k) /\ Forgets({"gpu"}, k)

HNext ==
    \/ \E k \in Keys : HGet(k) \/ HDemote(k)
    \/ \E device \in UsedDevices :
          HEvict(device) \/ \E k \in Keys : HPut(k, device)

hvars == <<cache, recent, uses>>

HSpec == HInit /\ [][HNext]_hvars

-----------------------------------------------------------------------------
IsSuffixOf(s, whole) ==
    Len(s) <= Len(whole) /\ s = SubSeq(whole, Len(whole) - Len(s) + 1, Len(whole))

(* LRU: a tier holds exactly the experts most recently used there, however *)
(* lookups, refreshes, insertions, evictions and demotions alternate: no   *)
(* expert is kept while one used later was given up.                       *)
HoldsMostRecent == \A t \in Tiers : IsSuffixOf(cache[t].order, recent[t])

\* k left tier t, by eviction and not by demotion.
WasEvicted(t, k) ==
    /\ Resident(cache, t, k) /\ ~Resident(cache', t, k)
    /\ Contains(recent'[t], k)

UsedLater(t, j, k) ==
    \E m, n \in 1..Len(recent[t]) : recent[t][m] = j /\ recent[t][n] = k /\ m > n

(* LFU: an expert evicted from a tier was used there no more often than    *)
(* any that stays, and among equals it was the one unused the longest.     *)
HotterSurvives ==
    [][\A t \in Tiers, j, k \in Keys :
          (WasEvicted(t, k) /\ Resident(cache, t, j) /\ Resident(cache', t, j))
          => \/ uses[t][k] < uses[t][j]
             \/ uses[t][k] = uses[t][j] /\ UsedLater(t, j, k)]_hvars
=============================================================================
