----------------------- MODULE TransferSchedulerProofs -----------------------
(***************************************************************************)
(* Theorems about the transfer scheduler, for any experts, cache, pool and *)
(* failures.  The invariant (TransferInv) says who owns which pinned slot, *)
(* for whom the copies on the stream are made, and where the bytes of an   *)
(* outstanding transfer are: in its buffers or on their way there.         *)
(***************************************************************************)
EXTENDS TransferScheduler, CacheOpsProofs

USE SlotsAssumption, PolicyAssumption, NoKeyAssumption, PoolAssumption,
    SchedulerAssumption

-----------------------------------------------------------------------------
(* A set of places that is not empty has a least one.                      *)
LEMMA LeastPlace ==
    ASSUME NEW n \in Nat, NEW S \in SUBSET (1..n), S # {}
    PROVE  Min(S) \in S /\ \A j \in S : Min(S) <= j
<1> DEFINE I == 1..n
           UpTo(i) == 1..i
           Sets == {UpTo(i) : i \in S}
<1>1. IsFiniteSet(I)
  BY FS_Interval
<1>2. Sets \subseteq FiniteSubsetsOf(I) /\ Sets # {}
  <2>1. \A i \in S : UpTo(i) \subseteq I
    OBVIOUS
  <2> HIDE DEF UpTo, I
  <2>2. Sets \subseteq SUBSET I /\ Sets # {}
    BY <2>1
  <2> QED
    BY <1>1, <2>2, FS_FiniteSubsetsOfFinite
<1>3. PICK i \in S : \A j \in S : <<UpTo(j), UpTo(i)>> \notin StrictSubsetOrdering(I)
  <2>1. PICK A \in Sets : \A B \in Sets : <<B, A>> \notin StrictSubsetOrdering(I)
    <3> HIDE DEF Sets, I
    <3> QED
      BY <1>1, <1>2, FS_StrictSubsetOrderingWellFounded, WFMin
  <2> QED
    BY <2>1
<1>4. ASSUME NEW j \in S, j < i
      PROVE  FALSE
  <2>1. UpTo(j) \subseteq UpTo(i) /\ i \in UpTo(i) /\ i \notin UpTo(j) /\ UpTo(i) \subseteq I
    BY <1>4
  <2>2. <<UpTo(j), UpTo(i)>> \in StrictSubsetOrdering(I)
    <3> HIDE DEF UpTo, I
    <3> QED
      BY <2>1 DEF StrictSubsetOrdering
  <2> QED
    BY <1>3, <2>2
<1>5. \A j \in S : i <= j
  BY <1>4
<1> QED
  BY <1>5 DEF Min

(* A set of places that is not empty has a greatest one: the least place   *)
(* of its mirror image.                                                    *)
LEMMA GreatestPlace ==
    ASSUME NEW n \in Nat, NEW S \in SUBSET (1..n), S # {}
    PROVE  Max(S) \in S
<1> DEFINE T == {i \in 1..n : n + 1 - i \in S}
<1>1. T \in SUBSET (1..n) /\ T # {}
  <2>1. PICK i \in S : TRUE
    OBVIOUS
  <2>2. n + 1 - i \in 1..n /\ n + 1 - (n + 1 - i) = i
    BY <2>1
  <2>3. n + 1 - i \in T
    BY <2>1, <2>2
  <2> QED
    BY <2>3
<1>2. PICK m \in T : \A j \in T : m <= j
  <2> HIDE DEF T
  <2> QED
    BY <1>1, LeastPlace
<1> DEFINE g == n + 1 - m
<1>3. g \in S /\ m \in 1..n
  BY <1>2
<1>4. ASSUME NEW j \in S
      PROVE  g >= j
  <2>1. n + 1 - j \in 1..n /\ n + 1 - (n + 1 - j) = j
    BY <1>4
  <2>2. n + 1 - j \in T
    BY <2>1
  <2>3. m <= n + 1 - j
    BY <1>2, <2>2
  <2> QED
    BY <1>3, <2>1, <2>3
<1> HIDE DEF g
<1> QED
  BY <1>3, <1>4 DEF Max
-----------------------------------------------------------------------------
(***************************************************************************)
(* The pool.                                                               *)
(***************************************************************************)
PoolType == [used_bytes : Nat, slots : Seq(SlotType)]

Limited(q) ==
    /\ q.used_bytes = Len(q.slots) * SlotBytes
    /\ q.used_bytes <= BudgetBytes

\* q with slot i in the state s.
WithSlot(q, i, s) == [q EXCEPT !.slots = [@ EXCEPT ![i] = s]]

(* Changing one slot leaves the others and the pool's size as they are.    *)
LEMMA SlotReplaced ==
    ASSUME NEW q \in PoolType, NEW i \in 1..Len(q.slots), NEW s \in SlotType
    PROVE  /\ WithSlot(q, i, s) \in PoolType
           /\ WithSlot(q, i, s).used_bytes = q.used_bytes
           /\ Len(WithSlot(q, i, s).slots) = Len(q.slots)
           /\ WithSlot(q, i, s).slots[i] = s
           /\ \A j \in 1..Len(q.slots) : j # i => WithSlot(q, i, s).slots[j] = q.slots[j]
<1> DEFINE t == [q.slots EXCEPT ![i] = s]
<1>1. q.slots \in Seq(SlotType) /\ Len(q.slots) \in Nat
  BY DEF PoolType
<1>2. /\ t \in Seq(SlotType) /\ Len(t) = Len(q.slots) /\ t[i] = s
      /\ \A j \in 1..Len(q.slots) : j # i => t[j] = q.slots[j]
  BY <1>1
<1>3. WithSlot(q, i, s) = [q EXCEPT !.slots = t]
  BY DEF WithSlot
<1> HIDE DEF t
<1> QED
  BY <1>2, <1>3 DEF PoolType

(* release() and mark_transfer_complete() change one flag of one slot.     *)
LEMMA ReleaseIsSlot ==
    ASSUME NEW q \in PoolType, NEW i \in 1..Len(q.slots)
    PROVE  /\ Release(q, i) = WithSlot(q, i, [q.slots[i] EXCEPT !.in_use = FALSE])
           /\ MarkComplete(q, i) = WithSlot(q, i, [q.slots[i] EXCEPT !.ready = TRUE])
  BY DEF Release, MarkComplete, WithSlot

\* In a, slot i was given out of q, where no one used it.
Claims(q, a, i) ==
    /\ a \in PoolType
    /\ Limited(q) => Limited(a)
    /\ Len(q.slots) <= Len(a.slots)
    /\ i \in 1..Len(a.slots)
    /\ a.slots[i].in_use /\ ~a.slots[i].ready
    /\ i \in 1..Len(q.slots) => ~q.slots[i].in_use
    /\ \A j \in 1..Len(a.slots) : j # i => j \in 1..Len(q.slots) /\ a.slots[j] = q.slots[j]

\* In b, no slot is used but those used in q, and they are as they were.
Borrows(q, b) ==
    /\ b \in PoolType
    /\ Limited(q) => Limited(b)
    /\ Len(q.slots) <= Len(b.slots)
    /\ \A j \in 1..Len(b.slots) :
          b.slots[j].in_use => j \in 1..Len(q.slots) /\ q.slots[j].in_use
    /\ \A j \in 1..Len(q.slots) : q.slots[j].in_use => b.slots[j] = q.slots[j]

(* A slot record is given by its three fields.                             *)
LEMMA SlotGivenOut ==
    ASSUME NEW x \in SlotType
    PROVE  [[x EXCEPT !.in_use = TRUE] EXCEPT !.ready = FALSE]
              = [in_use |-> TRUE, ready |-> FALSE, content |-> x.content]
<1> DEFINE y == [x EXCEPT !.in_use = TRUE]
<1>1. y \in SlotType /\ y.in_use = TRUE /\ y.content = x.content
  BY DEF SlotType
<1> HIDE DEF y
<1> DEFINE z == [y EXCEPT !.ready = FALSE]
<1>2. z \in SlotType /\ z.in_use = TRUE /\ z.ready = FALSE /\ z.content = x.content
  BY <1>1 DEF SlotType
<1> HIDE DEF z
<1>3. z = [in_use |-> TRUE, ready |-> FALSE, content |-> x.content]
  BY <1>2 DEF SlotType
<1> QED
  BY <1>3 DEF y, z

(* The slot acquire() answers with is one in use by no one, or a new one.  *)
LEMMA AcquiredSlotFree ==
    ASSUME NEW q \in PoolType, NEW s, AcquiredSlot(q, s) # NoSlot
    PROVE  LET i == AcquiredSlot(q, s)
           IN  \/ i \in 1..Len(q.slots) /\ ~q.slots[i].in_use
               \/ i = Len(q.slots) + 1 /\ CanReserve(q)
<1>1. /\ q.slots \in Seq(SlotType) /\ Len(q.slots) \in Nat
      /\ DOMAIN q.slots = 1..Len(q.slots)
  BY DEF PoolType
<1>2. CASE Reusable(q, s) # {}
  <2>1. Reusable(q, s) \in SUBSET (1..Len(q.slots))
    BY <1>1 DEF Reusable
  <2>2. Min(Reusable(q, s)) \in Reusable(q, s)
    BY <1>1, <1>2, <2>1, LeastPlace
  <2>3. AcquiredSlot(q, s) = Min(Reusable(q, s))
    BY <1>2 DEF AcquiredSlot
  <2> QED
    BY <1>1, <2>2, <2>3 DEF Reusable
<1>3. CASE Reusable(q, s) = {} /\ CanReserve(q)
  BY <1>3 DEF AcquiredSlot
<1>4. CASE Reusable(q, s) = {} /\ ~CanReserve(q)
  BY <1>4 DEF AcquiredSlot
<1> QED
  BY <1>2, <1>3, <1>4

(* acquire() gives out one slot, clears its event and stays in the budget. *)
LEMMA AcquireClaims ==
    ASSUME NEW q \in PoolType, NEW s, AcquiredSlot(q, s) # NoSlot
    PROVE  Claims(q, Acquire(q, s), AcquiredSlot(q, s))
<1> DEFINE i == AcquiredSlot(q, s)
           a == Acquire(q, s)
<1>1. /\ q.slots \in Seq(SlotType) /\ Len(q.slots) \in Nat /\ q.used_bytes \in Nat
      /\ DOMAIN q.slots = 1..Len(q.slots)
  BY DEF PoolType
<1>2. CASE i \in 1..Len(q.slots) /\ ~q.slots[i].in_use
  <2> DEFINE given == [in_use |-> TRUE, ready |-> FALSE, content |-> q.slots[i].content]
  <2>0. q.slots[i] \in SlotType
    BY <1>1, <1>2
  <2>1. given \in SlotType /\ given.in_use /\ ~given.ready
    BY <2>0 DEF SlotType
  <2>2. a = WithSlot(q, i, given)
    <3>1. a = [q EXCEPT !.slots[i].in_use = TRUE, !.slots[i].ready = FALSE]
      BY <1>1, <1>2 DEF Acquire, NoSlot
    <3>3. [[q.slots[i] EXCEPT !.in_use = TRUE] EXCEPT !.ready = FALSE] = given
      BY <2>0, SlotGivenOut
    <3> QED
      BY <1>1, <1>2, <3>1, <3>3 DEF WithSlot, PoolType
  <2> HIDE DEF a, given, i
  <2>3. /\ a \in PoolType /\ a.used_bytes = q.used_bytes
        /\ Len(a.slots) = Len(q.slots) /\ a.slots[i] = given
        /\ \A j \in 1..Len(q.slots) : j # i => a.slots[j] = q.slots[j]
    BY <1>2, <2>1, <2>2, SlotReplaced
  <2>4. Claims(q, a, i)
    BY <1>1, <1>2, <2>1, <2>3 DEF Claims, Limited
  <2> QED
    BY <2>4 DEF a, i
<1>3. CASE i = Len(q.slots) + 1 /\ CanReserve(q)
  <2> DEFINE fresh == [in_use |-> TRUE, ready |-> FALSE, content |-> Blank]
             longer == Append(q.slots, fresh)
  <2>1. a = [used_bytes |-> q.used_bytes + SlotBytes, slots |-> longer]
    BY <1>1, <1>3 DEF Acquire, NoSlot
  <2>2. fresh \in SlotType
    BY DEF SlotType, Blank
  <2>3. /\ longer \in Seq(SlotType) /\ Len(longer) = Len(q.slots) + 1
        /\ longer[Len(q.slots) + 1] = fresh
        /\ \A j \in 1..Len(q.slots) : longer[j] = q.slots[j]
    BY <1>1, <2>2
  <2>4. q.used_bytes + SlotBytes <= BudgetBytes /\ SlotBytes \in Nat /\ BudgetBytes \in Nat
    BY <1>3 DEF CanReserve
  <2> HIDE DEF a, i, longer
  <2>5. a \in PoolType /\ a.used_bytes = q.used_bytes + SlotBytes /\ a.slots = longer
    BY <1>1, <2>1, <2>3, <2>4 DEF PoolType
  <2>6. Limited(q) => Limited(a)
    <3>1. (Len(q.slots) + 1) * SlotBytes = Len(q.slots) * SlotBytes + SlotBytes
      BY <1>1, <2>4
    <3> QED
      BY <1>1, <2>3, <2>4, <2>5, <3>1 DEF Limited
  <2>7. Claims(q, a, i)
    <3>1. i \in 1..Len(a.slots) /\ a.slots[i] = fresh /\ ~(i \in 1..Len(q.slots))
      BY <1>1, <1>3, <2>3, <2>5
    <3>2. \A j \in 1..Len(a.slots) : j # i =>
             j \in 1..Len(q.slots) /\ a.slots[j] = q.slots[j]
      BY <1>1, <1>3, <2>3, <2>5
    <3> QED
      BY <1>1, <2>3, <2>5, <2>6, <3>1, <3>2 DEF Claims
  <2> QED
    BY <2>7 DEF a, i
<1> QED
  BY <1>2, <1>3, AcquiredSlotFree

(* Staging fills the slot given out, and a complete one holds the expert.  *)
LEMMA StagedClaims ==
    ASSUME NEW q \in PoolType, NEW a, NEW i, Claims(q, a, i), NEW k \in Keys, NEW n \in Nat
    PROVE  /\ Claims(q, Staged(a, i, k, n), i)
           /\ n = Parts => Staged(a, i, k, n).slots[i].content = ExpertBytes(k)
<1> DEFINE bytes == [p \in 1..Parts |-> IF p <= n THEN k ELSE a.slots[i].content[p]]
           filled == [a.slots[i] EXCEPT !.content = bytes]
           b == Staged(a, i, k, n)
<1>1. a \in PoolType /\ i \in 1..Len(a.slots) /\ a.slots[i] \in SlotType
  BY DEF Claims, PoolType
<1>2. bytes \in [1..Parts -> Keys \cup {NoKey}]
  BY <1>1 DEF SlotType
<1>3. n = Parts => bytes = ExpertBytes(k)
  BY DEF ExpertBytes
<1>4. b = WithSlot(a, i, filled)
  BY DEF Staged, WithSlot
<1> HIDE DEF b, bytes
<1>5. /\ filled \in SlotType /\ filled.content = bytes
      /\ filled.in_use = a.slots[i].in_use /\ filled.ready = a.slots[i].ready
  BY <1>1, <1>2 DEF SlotType
<1> HIDE DEF filled
<1>6. /\ b \in PoolType /\ b.used_bytes = a.used_bytes
      /\ Len(b.slots) = Len(a.slots) /\ b.slots[i] = filled
      /\ \A j \in 1..Len(a.slots) : j # i => b.slots[j] = a.slots[j]
  BY <1>1, <1>4, <1>5, SlotReplaced
<1>7. Claims(q, b, i)
  BY <1>5, <1>6 DEF Claims, Limited
<1> QED
  BY <1>3, <1>5, <1>6, <1>7 DEF b

(* What was given out and is released was only borrowed.                   *)
LEMMA ClaimReleased ==
    ASSUME NEW q \in PoolType, NEW a, NEW i, Claims(q, a, i)
    PROVE  Borrows(q, Release(a, i))
<1> DEFINE freed == [a.slots[i] EXCEPT !.in_use = FALSE]
           b == Release(a, i)
<1>1. a \in PoolType /\ i \in 1..Len(a.slots) /\ a.slots[i] \in SlotType
  BY DEF Claims, PoolType
<1>2. freed \in SlotType /\ ~freed.in_use
  BY <1>1 DEF SlotType
<1>3. b = WithSlot(a, i, freed)
  BY <1>1, ReleaseIsSlot
<1> HIDE DEF b, freed
<1>4. /\ b \in PoolType /\ b.used_bytes = a.used_bytes
      /\ Len(b.slots) = Len(a.slots) /\ b.slots[i] = freed
      /\ \A j \in 1..Len(a.slots) : j # i => b.slots[j] = a.slots[j]
  BY <1>1, <1>2, <1>3, SlotReplaced
<1>5. Len(q.slots) \in Nat /\ Len(a.slots) \in Nat
  BY <1>1 DEF PoolType
<1>6. Borrows(q, b)
  BY <1>2, <1>4, <1>5 DEF Claims, Borrows, Limited
<1> QED
  BY <1>6 DEF b

-----------------------------------------------------------------------------
(***************************************************************************)
(* The stream.                                                             *)
(***************************************************************************)
Items ==
    [op : {"copy"}, slot : Nat, part : 1..Parts, dest : Keys \cup {NoKey}]
      \cup [op : {"landed"}, dest : Keys]
      \cup [op : {"ready"}, slot : Nat]

\* The items of s name only slots of q.
StreamOK(s, q) ==
    /\ s \in Seq(Items)
    /\ \A j \in 1..Len(s) : s[j].op # "landed" => s[j].slot \in 1..Len(q.slots)

(* An item is a copy or one of the two events, with what they name.        *)
LEMMA ItemForms ==
    ASSUME NEW x \in Items
    PROVE  \/ /\ IsCopy(x) /\ x = Copy(x.slot, x.part, x.dest)
              /\ x.part \in 1..Parts /\ x.dest \in Keys \cup {NoKey}
              /\ x.op # "landed"
           \/ ~IsCopy(x) /\ x.dest \in Keys /\ x = Landed(x.dest) /\ x.op = "landed"
           \/ ~IsCopy(x) /\ x = Ready(x.slot) /\ x.op # "landed"
  BY DEF Items, IsCopy, Copy, Landed, Ready

(* The items the host enqueues, with their fields.                         *)
LEMMA EnqueuedItems ==
    /\ \A i \in Nat, p \in 1..Parts, k \in Keys \cup {NoKey} :
          /\ Copy(i, p, k) \in Items /\ IsCopy(Copy(i, p, k))
          /\ Copy(i, p, k).slot = i /\ Copy(i, p, k).part = p /\ Copy(i, p, k).dest = k
          /\ Copy(i, p, k).op # "landed"
    /\ \A k \in Keys :
          Landed(k) \in Items /\ ~IsCopy(Landed(k)) /\ Landed(k).op = "landed"
    /\ \A i \in Nat :
          /\ Ready(i) \in Items /\ ~IsCopy(Ready(i))
          /\ Ready(i).op # "landed" /\ Ready(i).slot = i
  BY DEF Items, IsCopy, Copy, Landed, Ready

\* e is s with n copies of an expert's parts behind it.
CopiesAdded(s, e, i, n, dest) ==
    /\ e \in Seq(Items) /\ Len(e) = Len(s) + n
    /\ \A j \in 1..Len(s) : e[j] = s[j]
    /\ \A p \in 1..n : e[Len(s) + p] = Copy(i, p, dest)
    /\ \A j \in 1..(Len(s) + n) : j \notin 1..Len(s) =>
          j - Len(s) \in 1..n /\ e[j] = Copy(i, j - Len(s), dest)

\* l is s with a transfer behind it: the copies, and the event behind them.
TransferAdded(s, l, i, k) ==
    /\ l \in Seq(Items) /\ Len(l) = Len(s) + Parts + 1
    /\ \A j \in 1..Len(s) : l[j] = s[j]
    /\ \A p \in 1..Parts : l[Len(s) + p] = Copy(i, p, k)
    /\ l[Len(l)] = Landed(k)
    /\ \A j \in 1..Len(l) :
          \/ j \in 1..Len(s)
          \/ j = Len(l)
          \/ j - Len(s) \in 1..Parts /\ l[j] = Copy(i, j - Len(s), k)

(* What transfer_staged_expert_to_gpu() adds after n parts.                *)
LEMMA EnqueuedProperties ==
    ASSUME NEW s \in Seq(Items), NEW i \in Nat, NEW n \in 0..Parts,
           NEW dest \in Keys \cup {NoKey}
    PROVE  CopiesAdded(s, Enqueued(s, i, n, dest), i, n, dest)
<1> DEFINE block == [p \in 1..n |-> Copy(i, p, dest)]
<1>1. \A p \in 1..n : p \in 1..Parts
  OBVIOUS
<1>2. \A p \in 1..n : Copy(i, p, dest) \in Items
  BY <1>1, EnqueuedItems
<1>3. /\ block \in Seq(Items) /\ Len(block) = n
      /\ \A p \in 1..n : block[p] = Copy(i, p, dest)
  BY <1>2
<1>4. Enqueued(s, i, n, dest) = s \o block
  BY DEF Enqueued
<1> HIDE DEF block
<1>5. /\ s \o block \in Seq(Items) /\ Len(s \o block) = Len(s) + n
      /\ \A j \in 1..Len(s) : (s \o block)[j] = s[j]
      /\ \A j \in 1..(Len(s) + n) : j \notin 1..Len(s) =>
            j - Len(s) \in 1..n /\ (s \o block)[j] = block[j - Len(s)]
  BY <1>3
<1>6. ASSUME NEW p \in 1..n
      PROVE  (s \o block)[Len(s) + p] = block[p]
  BY <1>3
<1> QED
  BY <1>3, <1>4, <1>5, <1>6 DEF CopiesAdded

(* What submit_async() adds: the copies, and the event behind them.        *)
LEMMA LaunchedProperties ==
    ASSUME NEW i \in Nat, NEW k \in Keys, stream \in Seq(Items)
    PROVE  TransferAdded(stream, Launched(i, k), i, k)
<1> DEFINE e == Enqueued(stream, i, Parts, k)
           l == Append(e, Landed(k))
<1>1. CopiesAdded(stream, e, i, Parts, k)
  <2>1. Parts \in 0..Parts /\ k \in Keys \cup {NoKey}
    OBVIOUS
  <2> QED
    BY <2>1, EnqueuedProperties
<1>2. Landed(k) \in Items /\ Len(stream) \in Nat /\ Parts \in Nat
  BY EnqueuedItems
<1> HIDE DEF e
<1>3. /\ l \in Seq(Items) /\ Len(l) = Len(e) + 1 /\ l[Len(e) + 1] = Landed(k)
      /\ Len(e) = Len(stream) + Parts
      /\ \A j \in 1..Len(e) : l[j] = e[j]
  <2>1. e \in Seq(Items) /\ Len(e) = Len(stream) + Parts
    BY <1>1 DEF CopiesAdded
  <2> QED
    BY <1>2, <2>1
<1>4. l = Launched(i, k)
  BY DEF e, Launched
<1> HIDE DEF l
<1>5. \A j \in 1..Len(stream) : l[j] = stream[j]
  BY <1>1, <1>2, <1>3 DEF CopiesAdded
<1>6. \A p \in 1..Parts : l[Len(stream) + p] = Copy(i, p, k)
  BY <1>1, <1>2, <1>3 DEF CopiesAdded
<1>7. \A j \in 1..Len(l) :
         \/ j \in 1..Len(stream)
         \/ j = Len(l)
         \/ j - Len(stream) \in 1..Parts /\ l[j] = Copy(i, j - Len(stream), k)
  BY <1>1, <1>2, <1>3 DEF CopiesAdded
<1> QED
  BY <1>2, <1>3, <1>4, <1>5, <1>6, <1>7 DEF TransferAdded

-----------------------------------------------------------------------------
(***************************************************************************)
(* The invariant of the transfers, over a pool q, a stream s, handles h    *)
(* and device buffers b.                                                   *)
(***************************************************************************)
ActiveIn(h) == {k \in Keys : h[k].status # "none"}

HandlesOK(h) ==
    /\ h \in [Keys -> HandleType]
    /\ IsFiniteSet(ActiveIn(h)) /\ Cardinality(ActiveIn(h)) <= MaxConcurrent

BufferType == [Keys -> [1..Parts -> Keys \cup {NoKey}]]

\* An outstanding transfer owns a slot of its own that holds its expert;
\* the slots in use are those owned.
SlotsHeld(q, h) ==
    /\ \A k \in ActiveIn(h) :
          /\ h[k].slot \in 1..Len(q.slots)
          /\ q.slots[h[k].slot].in_use /\ ~q.slots[h[k].slot].ready
          /\ q.slots[h[k].slot].content = ExpertBytes(k)
    /\ \A k, l \in ActiveIn(h) : h[k].slot = h[l].slot => k = l
    /\ \A i \in 1..Len(q.slots) :
          q.slots[i].in_use => \E k \in ActiveIn(h) : h[k].slot = i

\* A copy into an expert's buffers belongs to its outstanding transfer:
\* it reads the slot owned, and the transfer's event is behind it.
CopiesTracked(s, h) ==
    \A j \in 1..Len(s) : IsCopy(s[j]) /\ s[j].dest \in Keys =>
        /\ s[j].dest \in ActiveIn(h)
        /\ s[j].slot = h[s[j].dest].slot
        /\ \E l \in 1..Len(s) : l > j /\ s[l] = Landed(s[j].dest)

\* Each part of an outstanding transfer is in its buffer or on its way.
PartComing(s, k, p) ==
    \E j \in 1..Len(s) : IsCopy(s[j]) /\ s[j].dest = k /\ s[j].part = p

Arriving(s, h, b) ==
    \A k \in ActiveIn(h), p \in 1..Parts : b[k][p] = k \/ PartComing(s, k, p)

TransfersOK(q, s, h, b) ==
    /\ q \in PoolType /\ Limited(q)
    /\ StreamOK(s, q)
    /\ HandlesOK(h)
    /\ b \in BufferType
    /\ SlotsHeld(q, h)
    /\ CopiesTracked(s, h)
    /\ Arriving(s, h, b)

(* A slot that was only borrowed disturbs no transfer.                     *)
LEMMA BorrowedKeeps ==
    ASSUME NEW q \in PoolType, NEW r, Borrows(q, r), NEW s, NEW h, NEW b,
           TransfersOK(q, s, h, b)
    PROVE  TransfersOK(r, s, h, b)
<1>1. r \in PoolType /\ Limited(r) /\ Len(q.slots) \in Nat /\ Len(r.slots) \in Nat
  BY DEF TransfersOK, Borrows, PoolType
<1>2. \A i \in 1..Len(q.slots) : i \in 1..Len(r.slots)
  BY <1>1 DEF Borrows
<1>3. StreamOK(s, r)
  BY <1>2 DEF StreamOK, TransfersOK
<1>4. SlotsHeld(r, h)
  <2>1. ASSUME NEW k \in ActiveIn(h)
        PROVE  /\ h[k].slot \in 1..Len(r.slots)
               /\ r.slots[h[k].slot].in_use /\ ~r.slots[h[k].slot].ready
               /\ r.slots[h[k].slot].content = ExpertBytes(k)
    <3>1. h[k].slot \in 1..Len(q.slots) /\ q.slots[h[k].slot].in_use
      BY DEF TransfersOK, SlotsHeld
    <3>2. r.slots[h[k].slot] = q.slots[h[k].slot] /\ h[k].slot \in 1..Len(r.slots)
      BY <1>2, <3>1 DEF Borrows
    <3> QED
      BY <3>1, <3>2 DEF TransfersOK, SlotsHeld
  <2>2. ASSUME NEW i \in 1..Len(r.slots), r.slots[i].in_use
        PROVE  \E k \in ActiveIn(h) : h[k].slot = i
    BY <2>2 DEF Borrows, TransfersOK, SlotsHeld
  <2> QED
    BY <2>1, <2>2 DEF TransfersOK, SlotsHeld
<1> QED
  BY <1>1, <1>3, <1>4 DEF TransfersOK

(* Copies enqueued for nobody disturb no transfer.                         *)
LEMMA StrayCopiesKeep ==
    ASSUME NEW q, NEW s, NEW h, NEW b, TransfersOK(q, s, h, b),
           NEW i \in 1..Len(q.slots), NEW n \in 0..Parts, NEW e,
           CopiesAdded(s, e, i, n, NoKey)
    PROVE  TransfersOK(q, e, h, b)
<1>1. /\ s \in Seq(Items) /\ e \in Seq(Items) /\ n \in Nat /\ i \in Nat
      /\ Len(s) \in Nat /\ Len(e) = Len(s) + n
      /\ \A j \in 1..Len(s) : j \in 1..Len(e) /\ e[j] = s[j]
  BY DEF CopiesAdded, TransfersOK, StreamOK
<1>2. ASSUME NEW j \in 1..Len(e), j \notin 1..Len(s)
      PROVE  IsCopy(e[j]) /\ e[j].slot = i /\ e[j].dest = NoKey
  <2>1. j - Len(s) \in 1..n /\ e[j] = Copy(i, j - Len(s), NoKey)
    BY <1>1, <1>2 DEF CopiesAdded
  <2>2. j - Len(s) \in 1..Parts
    BY <2>1
  <2> QED
    BY <1>1, <2>1, <2>2, EnqueuedItems
<1>3. StreamOK(e, q)
  <2>1. ASSUME NEW j \in 1..Len(e), e[j].op # "landed"
        PROVE  e[j].slot \in 1..Len(q.slots)
    <3>1. CASE j \in 1..Len(s)
      BY <1>1, <2>1, <3>1 DEF StreamOK, TransfersOK
    <3>2. CASE j \notin 1..Len(s)
      BY <1>2, <3>2
    <3> QED
      BY <3>1, <3>2
  <2> QED
    BY <1>1, <2>1 DEF StreamOK
<1>4. CopiesTracked(e, h)
  <2> SUFFICES ASSUME NEW j \in 1..Len(e), IsCopy(e[j]), e[j].dest \in Keys
               PROVE  /\ e[j].dest \in ActiveIn(h)
                      /\ e[j].slot = h[e[j].dest].slot
                      /\ \E l \in 1..Len(e) : l > j /\ e[l] = Landed(e[j].dest)
    BY DEF CopiesTracked
  <2>1. j \in 1..Len(s) /\ e[j] = s[j]
    BY <1>1, <1>2
  <2>2. /\ s[j].dest \in ActiveIn(h) /\ s[j].slot = h[s[j].dest].slot
        /\ \E l \in 1..Len(s) : l > j /\ s[l] = Landed(s[j].dest)
    BY <2>1 DEF TransfersOK, CopiesTracked
  <2> QED
    BY <1>1, <2>1, <2>2
<1>5. Arriving(e, h, b)
  <2>1. ASSUME NEW k, NEW p, PartComing(s, k, p)
        PROVE  PartComing(e, k, p)
    BY <1>1, <2>1 DEF PartComing
  <2> QED
    BY <2>1 DEF Arriving, TransfersOK
<1> QED
  BY <1>3, <1>4, <1>5 DEF TransfersOK

(* A transfer that starts owns the slot given out, and has all its parts   *)
(* on the stream, with the event behind them.                              *)
LEMMA TransferStarts ==
    ASSUME NEW q, NEW s, NEW h, NEW b, TransfersOK(q, s, h, b),
           NEW k \in Keys, k \notin ActiveIn(h), Cardinality(ActiveIn(h)) < MaxConcurrent,
           NEW a, NEW i, Claims(q, a, i), a.slots[i].content = ExpertBytes(k),
           NEW t, TransferAdded(s, t, i, k)
    PROVE  TransfersOK(a, t, [h EXCEPT ![k] = [status |-> "in_flight", slot |-> i]],
                       [b EXCEPT ![k] = Blank])
<1> DEFINE g == [h EXCEPT ![k] = [status |-> "in_flight", slot |-> i]]
           c == [b EXCEPT ![k] = Blank]
<1>1. /\ a \in PoolType /\ q \in PoolType /\ Limited(a)
      /\ Len(q.slots) \in Nat /\ Len(a.slots) \in Nat /\ Len(q.slots) <= Len(a.slots)
      /\ i \in 1..Len(a.slots) /\ i \in Nat
      /\ i \in 1..Len(q.slots) => ~q.slots[i].in_use
      /\ \A j \in 1..Len(a.slots) : j # i => j \in 1..Len(q.slots) /\ a.slots[j] = q.slots[j]
  BY DEF TransfersOK, Claims, PoolType
<1>2. h \in [Keys -> HandleType] /\ b \in BufferType
  BY DEF TransfersOK, HandlesOK
<1>3. /\ g \in [Keys -> HandleType]
      /\ g[k].status = "in_flight" /\ g[k].slot = i
      /\ \A l \in Keys : l # k => g[l] = h[l]
  BY <1>1, <1>2 DEF HandleType
<1>4. /\ c \in BufferType /\ \A l \in Keys : l # k => c[l] = b[l]
  BY <1>2 DEF BufferType, Blank
<1> HIDE DEF g, c
<1>5. ActiveIn(g) = ActiveIn(h) \cup {k}
  BY <1>3 DEF ActiveIn
<1>6. HandlesOK(g)
  <2>1. IsFiniteSet(ActiveIn(h)) /\ Cardinality(ActiveIn(h)) \in Nat
    BY FS_CardinalityType DEF TransfersOK, HandlesOK
  <2>2. IsFiniteSet(ActiveIn(g)) /\ Cardinality(ActiveIn(g)) = Cardinality(ActiveIn(h)) + 1
    BY <1>5, <2>1, FS_AddElement
  <2> QED
    BY <1>3, <2>1, <2>2 DEF HandlesOK
<1>7. /\ s \in Seq(Items) /\ t \in Seq(Items) /\ Len(s) \in Nat /\ Len(t) = Len(s) + Parts + 1
      /\ Parts \in Nat
      /\ \A j \in 1..Len(s) : j \in 1..Len(t) /\ t[j] = s[j]
  BY DEF TransferAdded, TransfersOK, StreamOK
<1>8. ASSUME NEW j \in 1..Len(t)
      PROVE  \/ j \in 1..Len(s) /\ t[j] = s[j]
             \/ j = Len(t) /\ ~IsCopy(t[j]) /\ t[j].op = "landed"
             \/ /\ IsCopy(t[j]) /\ t[j].slot = i /\ t[j].dest = k
                /\ j < Len(t)
  <2>1. CASE j \in 1..Len(s)
    BY <1>7, <2>1
  <2>2. CASE j = Len(t)
    <3>1. t[j] = Landed(k)
      BY <2>2 DEF TransferAdded
    <3> QED
      BY <2>2, <3>1, EnqueuedItems
  <2>3. CASE j - Len(s) \in 1..Parts /\ t[j] = Copy(i, j - Len(s), k)
    <3>1. k \in Keys \cup {NoKey}
      OBVIOUS
    <3>2. IsCopy(t[j]) /\ t[j].slot = i /\ t[j].dest = k
      BY <1>1, <2>3, <3>1, EnqueuedItems
    <3> QED
      BY <1>7, <2>3, <3>2
  <2> QED
    BY <2>1, <2>2, <2>3 DEF TransferAdded
<1>9. StreamOK(t, a)
  <2>1. ASSUME NEW j \in 1..Len(t), t[j].op # "landed"
        PROVE  t[j].slot \in 1..Len(a.slots)
    <3>1. CASE j \in 1..Len(s) /\ t[j] = s[j]
      <4>1. s[j].slot \in 1..Len(q.slots)
        BY <2>1, <3>1 DEF TransfersOK, StreamOK
      <4> QED
        BY <1>1, <3>1, <4>1
    <3>2. CASE t[j].slot = i
      BY <1>1, <3>2
    <3> QED
      BY <1>8, <2>1, <3>1, <3>2
  <2> QED
    BY <1>7, <2>1 DEF StreamOK
<1>10. SlotsHeld(a, g)
  <2>1. ASSUME NEW l \in ActiveIn(h)
        PROVE  /\ g[l] = h[l] /\ h[l].slot # i
               /\ h[l].slot \in 1..Len(a.slots)
               /\ a.slots[h[l].slot] = q.slots[h[l].slot]
    <3>1. h[l].slot \in 1..Len(q.slots) /\ q.slots[h[l].slot].in_use
      BY DEF TransfersOK, SlotsHeld
    <3>2. g[l] = h[l]
      BY <1>3 DEF ActiveIn
    <3> QED
      BY <1>1, <3>1, <3>2
  <2>2. ASSUME NEW l \in ActiveIn(g)
        PROVE  /\ g[l].slot \in 1..Len(a.slots)
               /\ a.slots[g[l].slot].in_use /\ ~a.slots[g[l].slot].ready
               /\ a.slots[g[l].slot].content = ExpertBytes(l)
    <3>1. CASE l = k
      BY <1>1, <1>3, <3>1 DEF Claims
    <3>2. CASE l \in ActiveIn(h)
      BY <2>1, <3>2 DEF TransfersOK, SlotsHeld
    <3> QED
      BY <1>5, <3>1, <3>2
  <2>3. ASSUME NEW l \in ActiveIn(g), NEW m \in ActiveIn(g), g[l].slot = g[m].slot
        PROVE  l = m
    BY <1>3, <1>5, <2>1, <2>3 DEF TransfersOK, SlotsHeld
  <2>4. ASSUME NEW j \in 1..Len(a.slots), a.slots[j].in_use
        PROVE  \E l \in ActiveIn(g) : g[l].slot = j
    <3>1. CASE j = i
      BY <1>3, <1>5, <3>1
    <3>2. CASE j # i
      <4>1. j \in 1..Len(q.slots) /\ q.slots[j].in_use
        BY <1>1, <2>4, <3>2
      <4>2. PICK l \in ActiveIn(h) : h[l].slot = j
        BY <4>1 DEF TransfersOK, SlotsHeld
      <4> QED
        BY <1>5, <2>1, <4>2
    <3> QED
      BY <3>1, <3>2
  <2> QED
    BY <2>2, <2>3, <2>4 DEF SlotsHeld
<1>11. CopiesTracked(t, g)
  <2> SUFFICES ASSUME NEW j \in 1..Len(t), IsCopy(t[j]), t[j].dest \in Keys
               PROVE  /\ t[j].dest \in ActiveIn(g)
                      /\ t[j].slot = g[t[j].dest].slot
                      /\ \E l \in 1..Len(t) : l > j /\ t[l] = Landed(t[j].dest)
    BY DEF CopiesTracked
  <2>1. CASE j \in 1..Len(s) /\ t[j] = s[j]
    <3>1. /\ s[j].dest \in ActiveIn(h) /\ s[j].slot = h[s[j].dest].slot
          /\ \E l \in 1..Len(s) : l > j /\ s[l] = Landed(s[j].dest)
      BY <2>1 DEF TransfersOK, CopiesTracked
    <3>2. s[j].dest # k
      BY <3>1
    <3> QED
      BY <1>3, <1>5, <1>7, <2>1, <3>1, <3>2
  <2>2. CASE t[j].slot = i /\ t[j].dest = k /\ j < Len(t)
    <3>1. t[Len(t)] = Landed(k) /\ Len(t) \in 1..Len(t)
      BY <1>7 DEF TransferAdded
    <3> QED
      BY <1>3, <1>5, <2>2, <3>1
  <2> QED
    BY <1>8, <2>1, <2>2
<1>12. Arriving(t, g, c)
  <2>1. ASSUME NEW p \in 1..Parts
        PROVE  PartComing(t, k, p)
    <3>1. t[Len(s) + p] = Copy(i, p, k) /\ Len(s) + p \in 1..Len(t)
      BY <1>7 DEF TransferAdded
    <3>2. IsCopy(Copy(i, p, k)) /\ Copy(i, p, k).dest = k /\ Copy(i, p, k).part = p
      BY <1>1, EnqueuedItems
    <3> QED
      BY <3>1, <3>2 DEF PartComing
  <2>2. ASSUME NEW l, NEW p, PartComing(s, l, p)
        PROVE  PartComing(t, l, p)
    BY <1>7, <2>2 DEF PartComing
  <2>3. ASSUME NEW l \in ActiveIn(h), NEW p \in 1..Parts
        PROVE  c[l][p] = l \/ PartComing(t, l, p)
    <3>1. c[l] = b[l]
      BY <1>4 DEF ActiveIn
    <3> QED
      BY <2>2, <3>1 DEF TransfersOK, Arriving
  <2> QED
    BY <1>5, <2>1, <2>3 DEF Arriving
<1>13. TransfersOK(a, t, g, c)
  BY <1>1, <1>4, <1>6, <1>9, <1>10, <1>11, <1>12 DEF TransfersOK
<1> QED
  BY <1>13 DEF g, c

\* The buffers after the device did the item x.
Delivered(b, q, x) ==
    IF IsCopy(x) /\ x.dest \in Keys
    THEN [b EXCEPT ![x.dest][x.part] = q.slots[x.slot].content[x.part]]
    ELSE b

(* The device makes a copy for an outstanding transfer out of the slot     *)
(* that transfer owns, so the part that arrives is the expert's.           *)
LEMMA DeviceKeeps ==
    ASSUME NEW q, NEW s, NEW h, NEW b, TransfersOK(q, s, h, b), s # <<>>
    PROVE  /\ TransfersOK(q, Tail(s), h, Delivered(b, q, Head(s)))
           /\ \A k \in Keys, p \in 1..Parts :
                 Delivered(b, q, Head(s))[k][p] \in {k, b[k][p]}
<1> DEFINE t == Tail(s)
           x == s[1]
           c == Delivered(b, q, x)
<1>1. /\ s \in Seq(Items) /\ Len(s) \in Nat /\ Len(s) # 0
      /\ q \in PoolType /\ b \in BufferType
  BY DEF TransfersOK, StreamOK
<1>2. /\ t \in Seq(Items) /\ Len(t) = Len(s) - 1 /\ Head(s) = x /\ x \in Items
      /\ \A j \in 1..Len(t) : j + 1 \in 1..Len(s) /\ t[j] = s[j + 1]
      /\ \A j \in 1..Len(s) : j = 1 \/ (j - 1 \in 1..Len(t) /\ t[j - 1] = s[j])
  BY <1>1
<1> HIDE DEF t
<1>3. IsCopy(x) /\ x.dest \in Keys =>
         /\ x.part \in 1..Parts /\ x.dest \in ActiveIn(h)
         /\ q.slots[x.slot].content = ExpertBytes(x.dest)
  <2> SUFFICES ASSUME IsCopy(x), x.dest \in Keys
               PROVE  /\ x.part \in 1..Parts /\ x.dest \in ActiveIn(h)
                      /\ q.slots[x.slot].content = ExpertBytes(x.dest)
    OBVIOUS
  <2>1. 1 \in 1..Len(s)
    BY <1>1
  <2>2. x.dest \in ActiveIn(h) /\ x.slot = h[x.dest].slot
    BY <2>1 DEF TransfersOK, CopiesTracked
  <2>3. x.part \in 1..Parts
    BY <1>2, ItemForms
  <2> QED
    BY <2>2, <2>3 DEF TransfersOK, SlotsHeld
<1>4. \A k \in Keys, p \in 1..Parts :
         c[k][p] = IF IsCopy(x) /\ x.dest = k /\ x.part = p THEN k ELSE b[k][p]
  <2>1. CASE IsCopy(x) /\ x.dest \in Keys
    <3>1. q.slots[x.slot].content[x.part] = x.dest /\ x.part \in 1..Parts
      BY <1>3, <2>1 DEF ExpertBytes
    <3>2. c = [b EXCEPT ![x.dest][x.part] = x.dest]
      BY <2>1, <3>1 DEF Delivered
    <3> HIDE DEF c, x
    <3> QED
      BY <1>1, <2>1, <3>1, <3>2 DEF BufferType
  <2>2. CASE ~(IsCopy(x) /\ x.dest \in Keys)
    BY <2>2 DEF Delivered
  <2> QED
    BY <2>1, <2>2
<1>5. c \in BufferType
  <2>1. CASE IsCopy(x) /\ x.dest \in Keys
    <3>1. q.slots[x.slot].content[x.part] = x.dest /\ x.part \in 1..Parts
      BY <1>3, <2>1 DEF ExpertBytes
    <3>2. c = [b EXCEPT ![x.dest][x.part] = x.dest]
      BY <2>1, <3>1 DEF Delivered
    <3> HIDE DEF c, x
    <3> QED
      BY <1>1, <2>1, <3>1, <3>2 DEF BufferType
  <2>2. CASE ~(IsCopy(x) /\ x.dest \in Keys)
    BY <1>1, <2>2 DEF Delivered
  <2> QED
    BY <2>1, <2>2
<1> HIDE DEF c, x
<1>6. StreamOK(t, q)
  BY <1>2 DEF StreamOK, TransfersOK
<1>7. CopiesTracked(t, h)
  <2> SUFFICES ASSUME NEW j \in 1..Len(t), IsCopy(t[j]), t[j].dest \in Keys
               PROVE  /\ t[j].dest \in ActiveIn(h)
                      /\ t[j].slot = h[t[j].dest].slot
                      /\ \E l \in 1..Len(t) : l > j /\ t[l] = Landed(t[j].dest)
    BY DEF CopiesTracked
  <2>1. j + 1 \in 1..Len(s) /\ t[j] = s[j + 1]
    BY <1>2
  <2>2. /\ t[j].dest \in ActiveIn(h) /\ t[j].slot = h[t[j].dest].slot
        /\ \E l \in 1..Len(s) : l > j + 1 /\ s[l] = Landed(t[j].dest)
    BY <2>1 DEF TransfersOK, CopiesTracked
  <2>3. PICK l \in 1..Len(s) : l > j + 1 /\ s[l] = Landed(t[j].dest)
    BY <2>2
  <2>4. l - 1 \in 1..Len(t) /\ t[l - 1] = s[l] /\ l - 1 > j
    BY <1>2, <2>3
  <2> QED
    BY <2>2, <2>3, <2>4
<1>8. Arriving(t, h, c)
  <2> SUFFICES ASSUME NEW k \in ActiveIn(h), NEW p \in 1..Parts, c[k][p] # k
               PROVE  PartComing(t, k, p)
    BY DEF Arriving
  <2>1. k \in Keys
    BY DEF ActiveIn
  <2>2. ~(IsCopy(x) /\ x.dest = k /\ x.part = p) /\ b[k][p] # k
    BY <1>4, <2>1
  <2>3. PICK j \in 1..Len(s) : IsCopy(s[j]) /\ s[j].dest = k /\ s[j].part = p
    BY <2>2 DEF TransfersOK, Arriving, PartComing
  <2>4. j # 1
    BY <2>2, <2>3 DEF x
  <2> QED
    BY <1>2, <2>3, <2>4 DEF PartComing
<1>9. TransfersOK(q, t, h, c)
  BY <1>5, <1>6, <1>7, <1>8 DEF TransfersOK
<1>10. \A k \in Keys, p \in 1..Parts : c[k][p] \in {k, b[k][p]}
  BY <1>4
<1> QED
  BY <1>2, <1>9, <1>10 DEF t, c

(* A cancellation only changes a status.                                   *)
LEMMA CancelKeeps ==
    ASSUME NEW q, NEW s, NEW h, NEW b, TransfersOK(q, s, h, b), NEW k \in ActiveIn(h)
    PROVE  TransfersOK(q, s, [h EXCEPT ![k].status = "cancelled"], b)
<1> DEFINE g == [h EXCEPT ![k].status = "cancelled"]
<1>1. h \in [Keys -> HandleType] /\ k \in Keys /\ h[k] \in HandleType
  BY DEF TransfersOK, HandlesOK, ActiveIn
<1>2. /\ g \in [Keys -> HandleType] /\ g[k].status = "cancelled"
      /\ \A l \in Keys : g[l].slot = h[l].slot
      /\ \A l \in Keys : l # k => g[l] = h[l]
  BY <1>1 DEF HandleType
<1> HIDE DEF g
<1>3. ActiveIn(g) = ActiveIn(h)
  BY <1>2 DEF ActiveIn
<1>4. \A l \in ActiveIn(h) : g[l].slot = h[l].slot
  BY <1>2 DEF ActiveIn
<1>5. HandlesOK(g)
  BY <1>2, <1>3 DEF TransfersOK, HandlesOK
<1>6. SlotsHeld(q, g)
  BY <1>3, <1>4 DEF TransfersOK, SlotsHeld
<1>7. CopiesTracked(s, g)
  BY <1>3, <1>4 DEF TransfersOK, CopiesTracked
<1>8. Arriving(s, g, b)
  BY <1>3 DEF TransfersOK, Arriving
<1>9. TransfersOK(q, s, g, b)
  BY <1>5, <1>6, <1>7, <1>8 DEF TransfersOK
<1> QED
  BY <1>9 DEF g

\* r is q with slot i given back.
Freed(q, r, i) ==
    /\ r \in PoolType
    /\ r.used_bytes = q.used_bytes /\ Len(r.slots) = Len(q.slots)
    /\ ~r.slots[i].in_use
    /\ \A j \in 1..Len(q.slots) : j # i => r.slots[j] = q.slots[j]

(* release() gives a slot back, after mark_transfer_complete() or without. *)
LEMMA ReleaseFrees ==
    ASSUME NEW q \in PoolType, NEW i \in 1..Len(q.slots)
    PROVE  /\ Freed(q, Release(q, i), i)
           /\ Freed(q, Release(MarkComplete(q, i), i), i)
<1>1. ASSUME NEW r \in PoolType, Len(r.slots) = Len(q.slots), r.used_bytes = q.used_bytes,
             \A j \in 1..Len(q.slots) : j # i => r.slots[j] = q.slots[j]
      PROVE  Freed(q, Release(r, i), i)
  <2> DEFINE freed == [r.slots[i] EXCEPT !.in_use = FALSE]
             b == Release(r, i)
  <2>1. r.slots[i] \in SlotType /\ i \in 1..Len(r.slots)
    BY <1>1 DEF PoolType
  <2>2. freed \in SlotType /\ ~freed.in_use
    BY <2>1 DEF SlotType
  <2>3. b = WithSlot(r, i, freed)
    BY <2>1, ReleaseIsSlot
  <2> HIDE DEF b, freed
  <2>4. /\ b \in PoolType /\ b.used_bytes = r.used_bytes
        /\ Len(b.slots) = Len(r.slots) /\ b.slots[i] = freed
        /\ \A j \in 1..Len(r.slots) : j # i => b.slots[j] = r.slots[j]
    BY <2>1, <2>2, <2>3, SlotReplaced
  <2>5. Freed(q, b, i)
    BY <1>1, <2>2, <2>4 DEF Freed
  <2> QED
    BY <2>5 DEF b
<1> DEFINE marked == [q.slots[i] EXCEPT !.ready = TRUE]
           m == MarkComplete(q, i)
<1>2. q.slots[i] \in SlotType
  BY DEF PoolType
<1>3. marked \in SlotType
  BY <1>2 DEF SlotType
<1>4. m = WithSlot(q, i, marked)
  BY ReleaseIsSlot
<1> HIDE DEF m, marked
<1>5. /\ m \in PoolType /\ m.used_bytes = q.used_bytes /\ Len(m.slots) = Len(q.slots)
      /\ \A j \in 1..Len(q.slots) : j # i => m.slots[j] = q.slots[j]
  BY <1>3, <1>4, SlotReplaced
<1>6. Freed(q, Release(m, i), i)
  BY <1>1, <1>5
<1> QED
  BY <1>1, <1>6 DEF m

\* t is s, or s with the event of slot i behind it.
MayRecord(s, t, i) == t = s \/ t = Append(s, Ready(i))

(* A transfer whose event is done has no copy left on the stream, so it    *)
(* ends and its slot is given back without harm to the others.             *)
LEMMA RetireKeeps ==
    ASSUME NEW q, NEW s, NEW h, NEW b, TransfersOK(q, s, h, b),
           NEW k \in ActiveIn(h), EventDone(s, Landed(k)),
           NEW r, Freed(q, r, h[k].slot), NEW t, MayRecord(s, t, h[k].slot)
    PROVE  TransfersOK(r, t, [h EXCEPT ![k] = NoHandle], [b EXCEPT ![k] = Blank])
<1> DEFINE i == h[k].slot
           g == [h EXCEPT ![k] = NoHandle]
           c == [b EXCEPT ![k] = Blank]
<1>1. /\ h \in [Keys -> HandleType] /\ b \in BufferType /\ k \in Keys
      /\ i \in 1..Len(q.slots) /\ i \in Nat
  BY DEF TransfersOK, HandlesOK, SlotsHeld, ActiveIn
<1>2. /\ g \in [Keys -> HandleType] /\ g[k].status = "none"
      /\ \A l \in Keys : l # k => g[l] = h[l]
  BY <1>1 DEF HandleType, NoHandle, NoSlot
<1>3. c \in BufferType /\ \A l \in Keys : l # k => c[l] = b[l]
  BY <1>1 DEF BufferType, Blank
<1>4. /\ r \in PoolType /\ Limited(r) /\ Len(r.slots) = Len(q.slots)
      /\ Len(q.slots) \in Nat /\ ~r.slots[i].in_use
      /\ \A j \in 1..Len(q.slots) : j # i => r.slots[j] = q.slots[j]
  BY DEF TransfersOK, Freed, Limited, PoolType
<1> HIDE DEF g, c, i
<1>5. ActiveIn(g) = ActiveIn(h) \ {k}
  BY <1>2 DEF ActiveIn
<1>6. \A l \in ActiveIn(g) : l \in ActiveIn(h) /\ l # k /\ g[l] = h[l] /\ c[l] = b[l]
  BY <1>2, <1>3, <1>5 DEF ActiveIn
<1>7. HandlesOK(g)
  <2>1. IsFiniteSet(ActiveIn(h)) /\ Cardinality(ActiveIn(h)) \in Nat
    BY FS_CardinalityType DEF TransfersOK, HandlesOK
  <2>2. /\ IsFiniteSet(ActiveIn(g))
        /\ Cardinality(ActiveIn(g)) = Cardinality(ActiveIn(h)) - 1
    BY <1>5, <2>1, FS_RemoveElement
  <2> QED
    BY <1>2, <2>1, <2>2 DEF HandlesOK, TransfersOK
<1>8. /\ s \in Seq(Items) /\ t \in Seq(Items) /\ Len(s) \in Nat /\ Len(t) \in Nat
      /\ \A j \in 1..Len(s) : j \in 1..Len(t) /\ t[j] = s[j]
      /\ \A j \in 1..Len(t) : \/ j \in 1..Len(s)
                              \/ ~IsCopy(t[j]) /\ t[j].slot = i
  <2>1. Ready(i) \in Items /\ ~IsCopy(Ready(i)) /\ Ready(i).slot = i
    BY <1>1, EnqueuedItems
  <2>2. s \in Seq(Items)
    BY DEF TransfersOK, StreamOK
  <2>3. CASE t = s
    BY <2>2, <2>3
  <2>4. CASE t = Append(s, Ready(i))
    BY <2>1, <2>2, <2>4
  <2> QED
    BY <2>3, <2>4 DEF MayRecord, i
<1>9. StreamOK(t, r)
  <2>1. ASSUME NEW j \in 1..Len(t), t[j].op # "landed"
        PROVE  t[j].slot \in 1..Len(r.slots)
    BY <1>1, <1>4, <1>8, <2>1 DEF StreamOK, TransfersOK
  <2> QED
    BY <1>8, <2>1 DEF StreamOK
<1>10. SlotsHeld(r, g)
  <2>1. ASSUME NEW l \in ActiveIn(g)
        PROVE  /\ g[l].slot = h[l].slot /\ g[l].slot # i
               /\ g[l].slot \in 1..Len(r.slots)
               /\ r.slots[g[l].slot] = q.slots[h[l].slot]
    BY <1>4, <1>6 DEF TransfersOK, SlotsHeld, i
  <2>2. \A l \in ActiveIn(g) :
           /\ r.slots[g[l].slot].in_use /\ ~r.slots[g[l].slot].ready
           /\ r.slots[g[l].slot].content = ExpertBytes(l)
    BY <1>6, <2>1 DEF TransfersOK, SlotsHeld
  <2>3. ASSUME NEW l \in ActiveIn(g), NEW m \in ActiveIn(g), g[l].slot = g[m].slot
        PROVE  l = m
    BY <1>6, <2>1, <2>3 DEF TransfersOK, SlotsHeld
  <2>4. ASSUME NEW j \in 1..Len(r.slots), r.slots[j].in_use
        PROVE  \E l \in ActiveIn(g) : g[l].slot = j
    <3>1. j # i /\ j \in 1..Len(q.slots) /\ q.slots[j].in_use
      BY <1>4, <2>4
    <3>2. PICK l \in ActiveIn(h) : h[l].slot = j
      BY <3>1 DEF TransfersOK, SlotsHeld
    <3>3. l # k
      BY <3>1, <3>2 DEF i
    <3> QED
      BY <1>5, <1>6, <3>2, <3>3
  <2> QED
    BY <2>1, <2>2, <2>3, <2>4 DEF SlotsHeld
<1>11. ASSUME NEW j \in 1..Len(s), IsCopy(s[j]), s[j].dest \in Keys
       PROVE  /\ s[j].dest \in ActiveIn(g) /\ s[j].slot = g[s[j].dest].slot
              /\ \E l \in 1..Len(s) : l > j /\ s[l] = Landed(s[j].dest)
  <2>1. /\ s[j].dest \in ActiveIn(h) /\ s[j].slot = h[s[j].dest].slot
        /\ \E l \in 1..Len(s) : l > j /\ s[l] = Landed(s[j].dest)
    BY <1>11 DEF TransfersOK, CopiesTracked
  <2>2. s[j].dest # k
    BY <2>1 DEF EventDone, Contains
  <2> QED
    BY <1>5, <1>6, <2>1, <2>2
<1>12. CopiesTracked(t, g)
  BY <1>8, <1>11 DEF CopiesTracked
<1>13. Arriving(t, g, c)
  <2>1. ASSUME NEW l, NEW p, PartComing(s, l, p)
        PROVE  PartComing(t, l, p)
    BY <1>8, <2>1 DEF PartComing
  <2> QED
    BY <1>6, <2>1 DEF Arriving, TransfersOK
<1>14. TransfersOK(r, t, g, c)
  BY <1>3, <1>4, <1>7, <1>9, <1>10, <1>12, <1>13 DEF TransfersOK
<1> QED
  BY <1>14 DEF g, c

(* After stream.synchronize() every outstanding transfer has all its parts, *)
(* whatever the slot given out in the meantime was filled with.            *)
LEMMA SynchronizeKeeps ==
    ASSUME TransfersOK(pool, stream, handles, buffers),
           NEW a, NEW i, Claims(pool, a, i)
    PROVE  TransfersOK(Release(a, i), <<>>, handles, Arrived(a.slots))
<1> DEFINE r == Release(a, i)
           c == Arrived(a.slots)
           copies(k, p) == {j \in DOMAIN stream : /\ IsCopy(stream[j])
                                                  /\ stream[j].dest = k
                                                  /\ stream[j].part = p}
<1>1. /\ pool \in PoolType /\ stream \in Seq(Items) /\ buffers \in BufferType
      /\ DOMAIN stream = 1..Len(stream) /\ Len(stream) \in Nat
  BY DEF TransfersOK, StreamOK
<1>2. TransfersOK(r, stream, handles, buffers)
  BY <1>1, ClaimReleased, BorrowedKeeps
<1>3. c = [k \in Keys |-> [p \in 1..Parts |->
              IF copies(k, p) = {} THEN buffers[k][p]
              ELSE a.slots[stream[Max(copies(k, p))].slot].content[p]]]
  BY DEF Arrived
<1>4. ASSUME NEW k \in Keys, NEW p \in 1..Parts, copies(k, p) # {}
      PROVE  a.slots[stream[Max(copies(k, p))].slot].content[p] = k
  <2> DEFINE j == Max(copies(k, p))
  <2>1. copies(k, p) \in SUBSET (1..Len(stream))
    BY <1>1
  <2>2. j \in copies(k, p)
    <3> HIDE DEF copies
    <3> QED
      BY <1>1, <1>4, <2>1, GreatestPlace
  <2>3. j \in 1..Len(stream) /\ IsCopy(stream[j]) /\ stream[j].dest = k
    BY <1>1, <2>2
  <2> HIDE DEF j
  <2>4. k \in ActiveIn(handles) /\ stream[j].slot = handles[k].slot
    BY <2>3 DEF TransfersOK, CopiesTracked
  <2> DEFINE l == handles[k].slot
  <2>5. /\ l \in 1..Len(pool.slots) /\ pool.slots[l].in_use
        /\ pool.slots[l].content = ExpertBytes(k)
    BY <2>4 DEF TransfersOK, SlotsHeld
  <2>6. l # i /\ l \in 1..Len(a.slots)
    <3>1. Len(pool.slots) \in Nat /\ Len(a.slots) \in Nat
      BY <1>1 DEF PoolType, Claims
    <3> QED
      BY <2>5, <3>1 DEF Claims
  <2>7. a.slots[l].content = ExpertBytes(k)
    BY <2>5, <2>6 DEF Claims
  <2>8. ExpertBytes(k)[p] = k
    BY DEF ExpertBytes
  <2> QED
    BY <2>4, <2>7, <2>8 DEF j
<1> HIDE DEF c, r
<1>5. \A k \in Keys, p \in 1..Parts :
         c[k][p] = IF copies(k, p) = {} THEN buffers[k][p] ELSE k
  <2> HIDE DEF copies
  <2> QED
    BY <1>3, <1>4
<1>6. c \in BufferType
  <2>1. \A k \in Keys : c[k] \in [1..Parts -> Keys \cup {NoKey}]
    <3> SUFFICES ASSUME NEW k \in Keys
                 PROVE  c[k] \in [1..Parts -> Keys \cup {NoKey}]
      OBVIOUS
    <3> HIDE DEF copies
    <3> DEFINE v(p) == IF copies(k, p) = {} THEN buffers[k][p]
                       ELSE a.slots[stream[Max(copies(k, p))].slot].content[p]
    <3>1. \A p \in 1..Parts : v(p) \in Keys \cup {NoKey}
      BY <1>1, <1>4 DEF BufferType
    <3>2. c[k] = [p \in 1..Parts |-> v(p)]
      BY <1>3
    <3> HIDE DEF v
    <3> QED
      BY <3>1, <3>2
  <2> HIDE DEF copies
  <2>2. c = [k \in Keys |-> c[k]]
    BY <1>3
  <2> QED
    BY <2>1, <2>2 DEF BufferType
<1>7. Arriving(<<>>, handles, c)
  <2>1. ASSUME NEW k \in ActiveIn(handles), NEW p \in 1..Parts
        PROVE  c[k][p] = k
    <3>1. k \in Keys
      BY DEF ActiveIn
    <3>2. CASE copies(k, p) = {}
      <4>1. ~PartComing(stream, k, p)
        BY <1>1, <3>2 DEF PartComing
      <4> QED
        BY <1>5, <3>1, <3>2, <4>1 DEF TransfersOK, Arriving
    <3>3. CASE copies(k, p) # {}
      BY <1>5, <3>1, <3>3
    <3> QED
      BY <3>2, <3>3
  <2> QED
    BY <2>1 DEF Arriving
<1>8. StreamOK(<<>>, r) /\ CopiesTracked(<<>>, handles)
  BY DEF StreamOK, CopiesTracked
<1>9. TransfersOK(r, <<>>, handles, c)
  BY <1>2, <1>6, <1>7, <1>8 DEF TransfersOK
<1> QED
  BY <1>9 DEF r, c

(* What poll_async() takes for complete is complete.                       *)
LEMMA LandedComplete ==
    ASSUME NEW q, NEW s, NEW h, NEW b, TransfersOK(q, s, h, b),
           NEW k \in ActiveIn(h), EventDone(s, Landed(k))
    PROVE  b[k] = ExpertBytes(k)
<1>1. b[k] \in [1..Parts -> Keys \cup {NoKey}] /\ k \in Keys
  BY DEF TransfersOK, BufferType, ActiveIn
<1>2. ASSUME NEW p \in 1..Parts
      PROVE  b[k][p] = k
  <2> SUFFICES ASSUME PartComing(s, k, p)
               PROVE  FALSE
    BY DEF TransfersOK, Arriving
  <2>1. PICK j \in 1..Len(s) : IsCopy(s[j]) /\ s[j].dest = k
    BY DEF PartComing
  <2>2. \E l \in 1..Len(s) : s[l] = Landed(k)
    BY <1>1, <2>1 DEF TransfersOK, CopiesTracked
  <2> QED
    BY <2>2 DEF EventDone, Contains
<1> QED
  BY <1>1, <1>2 DEF ExpertBytes

-----------------------------------------------------------------------------
(***************************************************************************)
(* What can be looked up on the GPU.                                       *)
(***************************************************************************)
PublishedOK(c, w) ==
    w = [k \in Keys |-> IF Resident(c, "gpu", k) THEN ExpertBytes(k) ELSE Blank]

(* The experts resident on the GPU are the keys of its tier.               *)
LEMMA GpuHeld ==
    ASSUME NEW c, CacheOK(c)
    PROVE  \A k : Resident(c, "gpu", k) <=> k \in Held(c, "gpu")
<1>1. "gpu" \in Tiers /\ TierOK(c["gpu"], "gpu")
  BY CacheOKTiers DEF Tiers
<1> QED
  BY <1>1, HeldResident DEF Resident, Held

(* A call that leaves the GPU tier's experts leaves what is published.     *)
LEMMA SameResidency ==
    ASSUME NEW c, CacheOK(c), NEW d, CacheOK(d), Held(d, "gpu") = Held(c, "gpu"),
           NEW w, PublishedOK(c, w)
    PROVE  PublishedOK(d, w)
<1>1. \A k : Resident(d, "gpu", k) <=> Resident(c, "gpu", k)
  BY GpuHeld
<1> QED
  BY <1>1 DEF PublishedOK

(* Publishing the bytes of an expert under its name.                       *)
LEMMA PublishKeeps ==
    ASSUME CacheOK(cache), PublishedOK(cache, published), NEW k \in Keys,
           Publish(k, ExpertBytes(k))
    PROVE  CacheOK(cache') /\ PublishedOK(cache', published')
<1>1. /\ cache' = Put(cache, k, "cuda") /\ "cuda" \in Devices
      /\ TierOf("cuda") = "gpu"
  BY DEF Publish, Devices, TierOf
<1>2. CacheOK(cache')
  BY <1>1, CallsOK
<1>3. Held(cache', "gpu") \subseteq Held(cache, "gpu") \cup {k}
  BY <1>1, PutHeld
<1>4. \A j : Resident(cache', "gpu", j) => Resident(cache, "gpu", j) \/ j = k
  BY <1>2, <1>3, GpuHeld
<1> DEFINE after == [published EXCEPT ![k] = ExpertBytes(k)]
<1>5. \A j \in Keys : after[j] = IF j = k THEN ExpertBytes(k) ELSE published[j]
  BY DEF PublishedOK
<1>6. published' = [j \in Keys |-> IF Resident(cache', "gpu", j) THEN after[j] ELSE Blank]
  BY DEF Publish, Keeps
<1> HIDE DEF after
<1>7. \A j \in Keys : published[j] = IF Resident(cache, "gpu", j) THEN ExpertBytes(j) ELSE Blank
  BY DEF PublishedOK
<1>8. ASSUME NEW j \in Keys, Resident(cache', "gpu", j)
      PROVE  after[j] = ExpertBytes(j)
  BY <1>4, <1>5, <1>7, <1>8
<1> QED
  BY <1>2, <1>6, <1>8 DEF PublishedOK

(* A demotion takes the bytes away and leaves the others.                  *)
LEMMA DemotedKeeps ==
    ASSUME CacheOK(cache), PublishedOK(cache, published), NEW k \in Keys, Demoted(k)
    PROVE  CacheOK(cache') /\ PublishedOK(cache', published')
<1>1. cache' = Demote(cache, k) /\ CacheOK(cache')
  BY CallsOK DEF Demoted
<1>2. \A j : Resident(cache', "gpu", j) => Resident(cache, "gpu", j)
  BY <1>1, DemoteHeld, GpuHeld
<1>3. published' = [j \in Keys |-> IF Resident(cache', "gpu", j) THEN published[j] ELSE Blank]
  BY DEF Demoted, Keeps
<1>4. \A j \in Keys : published[j] = IF Resident(cache, "gpu", j) THEN ExpertBytes(j) ELSE Blank
  BY DEF PublishedOK
<1> QED
  BY <1>1, <1>2, <1>3, <1>4 DEF PublishedOK

(* The caller's own lookups and loads.                                     *)
LEMMA CallerKeeps ==
    ASSUME CacheOK(cache), PublishedOK(cache, published), NEW k \in Keys,
           Lookup(k) \/ LoadExpert(k)
    PROVE  CacheOK(cache') /\ PublishedOK(cache', published')
<1>1. CacheOK(Get(cache, k)) /\ Held(Get(cache, k), "gpu") = Held(cache, "gpu")
  BY CallsOK, GetHeld DEF Tiers
<1>2. CASE Lookup(k)
  BY <1>1, <1>2, SameResidency DEF Lookup
<1>3. CASE LoadExpert(k)
  <2> DEFINE c == Get(cache, k)
  <2>1. cache' = Put(c, k, "cpu") /\ published' = published
    BY <1>3 DEF LoadExpert
  <2>2. "cpu" \in Devices /\ TierOf("cpu") = "cpu" /\ "gpu" \in Tiers \ {"cpu"}
    BY DEF Devices, TierOf, Tiers
  <2> HIDE DEF c
  <2>3. CacheOK(c) /\ Held(c, "gpu") = Held(cache, "gpu")
    BY <1>1 DEF c
  <2>4. CacheOK(cache') /\ cache'["gpu"] = c["gpu"]
    BY <2>1, <2>2, <2>3, CallsOK, PutHeld
  <2>5. Held(cache', "gpu") = Held(cache, "gpu")
    BY <2>3, <2>4 DEF Held
  <2> QED
    BY <2>1, <2>4, <2>5, SameResidency
<1> QED
  BY <1>2, <1>3

-----------------------------------------------------------------------------
(***************************************************************************)
(* The queue.                                                              *)
(***************************************************************************)
QueueOK(s) == s \in Seq(Requests)

(* submit() appends a request.                                             *)
LEMMA SubmitKeeps ==
    ASSUME QueueOK(queue), NEW r \in Requests, Submit(r)
    PROVE  QueueOK(queue')
  BY DEF QueueOK, Submit

(* The other requests stay when one is taken out.                          *)
LEMMA RemovalKeeps ==
    ASSUME NEW s, QueueOK(s), NEW i \in 1..Len(s)
    PROVE  QueueOK(RemoveAt(s, i))
  BY RemoveAtProperties DEF QueueOK

-----------------------------------------------------------------------------
(***************************************************************************)
(* The invariant.                                                          *)
(***************************************************************************)
ContentOK(c, w) == CacheOK(c) /\ PublishedOK(c, w)

TransferInv ==
    /\ ContentOK(cache, published)
    /\ TransfersOK(pool, stream, handles, buffers)
    /\ QueueOK(queue)

(* Before the first call there is no slot, no transfer and no request.     *)
LEMMA InitTransferInv == Init => TransferInv
<1> SUFFICES ASSUME Init PROVE TransferInv
  OBVIOUS
<1>1. ContentOK(cache, published)
  <2>1. CacheOK(InitCache) /\ InitCache["gpu"].order = <<>>
    BY InitOK DEF Tiers
  <2>2. \A k : ~Resident(InitCache, "gpu", k)
    BY <2>1 DEF Resident, Contains
  <2> QED
    BY <2>1, <2>2 DEF Init, ContentOK, PublishedOK
<1>2. handles \in [Keys -> HandleType] /\ ActiveIn(handles) = {}
  BY DEF Init, HandleType, NoHandle, NoSlot, ActiveIn
<1>3. HandlesOK(handles)
  BY <1>2, FS_EmptySet DEF HandlesOK
<1>4. /\ pool \in PoolType /\ pool.slots = <<>> /\ Limited(pool) /\ buffers \in BufferType
  BY DEF Init, InitPool, PoolType, Limited, BufferType, Blank
<1>5. StreamOK(stream, pool) /\ CopiesTracked(stream, handles)
  BY DEF Init, StreamOK, CopiesTracked
<1>6. SlotsHeld(pool, handles) /\ Arriving(stream, handles, buffers)
  BY <1>2, <1>4 DEF SlotsHeld, Arriving
<1> QED
  BY <1>1, <1>3, <1>4, <1>5, <1>6 DEF TransferInv, TransfersOK, Init, QueueOK

(* Acquiring, staging n parts and releasing is borrowing.                  *)
LEMMA StagedReleased ==
    ASSUME NEW q \in PoolType, NEW s, AcquiredSlot(q, s) # NoSlot,
           NEW k \in Keys, NEW n \in Nat
    PROVE  LET i == AcquiredSlot(q, s)
               staged == Staged(Acquire(q, s), i, k, n)
           IN  Claims(q, staged, i) /\ Borrows(q, Release(staged, i))
<1>1. Claims(q, Acquire(q, s), AcquiredSlot(q, s))
  BY AcquireClaims
<1> DEFINE i == AcquiredSlot(q, s)
           a == Acquire(q, s)
           staged == Staged(a, i, k, n)
<1> HIDE DEF i, a
<1>2. Claims(q, a, i)
  BY <1>1 DEF i, a
<1>3. Claims(q, staged, i)
  BY <1>2, StagedClaims
<1> HIDE DEF staged
<1>4. Borrows(q, Release(staged, i))
  BY <1>3, ClaimReleased
<1> QED
  BY <1>3, <1>4 DEF staged, i, a

(* A slot given out, filled with all of an expert, holds the expert.       *)
LEMMA StagedWhole ==
    ASSUME NEW q \in PoolType, NEW s, AcquiredSlot(q, s) # NoSlot, NEW k \in Keys
    PROVE  LET i == AcquiredSlot(q, s)
               staged == Staged(Acquire(q, s), i, k, Parts)
           IN  staged.slots[i].content = ExpertBytes(k)
<1>1. Claims(q, Acquire(q, s), AcquiredSlot(q, s)) /\ Parts \in Nat
  BY AcquireClaims
<1> QED
  BY <1>1, StagedClaims

(* A partial failure after the staging leaves stray copies of a borrowed   *)
(* slot behind.                                                            *)
LEMMA StrayTransfer ==
    ASSUME TransfersOK(pool, stream, handles, buffers), NEW k \in Keys,
           AcquiredSlot(pool, stream) # NoSlot, NEW n \in 0..Parts
    PROVE  LET i == AcquiredSlot(pool, stream)
               staged == Staged(Acquire(pool, stream), i, k, Parts)
           IN  TransfersOK(Release(staged, i), Enqueued(stream, i, n, NoKey), handles, buffers)
<1> DEFINE i == AcquiredSlot(pool, stream)
           staged == Staged(Acquire(pool, stream), i, k, Parts)
           r == Release(staged, i)
           e == Enqueued(stream, i, n, NoKey)
<1>1. pool \in PoolType /\ stream \in Seq(Items) /\ Parts \in Nat
  BY DEF TransfersOK, StreamOK
<1>2. Claims(pool, staged, i) /\ Borrows(pool, r)
  BY <1>1, StagedReleased
<1> HIDE DEF i, staged
<1>3. TransfersOK(r, stream, handles, buffers)
  BY <1>1, <1>2, BorrowedKeeps
<1>4. i \in 1..Len(staged.slots) /\ staged \in PoolType
  BY <1>2 DEF Claims
<1>5. Len(r.slots) = Len(staged.slots) /\ i \in 1..Len(r.slots) /\ i \in Nat
  <2>1. Freed(staged, r, i)
    BY <1>4, ReleaseFrees
  <2>2. Len(staged.slots) \in Nat
    BY <1>4 DEF PoolType
  <2> QED
    BY <1>4, <2>1, <2>2 DEF Freed
<1> HIDE DEF r
<1>6. CopiesAdded(stream, e, i, n, NoKey)
  BY <1>1, <1>5, EnqueuedProperties
<1> HIDE DEF e
<1>7. TransfersOK(r, e, handles, buffers)
  BY <1>3, <1>5, <1>6, StrayCopiesKeep
<1> QED
  BY <1>7 DEF e, r, staged, i

-----------------------------------------------------------------------------
(***************************************************************************)
(* The steps.                                                              *)
(***************************************************************************)
(* One synchronous transfer, however it ends.                              *)
LEMMA SyncKeeps ==
    ASSUME ContentOK(cache, published), TransfersOK(pool, stream, handles, buffers),
           UNCHANGED handles, NEW k \in Keys,
           \/ SyncRefused(k) /\ UNCHANGED pool
           \/ SyncTransferred(k) \/ SyncStageFails(k) \/ SyncEnqueueFails(k)
    PROVE  /\ ContentOK(cache', published')
           /\ TransfersOK(pool', stream', handles', buffers')
<1>1. pool \in PoolType /\ Parts \in Nat
  BY DEF TransfersOK
<1>2. CASE SyncRefused(k) /\ UNCHANGED pool
  BY <1>2 DEF SyncRefused
<1> DEFINE i == AcquiredSlot(pool, stream)
           staged(n) == Staged(Acquire(pool, stream), i, k, n)
<1>3. CASE SyncTransferred(k)
  <2>1. i # NoSlot
    BY <1>3 DEF SyncTransferred, CanTransfer
  <2>2. Claims(pool, staged(Parts), i) /\ staged(Parts).slots[i].content = ExpertBytes(k)
    BY <1>1, <2>1, StagedReleased, StagedWhole
  <2>3. /\ stream' = <<>> /\ buffers' = Arrived(staged(Parts).slots)
        /\ pool' = Release(staged(Parts), i)
        /\ Publish(k, staged(Parts).slots[i].content) \/ UNCHANGED <<cache, published>>
    BY <1>3 DEF SyncTransferred
  <2> HIDE DEF staged, i
  <2>4. TransfersOK(Release(staged(Parts), i), <<>>, handles, Arrived(staged(Parts).slots))
    BY <2>2, SynchronizeKeeps
  <2>5. TransfersOK(pool', stream', handles', buffers')
    BY <2>3, <2>4
  <2>6. CASE Publish(k, staged(Parts).slots[i].content)
    <3>1. Publish(k, ExpertBytes(k))
      BY <2>2, <2>6
    <3> QED
      BY <2>5, <3>1, PublishKeeps DEF ContentOK
  <2>7. CASE UNCHANGED <<cache, published>>
    BY <2>5, <2>7
  <2> QED
    BY <2>3, <2>6, <2>7
<1>4. CASE SyncStageFails(k)
  <2>1. PICK n \in 0..(Parts - 1) : pool' = Release(staged(n), i)
    BY <1>4 DEF SyncStageFails
  <2>2. i # NoSlot /\ n \in Nat /\ UNCHANGED <<cache, published, stream, buffers>>
    BY <1>1, <1>4 DEF SyncStageFails, CanTransfer
  <2>3. Borrows(pool, pool')
    BY <1>1, <2>1, <2>2, StagedReleased
  <2> QED
    BY <1>1, <2>2, <2>3, BorrowedKeeps
<1>5. CASE SyncEnqueueFails(k)
  <2>1. PICK n \in 0..(Parts - 1) : stream' = Enqueued(stream, i, n, NoKey)
    BY <1>5 DEF SyncEnqueueFails
  <2>2. /\ i # NoSlot /\ n \in 0..Parts /\ UNCHANGED <<cache, published, buffers>>
        /\ pool' = Release(staged(Parts), i)
    BY <1>1, <1>5 DEF SyncEnqueueFails, CanTransfer
  <2>3. TransfersOK(pool', stream', handles, buffers)
    BY <2>1, <2>2, StrayTransfer
  <2> QED
    BY <2>2, <2>3
<1> QED
  BY <1>2, <1>3, <1>4, <1>5

(* The end of an outstanding transfer whose event is done.                 *)
LEMMA EndKeeps ==
    ASSUME TransfersOK(pool, stream, handles, buffers), NEW k \in ActiveIn(handles),
           EventDone(stream, Landed(k)),
           \/ Retire(k)
           \/ PollReconstructFails(k)
    PROVE  TransfersOK(pool', stream', handles', buffers')
<1> DEFINE i == handles[k].slot
<1>1. pool \in PoolType /\ i \in 1..Len(pool.slots)
  BY DEF TransfersOK, SlotsHeld
<1>2. /\ handles' = [handles EXCEPT ![k] = NoHandle]
      /\ buffers' = [buffers EXCEPT ![k] = Blank]
      /\ pool' = Release(pool, i) \/ pool' = Release(MarkComplete(pool, i), i)
      /\ MayRecord(stream, stream', i)
  BY DEF Retire, PollReconstructFails, MayRecord
<1>3. Freed(pool, pool', i)
  BY <1>1, <1>2, ReleaseFrees
<1> QED
  BY <1>2, <1>3, RetireKeeps

(* What poll_async() publishes is the expert's.                            *)
LEMMA PollKeeps ==
    ASSUME ContentOK(cache, published), TransfersOK(pool, stream, handles, buffers),
           NEW k \in Keys, PollFinished(k)
    PROVE  /\ ContentOK(cache', published')
           /\ TransfersOK(pool', stream', handles', buffers')
<1>1. k \in ActiveIn(handles) /\ EventDone(stream, Landed(k)) /\ Retire(k)
  BY DEF PollFinished, ActiveIn
<1>2. buffers[k] = ExpertBytes(k)
  BY <1>1, LandedComplete
<1>3. Publish(k, ExpertBytes(k))
  BY <1>2 DEF PollFinished
<1>4. ContentOK(cache', published')
  BY <1>3, PublishKeeps DEF ContentOK
<1> QED
  BY <1>1, <1>4, EndKeeps

(* A transfer that submit_async() starts.                                  *)
LEMMA SubmitAsyncKeeps ==
    ASSUME TransfersOK(pool, stream, handles, buffers), NEW k \in Keys, SubmitAsync(k)
    PROVE  TransfersOK(pool', stream', handles', buffers')
<1> DEFINE i == AcquiredSlot(pool, stream)
           staged == Staged(Acquire(pool, stream), i, k, Parts)
<1>1. pool \in PoolType /\ stream \in Seq(Items) /\ Parts \in Nat
  BY DEF TransfersOK, StreamOK
<1>2. i # NoSlot /\ k \notin ActiveIn(handles) /\ Cardinality(ActiveIn(handles)) < MaxConcurrent
  BY DEF SubmitAsync, Accepts, Active, ActiveIn
<1>3. Claims(pool, staged, i) /\ staged.slots[i].content = ExpertBytes(k)
  BY <1>1, <1>2, StagedReleased, StagedWhole
<1>4. /\ pool' = staged /\ stream' = Launched(i, k)
      /\ handles' = [handles EXCEPT ![k] = [status |-> "in_flight", slot |-> i]]
      /\ buffers' = [buffers EXCEPT ![k] = Blank]
  BY DEF SubmitAsync
<1> HIDE DEF i, staged
<1>5. i \in Nat
  BY <1>3 DEF Claims
<1>6. TransferAdded(stream, stream', i, k)
  BY <1>1, <1>4, <1>5, LaunchedProperties
<1> QED
  BY <1>2, <1>3, <1>4, <1>6, TransferStarts

(* An asynchronous transfer of what is in no cache only borrows a slot.    *)
LEMMA UnbackedKeeps ==
    ASSUME TransfersOK(pool, stream, handles, buffers), NEW k, AsyncUnbacked(k)
    PROVE  TransfersOK(pool', stream', handles', buffers')
<1>1. pool \in PoolType /\ AcquiredSlot(pool, stream) # NoSlot
  BY DEF TransfersOK, AsyncUnbacked, Accepts
<1>2. Borrows(pool, pool') /\ UNCHANGED <<stream, handles, buffers>>
  BY <1>1, AcquireClaims, ClaimReleased DEF AsyncUnbacked
<1> QED
  BY <1>1, <1>2, BorrowedKeeps

(* An asynchronous transfer that does not start.                           *)
LEMMA AsyncFailureKeeps ==
    ASSUME TransfersOK(pool, stream, handles, buffers), NEW k \in Keys,
           AsyncUnbacked(k) \/ AsyncFails(k)
    PROVE  TransfersOK(pool', stream', handles', buffers')
<1> DEFINE i == AcquiredSlot(pool, stream)
           staged(n) == Staged(Acquire(pool, stream), i, k, n)
<1>1. pool \in PoolType /\ Parts \in Nat
  BY DEF TransfersOK
<1>2. i # NoSlot /\ UNCHANGED <<handles, buffers>>
  BY DEF AsyncUnbacked, AsyncFails, Accepts
<1>3. CASE AsyncUnbacked(k)
  BY <1>3, UnbackedKeeps
<1>4. ASSUME NEW n \in 0..(Parts - 1), pool' = Release(staged(n), i), UNCHANGED stream
      PROVE  TransfersOK(pool', stream', handles', buffers')
  <2>1. n \in Nat
    BY <1>1
  <2>2. Borrows(pool, pool')
    BY <1>1, <1>2, <1>4, <2>1, StagedReleased
  <2> QED
    BY <1>1, <1>2, <1>4, <2>2, BorrowedKeeps
<1>5. ASSUME NEW n \in 0..Parts, stream' = Enqueued(stream, i, n, NoKey),
             pool' = Release(staged(Parts), i)
      PROVE  TransfersOK(pool', stream', handles', buffers')
  BY <1>2, <1>5, StrayTransfer
<1> QED
  BY <1>3, <1>4, <1>5 DEF AsyncFails

(* The device's step.                                                      *)
LEMMA DeviceStepKeeps ==
    ASSUME TransfersOK(pool, stream, handles, buffers), DeviceStep
    PROVE  /\ TransfersOK(pool', stream', handles', buffers')
           /\ \A k \in Keys, p \in 1..Parts : buffers'[k][p] \in {k, buffers[k][p]}
<1>1. /\ stream # <<>> /\ stream' = Tail(stream)
      /\ buffers' = Delivered(buffers, pool, Head(stream))
      /\ UNCHANGED <<pool, handles>>
  BY DEF DeviceStep, Delivered
<1> QED
  BY <1>1, DeviceKeeps

(* execute_next().                                                         *)
LEMMA ExecuteKeeps ==
    ASSUME TransferInv, ExecuteNext
    PROVE  TransferInv'
<1>1. PICK i \in DOMAIN queue :
         LET r == queue[i] IN
         /\ queue' = RemoveAt(queue, i)
         /\ UNCHANGED handles
         /\ \/ Demoted(r.key)
            \/ SyncRefused(r.key) \/ SyncTransferred(r.key)
            \/ SyncStageFails(r.key) \/ SyncEnqueueFails(r.key)
  BY DEF ExecuteNext
<1> DEFINE k == queue[i].key
<1>2. i \in 1..Len(queue) /\ k \in Keys
  <2>1. queue \in Seq(Requests)
    BY DEF TransferInv, QueueOK
  <2>2. i \in 1..Len(queue) /\ queue[i] \in Requests
    BY <2>1
  <2> QED
    BY <2>2 DEF Requests
<1>3. QueueOK(queue')
  BY <1>1, <1>2, RemovalKeeps DEF TransferInv
<1> HIDE DEF k
<1>4. UNCHANGED handles
  BY <1>1
<1>5. CASE Demoted(k)
  <2>1. UNCHANGED <<pool, stream, buffers>>
    BY <1>5 DEF Demoted
  <2> QED
    BY <1>2, <1>3, <1>4, <1>5, <2>1, DemotedKeeps DEF TransferInv, ContentOK
<1>6. CASE SyncRefused(k) /\ UNCHANGED pool
  BY <1>2, <1>3, <1>4, <1>6, SyncKeeps DEF TransferInv
<1>7. CASE SyncTransferred(k) \/ SyncStageFails(k) \/ SyncEnqueueFails(k)
  BY <1>2, <1>3, <1>4, <1>7, SyncKeeps DEF TransferInv
<1>8. SyncRefused(k) => UNCHANGED pool
  BY DEF SyncRefused
<1> QED
  BY <1>1, <1>5, <1>6, <1>7, <1>8 DEF k

(* Every step of the scheduler, of its caller and of the device.           *)
LEMMA NextKeeps ==
    ASSUME TransferInv, [Next]_vars
    PROVE  TransferInv'
<1> USE DEF TransferInv
<1>1. CASE DeviceStep
  <2>1. UNCHANGED <<cache, published, queue>>
    BY <1>1 DEF DeviceStep
  <2> QED
    BY <1>1, <2>1, DeviceStepKeeps
<1>2. CASE ExecuteNext
  BY <1>2, ExecuteKeeps
<1>3. ASSUME NEW r \in Requests, Submit(r)
      PROVE  TransferInv'
  <2>1. UNCHANGED <<cache, published, pool, stream, handles, buffers>>
    BY <1>3 DEF Submit
  <2> QED
    BY <1>3, <2>1, SubmitKeeps
<1>4. ASSUME NEW i \in 1..MaxQueue, CancelQueued(i)
      PROVE  TransferInv'
  <2>1. /\ UNCHANGED <<cache, published, pool, stream, handles, buffers>>
        /\ i \in DOMAIN queue /\ queue' = RemoveAt(queue, i)
    BY <1>4 DEF CancelQueued
  <2>2. i \in 1..Len(queue)
    BY <2>1 DEF QueueOK
  <2> QED
    BY <2>1, <2>2, RemovalKeeps
<1>5. ASSUME NEW k \in Keys, Lookup(k) \/ LoadExpert(k)
      PROVE  TransferInv'
  <2>1. UNCHANGED <<pool, stream, queue, handles, buffers>>
    BY <1>5 DEF Lookup, LoadExpert
  <2> QED
    BY <1>5, <2>1, CallerKeeps DEF ContentOK
<1>6. ASSUME NEW k \in Keys, SubmitAsync(k)
      PROVE  TransferInv'
  <2>1. UNCHANGED <<cache, published, queue>>
    BY <1>6 DEF SubmitAsync
  <2> QED
    BY <1>6, <2>1, SubmitAsyncKeeps
<1>7. ASSUME NEW k \in Keys, AsyncUnbacked(k) \/ AsyncFails(k)
      PROVE  TransferInv'
  <2>1. UNCHANGED <<cache, published, queue>>
    BY <1>7 DEF AsyncUnbacked, AsyncFails
  <2> QED
    BY <1>7, <2>1, AsyncFailureKeeps
<1>8. ASSUME NEW k \in Keys, CancelAsync(k)
      PROVE  TransferInv'
  <2>1. /\ UNCHANGED <<cache, published, pool, stream, queue, buffers>>
        /\ handles' = [handles EXCEPT ![k].status = "cancelled"]
        /\ k \in ActiveIn(handles)
    BY <1>8 DEF CancelAsync, ActiveIn
  <2> QED
    BY <2>1, CancelKeeps
<1>9. ASSUME NEW k \in Keys, PollCancelled(k) \/ PollReconstructFails(k)
      PROVE  TransferInv'
  <2>1. UNCHANGED <<cache, published, queue>>
    BY <1>9 DEF PollCancelled, PollReconstructFails
  <2>2. /\ k \in ActiveIn(handles) /\ EventDone(stream, Landed(k))
        /\ Retire(k) \/ PollReconstructFails(k)
    BY <1>9 DEF PollCancelled, PollReconstructFails, ActiveIn
  <2> QED
    BY <2>1, <2>2, EndKeeps
<1>10. ASSUME NEW k \in Keys, PollFinished(k)
       PROVE  TransferInv'
  <2>1. UNCHANGED queue
    BY <1>10 DEF PollFinished
  <2> QED
    BY <1>10, <2>1, PollKeeps
<1>11. CASE UNCHANGED vars
  BY <1>11 DEF vars
<1> QED
  BY <1>1, <1>2, <1>3, <1>4, <1>5, <1>6, <1>7, <1>8, <1>9, <1>10, <1>11 DEF Next

(* The invariant holds in every reachable state.                           *)
LEMMA TransferInvariant == Spec => []TransferInv
  BY InitTransferInv, NextKeeps, PTL DEF Spec

-----------------------------------------------------------------------------
(* The invariant has the types in it.                                      *)
LEMMA InvariantTypes ==
    ASSUME TransferInv
    PROVE  TypeOK
<1>1. published \in [Keys -> [1..Parts -> Keys \cup {NoKey}]]
  <2>1. \A k \in Keys : ExpertBytes(k) \in [1..Parts -> Keys \cup {NoKey}]
    BY DEF ExpertBytes
  <2>2. Blank \in [1..Parts -> Keys \cup {NoKey}]
    BY DEF Blank
  <2> HIDE DEF ExpertBytes, Blank
  <2> QED
    BY <2>1, <2>2 DEF TransferInv, ContentOK, PublishedOK
<1>2. /\ pool.used_bytes \in Nat /\ pool.slots \in Seq(SlotType)
      /\ DOMAIN pool.slots = 1..Len(pool.slots)
  BY DEF TransferInv, TransfersOK, PoolType
<1>3. stream \in Seq(Items) /\ DOMAIN stream = 1..Len(stream)
  BY DEF TransferInv, TransfersOK, StreamOK
<1>4. ASSUME NEW j \in 1..Len(stream)
      PROVE  ItemOK(stream[j])
  <2>1. stream[j] \in Items
    BY <1>3
  <2>2. stream[j].op # "landed" => stream[j].slot \in DOMAIN pool.slots
    BY <1>2 DEF TransferInv, TransfersOK, StreamOK
  <2> QED
    BY <2>1, <2>2, ItemForms DEF ItemOK
<1> QED
  BY <1>1, <1>2, <1>3, <1>4
  DEF TypeOK, TransferInv, TransfersOK, BufferType, HandlesOK, QueueOK

(* The scheduler's state has its types, and every item on the stream names *)
(* a slot of the pool: no copy or event outlives its slot.                 *)
THEOREM TypeCorrect == Spec => []TypeOK
  BY InvariantTypes, TransferInvariant, PTL

(* ... and what is published.                                              *)
LEMMA InvariantContent ==
    ASSUME TransferInv
    PROVE  PublishedContent
  BY DEF TransferInv, ContentOK, PublishedOK, PublishedContent

(* Every expert that can be looked up on the GPU has its own weights there, *)
(* whatever was staged, restaged, cancelled or failed in the meantime.     *)
THEOREM PublishedOwnWeights == Spec => []PublishedContent
  BY InvariantContent, TransferInvariant, PTL

(* ... and that a transfer whose event is done has all its parts.          *)
LEMMA InvariantLanded ==
    ASSUME TransferInv
    PROVE  LandedMeansComplete
  BY LandedComplete DEF TransferInv, LandedMeansComplete, Active, ActiveIn

(* What poll_async() takes for complete is complete.                       *)
THEOREM CompleteWhenLanded == Spec => []LandedMeansComplete
  BY InvariantLanded, TransferInvariant, PTL

(* ... and that outstanding transfers and slots in use match one to one.   *)
LEMMA InvariantSlots ==
    ASSUME TransferInv
    PROVE  SlotsOwned
<1> DEFINE f == [k \in Active |-> handles[k].slot]
<1>1. Active = ActiveIn(handles) /\ IsFiniteSet(Active)
  BY DEF TransferInv, TransfersOK, HandlesOK, Active, ActiveIn
<1>2. DOMAIN pool.slots = 1..Len(pool.slots)
  BY DEF TransferInv, TransfersOK, PoolType
<1>3. /\ \A k \in Active : handles[k].slot \in InUse(pool)
      /\ \A k, l \in Active : handles[k].slot = handles[l].slot => k = l
      /\ \A i \in InUse(pool) : \E k \in Active : handles[k].slot = i
  BY <1>1, <1>2 DEF TransferInv, TransfersOK, SlotsHeld, InUse
<1>4. InUse(pool) = {handles[k].slot : k \in Active}
  BY <1>3
<1>5. /\ f \in [Active -> InUse(pool)]
      /\ \A k, l \in Active : f[k] = f[l] => k = l
      /\ \A i \in InUse(pool) : \E k \in Active : f[k] = i
  BY <1>3
<1> HIDE DEF f
<1>6. f \in Bijection(Active, InUse(pool))
  BY <1>5, Fun_IsBij DEF Injection, IsInjective, Surjection, Bijection
<1>7. Cardinality(InUse(pool)) = Cardinality(Active)
  BY <1>1, <1>6, FS_Bijection DEF ExistsBijection
<1> QED
  BY <1>4, <1>7 DEF SlotsOwned

(* The slots in use are those of the outstanding transfers, one each.      *)
THEOREM OneSlotEach == Spec => []SlotsOwned
  BY InvariantSlots, TransferInvariant, PTL

(* ... and the limits.                                                     *)
LEMMA InvariantLimits ==
    ASSUME TransferInv
    PROVE  WithinLimits
<1>1. Active = ActiveIn(handles)
  BY DEF Active, ActiveIn
<1> QED
  BY <1>1 DEF TransferInv, TransfersOK, HandlesOK, Limited, WithinLimits

(* The pinned memory and the transfers stay within their limits.           *)
THEOREM Limits == Spec => []WithinLimits
  BY InvariantLimits, TransferInvariant, PTL

-----------------------------------------------------------------------------
(***************************************************************************)
(* Reuse of the slots.                                                     *)
(***************************************************************************)
\* Copies for nobody: those of a transfer that failed while it enqueued them.
NoStrayCopies(s) == \A j \in 1..Len(s) : IsCopy(s[j]) => s[j].dest \in Keys

\* Of a slot acquire() would hand out, only such copies are pending.
ReuseSparesTransfers ==
    \A i \in Reusable(pool, stream) :
        \A j \in PendingCopies(stream, i) : stream[j].dest \notin Keys

(* A slot that an outstanding transfer still copies from is in use.        *)
LEMMA ReuseSpares ==
    ASSUME TransferInv
    PROVE  ReuseSparesTransfers
<1> SUFFICES ASSUME NEW i \in Reusable(pool, stream), NEW j \in PendingCopies(stream, i),
                    stream[j].dest \in Keys
             PROVE  FALSE
  BY DEF ReuseSparesTransfers
<1>1. stream \in Seq(Items)
  BY DEF TransferInv, TransfersOK, StreamOK
<1>2. j \in 1..Len(stream) /\ IsCopy(stream[j]) /\ stream[j].slot = i
  BY <1>1 DEF PendingCopies
<1>3. stream[j].dest \in ActiveIn(handles) /\ i = handles[stream[j].dest].slot
  BY <1>2 DEF TransferInv, TransfersOK, CopiesTracked
<1>4. pool.slots[i].in_use
  BY <1>3 DEF TransferInv, TransfersOK, SlotsHeld
<1> QED
  BY <1>4 DEF Reusable

(* Without a failure while copies are enqueued, none are for nobody.       *)
LEMMA NoStrayKept ==
    ASSUME "transfer" \notin Failures, TransferInv, NoStrayCopies(stream), [Next]_vars
    PROVE  NoStrayCopies(stream')
<1>1. stream \in Seq(Items) /\ Len(stream) \in Nat
  BY DEF TransferInv, TransfersOK, StreamOK
<1>2. CASE stream' = stream \/ stream' = <<>>
  BY <1>2 DEF NoStrayCopies
<1>3. CASE DeviceStep
  <2>1. /\ Len(stream') = Len(stream) - 1
        /\ \A j \in 1..Len(stream') : j + 1 \in 1..Len(stream) /\ stream'[j] = stream[j + 1]
    BY <1>1, <1>3 DEF DeviceStep
  <2> QED
    BY <2>1 DEF NoStrayCopies
<1>4. ASSUME NEW k \in Keys, SubmitAsync(k)
      PROVE  NoStrayCopies(stream')
  <2> DEFINE i == AcquiredSlot(pool, stream)
  <2>1. i # NoSlot /\ pool \in PoolType /\ stream' = Launched(i, k)
    BY <1>4 DEF SubmitAsync, Accepts, TransferInv, TransfersOK
  <2>2. i \in Nat
    BY <2>1, AcquireClaims DEF Claims
  <2> HIDE DEF i
  <2>3. TransferAdded(stream, stream', i, k)
    BY <1>1, <2>1, <2>2, LaunchedProperties
  <2>4. ASSUME NEW j \in 1..Len(stream'), IsCopy(stream'[j])
        PROVE  stream'[j].dest \in Keys
    <3>1. CASE j \in 1..Len(stream)
      BY <2>3, <2>4, <3>1 DEF TransferAdded, NoStrayCopies
    <3>2. CASE j = Len(stream')
      <4>1. stream'[j] = Landed(k)
        BY <2>3, <3>2 DEF TransferAdded
      <4> QED
        BY <2>4, <4>1, EnqueuedItems
    <3>3. CASE j - Len(stream) \in 1..Parts /\ stream'[j] = Copy(i, j - Len(stream), k)
      BY <2>2, <3>3, EnqueuedItems
    <3> QED
      BY <2>3, <3>1, <3>2, <3>3 DEF TransferAdded
  <2> QED
    BY <2>4 DEF NoStrayCopies
<1>5. ASSUME NEW k \in Keys, Retire(k), handles[k].status # "none"
      PROVE  NoStrayCopies(stream')
  <2>1. stream' = Append(stream, Ready(handles[k].slot))
    BY <1>5 DEF Retire
  <2>2. handles[k].slot \in Nat
    BY DEF TransferInv, TransfersOK, HandlesOK, HandleType
  <2>3. Ready(handles[k].slot) \in Items /\ ~IsCopy(Ready(handles[k].slot))
    BY <2>2, EnqueuedItems
  <2>4. \A j \in 1..Len(stream') : IsCopy(stream'[j]) =>
           j \in 1..Len(stream) /\ stream'[j] = stream[j]
    BY <1>1, <2>1, <2>3
  <2> QED
    BY <2>4 DEF NoStrayCopies
<1>6. CASE ExecuteNext
  BY <1>2, <1>6
  DEF ExecuteNext, Demoted, SyncRefused, SyncTransferred, SyncStageFails, SyncEnqueueFails
<1>7. ASSUME NEW k \in Keys, PollCancelled(k) \/ PollFinished(k)
      PROVE  NoStrayCopies(stream')
  BY <1>5, <1>7 DEF PollCancelled, PollFinished
<1>8. ASSUME NEW k \in Keys,
             \/ Lookup(k) \/ LoadExpert(k)
             \/ AsyncUnbacked(k) \/ AsyncFails(k)
             \/ CancelAsync(k) \/ PollReconstructFails(k)
      PROVE  stream' = stream
  BY <1>8
  DEF Lookup, LoadExpert, AsyncUnbacked, AsyncFails, CancelAsync, PollReconstructFails
<1>9. ASSUME \/ \E r \in Requests : Submit(r)
             \/ \E i \in 1..MaxQueue : CancelQueued(i)
             \/ UNCHANGED vars
      PROVE  stream' = stream
  BY <1>9 DEF Submit, CancelQueued, vars
<1> QED
  BY <1>2, <1>3, <1>4, <1>6, <1>7, <1>8, <1>9 DEF Next

(* Whatever fails, staging into a slot acquire() hands out never overwrites *)
(* bytes that an outstanding transfer still has to copy: the copies that   *)
(* may still read the slot are those of a transfer that failed midway.     *)
THEOREM ReuseNeverHurtsTransfers == Spec => []ReuseSparesTransfers
  BY TransferInvariant, ReuseSpares, PTL

(* Without such a failure no slot is handed out while a copy reads it, as  *)
(* the events are there to ensure.                                         *)
THEOREM NoReuseInFlight ==
    ASSUME "transfer" \notin Failures
    PROVE  Spec => []SlotNotReusedInFlight
<1>1. Init => NoStrayCopies(stream)
  BY DEF Init, NoStrayCopies
<1>2. ASSUME TransferInv, NoStrayCopies(stream), [Next]_vars
      PROVE  NoStrayCopies(stream)'
  BY <1>2, NoStrayKept
<1>3. ASSUME TransferInv, NoStrayCopies(stream)
      PROVE  SlotNotReusedInFlight
  <2>1. DOMAIN stream = 1..Len(stream)
    BY <1>3 DEF TransferInv, TransfersOK, StreamOK
  <2> QED
    BY <1>3, <2>1, ReuseSpares
    DEF ReuseSparesTransfers, SlotNotReusedInFlight, PendingCopies, NoStrayCopies
<1> QED
  BY <1>1, <1>2, <1>3, TransferInvariant, PTL DEF Spec

-----------------------------------------------------------------------------
(***************************************************************************)
(* The life of a transfer (TransferLifecycle).                             *)
(***************************************************************************)
Status(h) == [k \in Keys |-> h[k].status]

OnGpu(c) == ToSet(c.gpu.order)

(* The instance counts as this module does.                                *)
LEMMA LifecycleCounts == \A S : Lifecycle!Cardinality(S) = Cardinality(S)
  BY Zenon DEF Lifecycle!Cardinality, Cardinality

\* g is h but for the handle of k, whose status is s.
HandleBecomes(h, g, k, s) ==
    g[k].status = s /\ \A l \in Keys : l # k => g[l].status = h[l].status

(* Bytes that are there stay there when the device goes on.                *)
LEMMA DeviceCompletes ==
    ASSUME TransferInv, DeviceStep
    PROVE  Complete \subseteq Complete' /\ UNCHANGED handles
<1>1. /\ \A k \in Keys, p \in 1..Parts : buffers'[k][p] \in {k, buffers[k][p]}
      /\ buffers' \in BufferType
  BY DeviceStepKeeps DEF TransferInv, TransfersOK
<1>2. UNCHANGED handles
  BY DEF DeviceStep
<1>3. ASSUME NEW k \in Complete
      PROVE  buffers'[k] = ExpertBytes(k)
  <2>1. k \in Keys /\ \A p \in 1..Parts : buffers[k][p] = k
    BY DEF Complete, Active, ExpertBytes
  <2>2. buffers'[k] \in [1..Parts -> Keys \cup {NoKey}]
    BY <1>1, <2>1 DEF BufferType
  <2>3. \A p \in 1..Parts : buffers'[k][p] = k
    BY <1>1, <2>1
  <2> QED
    BY <2>2, <2>3 DEF ExpertBytes
<1> QED
  BY <1>2, <1>3 DEF Complete, Active

(* When the stream is empty nothing is on its way any more.                *)
LEMMA SynchronizedCompletes ==
    ASSUME TransferInv', stream' = <<>>
    PROVE  Complete' = Active'
<1>1. ASSUME NEW k \in ActiveIn(handles')
      PROVE  buffers'[k] = ExpertBytes(k)
  <2>1. EventDone(stream', Landed(k))
    BY DEF EventDone, Contains
  <2>2. TransfersOK(pool', stream', handles', buffers')
    BY DEF TransferInv
  <2> QED
    BY <2>1, <2>2, LandedComplete
<1> QED
  BY <1>1 DEF Complete, Active, ActiveIn

(* A transfer begins with nothing in its buffers.                          *)
LEMMA StartedIncomplete ==
    ASSUME TransferInv, NEW k \in Keys, k \notin Active,
           buffers' = [buffers EXCEPT ![k] = Blank],
           Active' \subseteq Active \cup {k}, Active \subseteq Active'
    PROVE  Complete' = Complete
<1>1. buffers \in BufferType
  BY DEF TransferInv, TransfersOK
<1>2. buffers'[k] = Blank /\ \A l \in Keys : l # k => buffers'[l] = buffers[l]
  BY <1>1 DEF BufferType
<1>3. Blank # ExpertBytes(k)
  <2>1. 1 \in 1..Parts /\ k # NoKey
    OBVIOUS
  <2>2. Blank[1] = NoKey /\ ExpertBytes(k)[1] = k
    BY <2>1 DEF Blank, ExpertBytes
  <2> QED
    BY <2>1, <2>2
<1> QED
  BY <1>2, <1>3 DEF Complete, Active

(* The end of a transfer whose event is done: its parts were all there,    *)
(* and the other transfers are as they were.                               *)
LEMMA EndedComplete ==
    ASSUME TransferInv, NEW k \in Active, EventDone(stream, Landed(k)),
           handles' = [handles EXCEPT ![k] = NoHandle],
           buffers' = [buffers EXCEPT ![k] = Blank]
    PROVE  k \in Complete /\ Complete' = Complete \ {k}
<1>1. buffers \in BufferType /\ handles \in [Keys -> HandleType] /\ k \in Keys
  BY DEF TransferInv, TransfersOK, HandlesOK, Active
<1>2. buffers[k] = ExpertBytes(k)
  BY LandedComplete DEF TransferInv, Active, ActiveIn
<1>3. Active' = Active \ {k}
  BY <1>1 DEF Active, NoHandle
<1>4. \A l \in Keys : l # k => buffers'[l] = buffers[l]
  BY <1>1 DEF BufferType
<1> QED
  BY <1>2, <1>3, <1>4 DEF Complete, Active

(* Replacing the status in a handle replaces one status.                   *)
LEMMA HandleReplaced ==
    ASSUME NEW h \in [Keys -> HandleType], NEW k \in Keys
    PROVE  \A s : HandleBecomes(h, [h EXCEPT ![k].status = s], k, s)
<1>1. h[k] \in HandleType
  OBVIOUS
<1>2. \A s : [h[k] EXCEPT !.status = s].status = s
  BY <1>1 DEF HandleType
<1> QED
  BY <1>2 DEF HandleBecomes

(* The same of the statuses by themselves.                                 *)
LEMMA StatusReplaced ==
    ASSUME NEW k \in Keys, NEW s, HandleBecomes(handles, handles', k, s)
    PROVE  Status(handles') = [Status(handles) EXCEPT ![k] = s]
  BY DEF HandleBecomes, Status

(* Putting an expert on the GPU displaces at most one other.               *)
LEMMA GpuPut ==
    ASSUME NEW c, CacheOK(c), NEW k \in Keys
    PROVE  LET d == Put(c, k, "cuda")
           IN  \/ OnGpu(d) = OnGpu(c) \cup {k}
               \/ \E v \in OnGpu(c) : OnGpu(d) = (OnGpu(c) \ {v}) \cup {k}
<1> DEFINE d == Put(c, k, "cuda")
<1>1. "cuda" \in Devices /\ TierOf("cuda") = "gpu"
  BY DEF Devices, TierOf
<1>2. OnGpu(c) = Held(c, "gpu") /\ OnGpu(d) = Held(d, "gpu")
  BY DEF OnGpu, Held, HeldIn
<1>3. \/ Held(d, "gpu") = Held(c, "gpu") /\ k \in Held(c, "gpu")
      \/ Held(d, "gpu") = Held(c, "gpu") \cup {k}
      \/ \E v \in Held(c, "gpu") : Held(d, "gpu") = (Held(c, "gpu") \ {v}) \cup {k}
  BY <1>1, PutHeld
<1> HIDE DEF d
<1>4. \/ OnGpu(d) = OnGpu(c) \cup {k}
      \/ \E v \in OnGpu(c) : OnGpu(d) = (OnGpu(c) \ {v}) \cup {k}
  BY <1>2, <1>3
<1> QED
  BY <1>4 DEF d

\* A step of the lifecycle, or none.
LifecycleStep ==
    [Lifecycle!LifecycleNext]_<<[k \in Keys |-> handles[k].status], Complete,
                               ToSet(cache.gpu.order)>>

(* Calls that end no transfer and move at most one expert, and the device. *)
LEMMA ElsewhereStep ==
    ASSUME UNCHANGED handles,
           Complete \subseteq Complete',
           \/ OnGpu(cache') = OnGpu(cache)
           \/ \E v \in OnGpu(cache) : OnGpu(cache') = OnGpu(cache) \ {v}
           \/ \E k \in Keys :
                 \/ OnGpu(cache') = OnGpu(cache) \cup {k}
                 \/ \E v \in OnGpu(cache) :
                       OnGpu(cache') = (OnGpu(cache) \ {v}) \cup {k}
    PROVE  LifecycleStep
<1>1. Complete' \subseteq Lifecycle!Outstanding
  BY DEF Complete, Active, Lifecycle!Outstanding
<1>2. Lifecycle!Arrives
  BY <1>1 DEF Lifecycle!Arrives
<1>3. \/ OnGpu(cache') = OnGpu(cache)
      \/ \E v \in OnGpu(cache) : OnGpu(cache') = OnGpu(cache) \ {v}
      \/ \E k \in Keys : Lifecycle!Enters(k)
  BY DEF Lifecycle!Enters, OnGpu
<1>4. Lifecycle!Elsewhere
  BY <1>2, <1>3 DEF Lifecycle!Elsewhere, OnGpu
<1> QED
  BY <1>4 DEF LifecycleStep, Lifecycle!LifecycleNext

(* A call that changes the status of one transfer and no residency.        *)
LEMMA StatusStep ==
    ASSUME UNCHANGED cache, NEW k \in Keys,
           \/ /\ handles[k].status = "none" /\ k \notin OnGpu(cache)
              /\ Cardinality(Active) < MaxConcurrent
              /\ Status(handles') = [Status(handles) EXCEPT ![k] = "in_flight"]
              /\ Complete' = Complete
           \/ /\ handles[k].status = "in_flight"
              /\ Status(handles') = [Status(handles) EXCEPT ![k] = "cancelled"]
              /\ Complete' = Complete
           \/ /\ k \in Complete
              /\ Status(handles') = [Status(handles) EXCEPT ![k] = "none"]
              /\ Complete' = Complete \ {k}
    PROVE  LifecycleStep
<1>1. Status(handles)[k] = handles[k].status
  BY DEF Status
<1>2. Lifecycle!Outstanding = Active
  BY DEF Lifecycle!Outstanding, Active
<1>3. CASE /\ handles[k].status = "none" /\ k \notin OnGpu(cache)
           /\ Cardinality(Active) < MaxConcurrent
           /\ Status(handles') = [Status(handles) EXCEPT ![k] = "in_flight"]
           /\ Complete' = Complete
  <2>1. Lifecycle!Cardinality(Lifecycle!Outstanding) < MaxConcurrent
    BY <1>2, <1>3, LifecycleCounts
  <2>2. Lifecycle!Start(k)
    BY <1>1, <1>3, <2>1 DEF Lifecycle!Start, Lifecycle!Become, Status, OnGpu
  <2> QED
    BY <2>2 DEF LifecycleStep, Lifecycle!LifecycleNext
<1>4. CASE /\ handles[k].status = "in_flight"
           /\ Status(handles') = [Status(handles) EXCEPT ![k] = "cancelled"]
           /\ Complete' = Complete
  <2>1. Lifecycle!Cancel(k)
    BY <1>1, <1>4 DEF Lifecycle!Cancel, Lifecycle!Become, Status, OnGpu
  <2> QED
    BY <2>1 DEF LifecycleStep, Lifecycle!LifecycleNext
<1>5. CASE /\ k \in Complete
           /\ Status(handles') = [Status(handles) EXCEPT ![k] = "none"]
           /\ Complete' = Complete \ {k}
  <2>1. Lifecycle!Discard(k)
    BY <1>1, <1>5
    DEF Lifecycle!Discard, Lifecycle!Ends, Lifecycle!Become, Status, OnGpu
  <2> QED
    BY <2>1 DEF LifecycleStep, Lifecycle!LifecycleNext
<1> QED
  BY <1>3, <1>4, <1>5

(* A transfer that ends by publishing its expert.                          *)
LEMMA FinishStep ==
    ASSUME TransferInv, NEW k \in Keys, PollFinished(k)
    PROVE  LifecycleStep
<1>1. /\ cache' = Put(cache, k, "cuda") /\ CacheOK(cache)
      /\ handles \in [Keys -> HandleType]
      /\ handles[k].status = "in_flight" /\ handles' = [handles EXCEPT ![k] = NoHandle]
  BY DEF PollFinished, Publish, Retire, TransferInv, ContentOK, TransfersOK, HandlesOK
<1>2. Status(handles') = [Status(handles) EXCEPT ![k] = "none"]
  <2>1. HandleBecomes(handles, handles', k, "none")
    BY <1>1 DEF HandleBecomes, NoHandle
  <2> QED
    BY <2>1, StatusReplaced
<1>3. \/ OnGpu(cache') = OnGpu(cache) \cup {k}
      \/ \E v \in OnGpu(cache) : OnGpu(cache') = (OnGpu(cache) \ {v}) \cup {k}
  BY <1>1, GpuPut
<1>4. k \in Complete /\ Complete' = Complete \ {k}
  <2>1. k \in Active /\ EventDone(stream, Landed(k))
    BY <1>1 DEF Active, PollFinished
  <2>2. buffers' = [buffers EXCEPT ![k] = Blank]
    BY DEF PollFinished, Retire
  <2> QED
    BY <1>1, <2>1, <2>2, EndedComplete
<1>5. Lifecycle!Ends(k) /\ Lifecycle!Enters(k)
  BY <1>2, <1>3, <1>4
  DEF Lifecycle!Ends, Lifecycle!Enters, Lifecycle!Become, Status, OnGpu
<1>6. Lifecycle!Finish(k)
  BY <1>1, <1>5 DEF Lifecycle!Finish
<1> QED
  BY <1>6 DEF LifecycleStep, Lifecycle!LifecycleNext

(* execute_next() moves at most one expert, and no transfer.               *)
LEMMA ExecuteStep ==
    ASSUME TransferInv, ExecuteNext
    PROVE  LifecycleStep
<1>1. PICK i \in DOMAIN queue :
         LET r == queue[i] IN
         /\ UNCHANGED handles
         /\ \/ Demoted(r.key)
            \/ SyncRefused(r.key) \/ SyncTransferred(r.key)
            \/ SyncStageFails(r.key) \/ SyncEnqueueFails(r.key)
  BY DEF ExecuteNext
<1> DEFINE k == queue[i].key
<1>2. k \in Keys /\ CacheOK(cache)
  <2>1. queue \in Seq(Requests)
    BY DEF TransferInv, QueueOK
  <2>2. queue[i] \in Requests
    BY <2>1
  <2> QED
    BY <2>2 DEF Requests, TransferInv, ContentOK
<1> HIDE DEF k
<1>3. \/ cache' = cache
      \/ cache' = Put(cache, k, "cuda")
      \/ cache' = Demote(cache, k)
  BY <1>1
  DEF Demoted, SyncRefused, SyncTransferred, SyncStageFails, SyncEnqueueFails, Publish, k
<1>4. ASSUME cache' = Demote(cache, k)
      PROVE  \/ OnGpu(cache') = OnGpu(cache)
             \/ \E v \in OnGpu(cache) : OnGpu(cache') = OnGpu(cache) \ {v}
  <2>1. Held(cache', "gpu") = Held(cache, "gpu") \ {k}
    BY <1>2, <1>4, DemoteHeld
  <2>2. OnGpu(cache') = OnGpu(cache) \ {k}
    BY <2>1 DEF OnGpu, Held, HeldIn
  <2>3. k \notin OnGpu(cache) => OnGpu(cache') = OnGpu(cache)
    BY <2>2
  <2> QED
    BY <2>2, <2>3
<1>5. ASSUME cache' = Put(cache, k, "cuda")
      PROVE  \/ OnGpu(cache') = OnGpu(cache) \cup {k}
             \/ \E v \in OnGpu(cache) :
                   OnGpu(cache') = (OnGpu(cache) \ {v}) \cup {k}
  BY <1>2, <1>5, GpuPut
<1>6. Complete \subseteq Complete'
  <2>1. CASE SyncTransferred(k)
    <3>1. TransferInv' /\ stream' = <<>>
      BY <2>1, ExecuteKeeps DEF SyncTransferred
    <3> QED
      BY <1>1, <3>1, SynchronizedCompletes DEF Complete, Active
  <2>2. CASE ~SyncTransferred(k)
    <3>1. UNCHANGED <<handles, buffers>>
      BY <1>1, <2>2 DEF Demoted, SyncRefused, SyncStageFails, SyncEnqueueFails, k
    <3> QED
      BY <3>1 DEF Complete, Active
  <2> QED
    BY <2>1, <2>2
<1> QED
  BY <1>1, <1>2, <1>3, <1>4, <1>5, <1>6, ElsewhereStep

(* Every step of the scheduler is one of the lifecycle, or none.           *)
LEMMA LifecycleSteps ==
    ASSUME TransferInv, [Next]_vars
    PROVE  LifecycleStep
<1>1. /\ handles \in [Keys -> HandleType] /\ CacheOK(cache)
  BY DEF TransferInv, ContentOK, TransfersOK, HandlesOK
<1>2. ASSUME UNCHANGED <<cache, handles>>, Complete \subseteq Complete'
      PROVE  LifecycleStep
  BY <1>2, ElsewhereStep
<1>3. ASSUME NEW k \in Keys, Lookup(k) \/ LoadExpert(k)
      PROVE  LifecycleStep
  <2>1. Held(Get(cache, k), "gpu") = Held(cache, "gpu") /\ CacheOK(Get(cache, k))
    BY <1>1, GetHeld, CallsOK DEF Tiers
  <2>2. "cpu" \in Devices /\ TierOf("cpu") = "cpu" /\ "gpu" \in Tiers \ {"cpu"}
    BY DEF Devices, TierOf, Tiers
  <2>3. Held(cache', "gpu") = Held(cache, "gpu")
    <3>1. CASE Lookup(k)
      BY <2>1, <3>1 DEF Lookup
    <3>2. CASE LoadExpert(k)
      <4>1. cache'["gpu"] = Get(cache, k)["gpu"]
        BY <2>1, <2>2, <3>2, PutHeld DEF LoadExpert
      <4> QED
        BY <2>1, <4>1 DEF Held
    <3> QED
      BY <1>3, <3>1, <3>2
  <2>4. UNCHANGED <<handles, buffers>>
    BY <1>3 DEF Lookup, LoadExpert
  <2>5. Complete' = Complete
    BY <2>4 DEF Complete, Active
  <2> QED
    BY <2>3, <2>4, <2>5, ElsewhereStep DEF OnGpu, Held, HeldIn
<1>4. ASSUME NEW k \in Keys, SubmitAsync(k)
      PROVE  LifecycleStep
  <2>1. /\ UNCHANGED cache
        /\ handles' = [handles EXCEPT
              ![k] = [status |-> "in_flight", slot |-> AcquiredSlot(pool, stream)]]
        /\ ~Resident(cache, "gpu", k) /\ k \notin Active
        /\ Cardinality(Active) < MaxConcurrent
    BY <1>4 DEF SubmitAsync, Accepts
  <2>2. handles[k].status = "none" /\ k \notin OnGpu(cache)
    BY <1>1, <2>1, GpuHeld DEF Active, OnGpu, Held, HeldIn
  <2>3. Status(handles') = [Status(handles) EXCEPT ![k] = "in_flight"]
    <3>1. HandleBecomes(handles, handles', k, "in_flight")
      BY <1>1, <2>1 DEF HandleBecomes
    <3> QED
      BY <3>1, StatusReplaced
  <2>4. Complete' = Complete
    <3>1. buffers' = [buffers EXCEPT ![k] = Blank]
      BY <1>4 DEF SubmitAsync
    <3>2. Active' \subseteq Active \cup {k} /\ Active \subseteq Active'
      BY <1>1, <2>1 DEF Active
    <3> QED
      BY <2>1, <3>1, <3>2, StartedIncomplete
  <2> QED
    BY <2>1, <2>2, <2>3, <2>4, StatusStep
<1>5. ASSUME NEW k \in Keys, CancelAsync(k)
      PROVE  LifecycleStep
  <2>1. Status(handles') = [Status(handles) EXCEPT ![k] = "cancelled"]
    <3>1. HandleBecomes(handles, handles', k, "cancelled")
      BY <1>1, <1>5, HandleReplaced DEF CancelAsync
    <3> QED
      BY <3>1, StatusReplaced
  <2>2. Complete' = Complete
    <3>1. HandleBecomes(handles, handles', k, "cancelled") /\ UNCHANGED buffers
      BY <1>1, <1>5, HandleReplaced DEF CancelAsync
    <3>2. handles[k].status # "none"
      BY <1>5 DEF CancelAsync
    <3>3. Active' = Active
      BY <3>1, <3>2 DEF Active, HandleBecomes
    <3> QED
      BY <3>1, <3>3 DEF Complete
  <2> QED
    BY <1>5, <2>1, <2>2, StatusStep DEF CancelAsync
<1>6. ASSUME NEW k \in Keys, PollCancelled(k) \/ PollReconstructFails(k)
      PROVE  LifecycleStep
  <2>1. /\ UNCHANGED cache /\ handles[k].status # "none"
        /\ handles' = [handles EXCEPT ![k] = NoHandle]
    BY <1>6 DEF PollCancelled, PollReconstructFails, Retire
  <2>2. Status(handles') = [Status(handles) EXCEPT ![k] = "none"]
    <3>1. HandleBecomes(handles, handles', k, "none")
      BY <1>1, <2>1 DEF HandleBecomes, NoHandle
    <3> QED
      BY <3>1, StatusReplaced
  <2>3. k \in Complete /\ Complete' = Complete \ {k}
    <3>1. k \in Active /\ EventDone(stream, Landed(k))
      BY <1>6, <2>1 DEF Active, PollCancelled, PollReconstructFails
    <3>2. buffers' = [buffers EXCEPT ![k] = Blank]
      BY <1>6 DEF PollCancelled, PollReconstructFails, Retire
    <3> QED
      BY <2>1, <3>1, <3>2, EndedComplete
  <2> QED
    BY <2>1, <2>2, <2>3, StatusStep
<1>7. ASSUME UNCHANGED <<cache, handles, buffers>>
      PROVE  LifecycleStep
  <2>1. Complete' = Complete
    BY <1>7 DEF Complete, Active
  <2> QED
    BY <1>2, <1>7, <2>1
<1>8. ASSUME NEW k \in Keys, AsyncUnbacked(k) \/ AsyncFails(k)
      PROVE  LifecycleStep
  BY <1>7, <1>8 DEF AsyncUnbacked, AsyncFails
<1>9. ASSUME \/ \E r \in Requests : Submit(r)
             \/ \E i \in 1..MaxQueue : CancelQueued(i)
             \/ UNCHANGED vars
      PROVE  UNCHANGED <<cache, handles, buffers>>
  BY <1>9 DEF Submit, CancelQueued, vars
<1>10. CASE DeviceStep
  <2>1. UNCHANGED cache
    BY <1>10 DEF DeviceStep
  <2> QED
    BY <1>2, <1>10, <2>1, DeviceCompletes
<1> QED
  BY <1>3, <1>4, <1>5, <1>6, <1>7, <1>8, <1>9, <1>10, ExecuteStep, FinishStep DEF Next

(* It begins with no transfer and no expert on the GPU.                    *)
LEMMA InitLifecycle == Init => Lifecycle!LifecycleInit
<1>1. InitCache["gpu"].order = <<>>
  BY InitOK DEF Tiers
<1> QED
  BY <1>1 DEF Init, Lifecycle!LifecycleInit, NoHandle, ToSet, Complete, Active

(* Every call is a step of the life of one expert's transfer.  However the *)
(* device and the host alternate, no transfer ends before all its bytes    *)
(* have arrived; the end of one that was cancelled moves no expert, and    *)
(* that of any other moves none or its own to the GPU.                     *)
THEOREM LifecycleImplemented == Spec => ImplementsLifecycle
<1>1. Init => Lifecycle!LifecycleInit
  BY InitLifecycle
<1>2. ASSUME TransferInv, [Next]_vars
      PROVE  [Lifecycle!LifecycleNext]_<<[k \in Keys |-> handles[k].status], Complete,
                                        ToSet(cache.gpu.order)>>
  BY <1>2, LifecycleSteps DEF LifecycleStep
<1> QED
  BY <1>1, <1>2, TransferInvariant, PTL DEF Spec, ImplementsLifecycle, Lifecycle!LifecycleSpec
=============================================================================
