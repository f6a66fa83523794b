-------------------------- MODULE MetricsCollector --------------------------
(***************************************************************************)
(* metrics/collector.py's MetricsCollector, called by several threads.     *)
(*                                                                         *)
(* A record_* call and reset() each change some fields, one after the      *)
(* other, in a section guarded by the collector's lock; snapshot() reads   *)
(* all of them in such a section.  A call is the sequence of its updates.  *)
(* x += n is a read and a write, between which other threads run.  A list  *)
(* of samples is abstracted to the number of its samples.  The collector   *)
(* is enabled: a disabled one ignores the record_* calls.                  *)
(***************************************************************************)
EXTENDS Integers, Sequences

CONSTANTS
    Threads,    \* the threads that call the collector
    Calls,      \* the record_* calls they make
    Free,       \* no thread holds the lock
    NoValue,    \* no value was read
    MaxCount    \* bound: no call makes a field grow beyond it

Fields ==
    {"cache_hits", "cache_misses", "evictions", "transfers_completed",
     "total_bytes_transferred", "ttft_samples", "tps_samples",
     "transfer_bandwidth_gbps", "gpu_slots_used", "cpu_slots_used"}

Add(field, n) == [field |-> field, kind |-> "add", by |-> n]

Put(field, v) == [field |-> field, kind |-> "put", by |-> v]

Update == [field : Fields, kind : {"add", "put"}, by : Nat]

RecordCacheHit == <<Add("cache_hits", 1)>>

RecordCacheMiss == <<Add("cache_misses", 1)>>

RecordEviction == <<Add("evictions", 1)>>

RecordTransfer(bytes, bandwidth) ==
    <<Add("transfers_completed", 1), Add("total_bytes_transferred", bytes),
      Put("transfer_bandwidth_gbps", bandwidth)>>

RecordTtft == <<Add("ttft_samples", 1)>>

RecordTps == <<Add("tps_samples", 1)>>

RecordSlotUsage(gpu, cpu) == <<Put("gpu_slots_used", gpu), Put("cpu_slots_used", cpu)>>

ResetState ==
    <<Put("cache_hits", 0), Put("cache_misses", 0), Put("evictions", 0),
      Put("transfers_completed", 0), Put("total_bytes_transferred", 0),
      Put("ttft_samples", 0), Put("tps_samples", 0),
      Put("transfer_bandwidth_gbps", 0), Put("gpu_slots_used", 0),
      Put("cpu_slots_used", 0)>>

\* The order in which snapshot() reads the fields.
SnapshotOrder ==
    <<"ttft_samples", "tps_samples", "cache_hits", "cache_misses", "evictions",
      "transfers_completed", "total_bytes_transferred",
      "transfer_bandwidth_gbps", "gpu_slots_used", "cpu_slots_used">>

\* A call touches a field at most once.
Distinct(op) == \A i, j \in DOMAIN op : op[i].field = op[j].field => i = j

ASSUME CollectorAssumption ==
    /\ Free \notin Threads
    /\ NoValue \notin Nat
    /\ Calls \subseteq Seq(Update)
    /\ \A op \in Calls : Distinct(op)

VARIABLES
    fields,  \* the accumulators
    lock,    \* who holds _lock
    call,    \* what each thread is doing
    exact    \* auxiliary: the accumulators had each call been one step

cvars == <<fields, lock, call, exact>>

-----------------------------------------------------------------------------
Zero == [f \in Fields |-> 0]

\* place: "out" of the collector, at its lock ("enter"), or "in" its section.
Call(place, op, snapshot) ==
    [at |-> place, op |-> op, snapshot |-> snapshot, i |-> 1, reg |-> NoValue, seen |-> <<>>]

Returned == Call("out", <<>>, FALSE)

CInit ==
    /\ fields = Zero /\ exact = Zero
    /\ lock = Free
    /\ call = [t \in Threads |-> Returned]

Enters(t, op, snapshot) == call' = [call EXCEPT ![t] = Call("enter", op, snapshot)]

Bounded(op) ==
    \A i \in DOMAIN op : op[i].kind = "add" => exact[op[i].field] + op[i].by <= MaxCount

CallRecord(t, op) ==
    /\ call[t].at = "out"
    /\ Bounded(op)
    /\ Enters(t, op, FALSE)
    /\ UNCHANGED <<fields, lock, exact>>

CallReset(t) == CallRecord(t, ResetState)

CallSnapshot(t) ==
    /\ call[t].at = "out"
    /\ Enters(t, <<>>, TRUE)
    /\ UNCHANGED <<fields, lock, exact>>

\* Mutant: the section is entered without the lock.
AcquireUnlocked(t) ==
    /\ call[t].at = "enter"
    /\ lock' = t
    /\ call' = [call EXCEPT ![t].at = "in"]
    /\ UNCHANGED <<fields, exact>>

\* Mutant: snapshot() does not take the lock.
AcquireUnlessSnapshot(t) ==
    /\ call[t].at = "enter"
    /\ call[t].snapshot \/ lock = Free
    /\ lock' = t
    /\ call' = [call EXCEPT ![t].at = "in"]
    /\ UNCHANGED <<fields, exact>>

Acquire(t) ==
    /\ call[t].at = "enter"
    /\ lock = Free
    /\ lock' = t
    /\ call' = [call EXCEPT ![t].at = "in"]
    /\ UNCHANGED <<fields, exact>>

Updating(t) == call[t].at = "in" /\ call[t].i \in DOMAIN call[t].op

Current(t) == call[t].op[call[t].i]

Load(t) ==
    /\ Updating(t)
    /\ Current(t).kind = "add" /\ call[t].reg = NoValue
    /\ call' = [call EXCEPT ![t].reg = fields[Current(t).field]]
    /\ UNCHANGED <<fields, lock, exact>>

Updated(old, u) == IF u.kind = "add" THEN old + u.by ELSE u.by

Store(t) ==
    /\ Updating(t)
    /\ Current(t).kind = "add" => call[t].reg # NoValue
    /\ fields' = [fields EXCEPT ![Current(t).field] = Updated(call[t].reg, Current(t))]
    /\ call' = [call EXCEPT ![t].reg = NoValue, ![t].i = @ + 1]
    /\ UNCHANGED <<lock, exact>>

Reading(t) ==
    call[t].at = "in" /\ call[t].snapshot /\ Len(call[t].seen) < Len(SnapshotOrder)

ReadField(t) ==
    /\ Reading(t)
    /\ call' = [call EXCEPT ![t].seen = Append(@, fields[SnapshotOrder[Len(@) + 1]])]
    /\ UNCHANGED <<fields, lock, exact>>

\* The accumulators acc after the first n updates of a call.
Applied(acc, op, n) ==
    [f \in Fields |->
        IF \E j \in 1..n : op[j].field = f
        THEN Updated(acc[f], op[CHOOSE j \in 1..n : op[j].field = f])
        ELSE acc[f]]

Leave(t) ==
    /\ call[t].at = "in" /\ ~Updating(t) /\ ~Reading(t)
    /\ lock' = Free
    /\ call' = [call EXCEPT ![t] = Returned]
    /\ exact' = Applied(exact, call[t].op, Len(call[t].op))
    /\ UNCHANGED fields

\* A thread in its section, which it does not leave half way.
InSection(t) == Load(t) \/ Store(t) \/ ReadField(t) \/ Leave(t)

CNext ==
    \E t \in Threads :
        \/ \E op \in Calls : CallRecord(t, op)
        \/ CallReset(t) \/ CallSnapshot(t)
        \/ Acquire(t) \/ InSection(t)

CSpec == CInit /\ [][CNext]_cvars

-----------------------------------------------------------------------------
(* "Thread-safe in-process metrics accumulator": whenever no call is in its *)
(* section, the fields are those of the calls that ended, one by one: no   *)
(* update is lost, counted twice or half undone by a reset.                *)
NothingLost == lock = Free => fields = exact

(* "a point-in-time snapshot": what snapshot() returns is what the fields   *)
(* were together at one moment of the call, with no other call half done.  *)
SnapshotConsistent ==
    \A t \in Threads :
        call[t].at = "in" =>
            \A i \in DOMAIN call[t].seen : call[t].seen[i] = exact[SnapshotOrder[i]]
=============================================================================
