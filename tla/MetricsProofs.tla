---------------------------- MODULE MetricsProofs ----------------------------
(***************************************************************************)
(* The collector's promises, for any threads, calls and amounts: the lock  *)
(* makes every call one step.                                              *)
(*                                                                         *)
(* What makes them inductive is the state in the middle of a section: the  *)
(* fields are then the exact ones with the updates the call has made so    *)
(* far (Applied), and a value it has read is still the exact one.          *)
(***************************************************************************)
EXTENDS MetricsReporter, TLAPS

Ops == {op \in Seq(Update) : Distinct(op)}

CallState ==
    [at : {"out", "enter", "in"}, op : Ops, snapshot : BOOLEAN, i : Nat \ {0},
     reg : Nat \cup {NoValue}, seen : Seq(Nat)]

Accumulators == [Fields -> Nat]

\* A thread that has not begun its section, and one that reads in it.
Fresh(c) == c.i = 1 /\ c.reg = NoValue /\ c.seen = <<>>

Reader(c) == c.snapshot => c.op = <<>>

Types ==
    /\ fields \in Accumulators /\ exact \in Accumulators
    /\ lock \in Threads \cup {Free}
    /\ call \in [Threads -> CallState]

\* The thread t is in the middle of its section.
Midway(t) ==
    /\ call[t].i <= Len(call[t].op) + 1
    /\ fields = Applied(exact, call[t].op, call[t].i - 1)
    /\ Updating(t) => call[t].reg \in {NoValue, exact[Current(t).field]}
    /\ \A j \in DOMAIN call[t].seen : call[t].seen[j] = exact[SnapshotOrder[j]]
    /\ Len(call[t].seen) <= Len(SnapshotOrder)

CInv ==
    /\ Types
    /\ lock = Free => fields = exact
    /\ \A t \in Threads :
          /\ call[t].at = "in" <=> lock = t
          /\ Reader(call[t])
          /\ call[t].at = "enter" => Fresh(call[t])
          /\ call[t].at = "in" => Midway(t)

-----------------------------------------------------------------------------
(* The updates of a call, one by one.                                      *)
LEMMA UpdatedNat ==
    ASSUME NEW old \in Nat, NEW u \in Update
    PROVE  Updated(old, u) \in Nat
BY DEF Updated, Update

\* What the updates of a call are, and that they touch distinct fields.
LEMMA OpUpdates ==
    ASSUME NEW op \in Ops
    PROVE  /\ Len(op) \in Nat /\ DOMAIN op = 1..Len(op)
           /\ \A j \in 1..Len(op) :
                 /\ op[j] \in Update
                 /\ op[j].field \in Fields /\ op[j].kind \in {"add", "put"} /\ op[j].by \in Nat
           /\ \A j, k \in 1..Len(op) : op[j].field = op[k].field => j = k
<1>1. op \in Seq(Update) /\ Distinct(op)
  BY DEF Ops
<1>2. Len(op) \in Nat /\ DOMAIN op = 1..Len(op) /\ \A j \in 1..Len(op) : op[j] \in Update
  BY <1>1
<1>3. \A u \in Update : u.field \in Fields /\ u.kind \in {"add", "put"} /\ u.by \in Nat
  BY DEF Update
<1> QED  BY <1>1, <1>2, <1>3 DEF Distinct

\* Updates keep the accumulators natural numbers.
LEMMA AppliedType ==
    ASSUME NEW acc \in Accumulators, NEW op \in Ops, NEW n \in 0..Len(op)
    PROVE  Applied(acc, op, n) \in Accumulators
<1>1. ASSUME NEW f \in Fields
      PROVE  Applied(acc, op, n)[f] \in Nat
  <2>1. CASE \E j \in 1..n : op[j].field = f
    <3>1. (CHOOSE j \in 1..n : op[j].field = f) \in 1..n
      BY <2>1
    <3>2. op[CHOOSE j \in 1..n : op[j].field = f] \in Update
      BY <3>1, OpUpdates
    <3> QED  BY <2>1, <3>2, UpdatedNat DEF Applied, Accumulators
  <2>2. CASE ~ \E j \in 1..n : op[j].field = f
    BY <2>2 DEF Applied, Accumulators
  <2> QED  BY <2>1, <2>2
<1> QED  BY <1>1 DEF Applied, Accumulators

\* No update changes nothing.
LEMMA AppliedNone ==
    ASSUME NEW acc \in Accumulators, NEW op
    PROVE  Applied(acc, op, 0) = acc
BY DEF Applied, Accumulators

\* An update finds its field as it was before the call.
LEMMA AppliedAhead ==
    ASSUME NEW acc \in Accumulators, NEW op \in Ops, NEW i \in DOMAIN op
    PROVE  Applied(acc, op, i - 1)[op[i].field] = acc[op[i].field]
<1>1. op[i].field \in Fields
  BY OpUpdates
<1>2. ~ \E j \in 1..(i - 1) : op[j].field = op[i].field
  BY OpUpdates
<1> QED  BY <1>1, <1>2 DEF Applied

\* One update more is one field more.
LEMMA AppliedNext ==
    ASSUME NEW acc \in Accumulators, NEW op \in Ops, NEW i \in DOMAIN op
    PROVE  Applied(acc, op, i) =
             [Applied(acc, op, i - 1) EXCEPT ![op[i].field] = Updated(acc[op[i].field], op[i])]
<1> DEFINE A == Applied(acc, op, i - 1)
           B == [A EXCEPT ![op[i].field] = Updated(acc[op[i].field], op[i])]
<1>0. i \in Nat /\ i >= 1 /\ i <= Len(op) /\ op[i].field \in Fields
  BY OpUpdates
<1>1. ASSUME NEW f \in Fields
      PROVE  Applied(acc, op, i)[f] = B[f]
  <2>0. B[f] = IF f = op[i].field THEN Updated(acc[op[i].field], op[i]) ELSE A[f]
    BY <1>0 DEF Applied
  <2>1. CASE f = op[i].field
    <3>1. \A j \in 1..i : op[j].field = f => j = i
      BY <1>0, <2>1, OpUpdates
    <3>2. (CHOOSE j \in 1..i : op[j].field = f) = i
      BY <1>0, <2>1, <3>1
    <3>3. \E j \in 1..i : op[j].field = f
      BY <1>0, <2>1
    <3> QED  BY <2>0, <2>1, <3>2, <3>3 DEF Applied
  <2>2. CASE f # op[i].field /\ \E j \in 1..(i - 1) : op[j].field = f
    <3>1. PICK k \in 1..(i - 1) : op[k].field = f
      BY <2>2
    <3>2. k \in DOMAIN op /\ k \in 1..i
      BY <1>0, OpUpdates
    <3>3. \A j \in 1..i : op[j].field = f <=> j = k
      BY <1>0, <3>1, <3>2, OpUpdates
    <3>4. (CHOOSE j \in 1..i : op[j].field = f) = k
      BY <3>2, <3>3
    <3>5. (CHOOSE j \in 1..(i - 1) : op[j].field = f) = k
      BY <1>0, <3>1, <3>3
    <3>6. Applied(acc, op, i)[f] = Updated(acc[f], op[k])
      BY <3>2, <3>3, <3>4 DEF Applied
    <3>7. A[f] = Updated(acc[f], op[k])
      BY <3>1, <3>5 DEF Applied
    <3> QED  BY <2>0, <2>2, <3>6, <3>7
  <2>3. CASE f # op[i].field /\ ~ \E j \in 1..(i - 1) : op[j].field = f
    <3>1. ~ \E j \in 1..i : op[j].field = f
      BY <1>0, <2>3
    <3> QED  BY <2>0, <2>3, <3>1 DEF Applied
  <2> QED  BY <2>1, <2>2, <2>3
<1> QED  BY <1>1 DEF Applied
-----------------------------------------------------------------------------
(* The calls the threads make, and reset(), touch a field once.            *)
LEMMA ResetOp == ResetState \in Ops
<1>1. ResetState \in Seq(Update)
  BY DEF ResetState, Put, Update, Fields
<1>2. Distinct(ResetState)
  BY DEF ResetState, Put, Distinct
<1> QED  BY <1>1, <1>2 DEF Ops

\* The record_* calls touch a field once.
LEMMA CallOps == Calls \subseteq Ops
BY CollectorAssumption DEF Ops

\* The updates of snapshot(): none.
LEMMA EmptyOp == <<>> \in Ops /\ Len(<<>>) = 0
<1>1. <<>> \in Seq(Update) /\ Len(<<>>) = 0 /\ DOMAIN <<>> = {}
  OBVIOUS
<1> QED  BY <1>1 DEF Ops, Distinct

\* A thread outside of the collector.
LEMMA ReturnedState ==
    /\ Returned \in CallState /\ Returned.at = "out" /\ Reader(Returned)
    /\ Fresh(Returned) /\ Returned.op = <<>> /\ Returned.snapshot = FALSE
BY EmptyOp DEF Returned, Call, CallState, Reader, Fresh

\* Initially nobody is in a section.
LEMMA CInitInv == CInit => CInv
<1> SUFFICES ASSUME CInit PROVE CInv
  OBVIOUS
<1>1. Types
  BY ReturnedState DEF CInit, Types, Accumulators, Zero
<1>2. \A t \in Threads : lock # t
  BY CollectorAssumption DEF CInit
<1> QED  BY <1>1, <1>2, ReturnedState DEF CInit, CInv

-----------------------------------------------------------------------------
(* One lemma per action.                                                   *)
LEMMA EntersInv ==
    ASSUME CInv, NEW t \in Threads, NEW op \in Ops, NEW snapshot \in BOOLEAN,
           call[t].at = "out", snapshot => op = <<>>,
           Enters(t, op, snapshot), UNCHANGED <<fields, lock, exact>>
    PROVE  CInv'
<1> USE DEF CInv
<1> DEFINE c == Call("enter", op, snapshot)
<1>1. /\ c \in CallState /\ c.at = "enter" /\ Reader(c) /\ Fresh(c)
  BY DEF Call, CallState, Reader, Fresh
<1>2. /\ call' \in [Threads -> CallState] /\ call'[t] = c
      /\ \A s \in Threads \ {t} : call'[s] = call[s]
  BY <1>1 DEF Enters, Types
<1>3. \A s \in Threads : call'[s].at = "in" => Midway(s)'
  <2> SUFFICES ASSUME NEW s \in Threads, call'[s].at = "in" PROVE Midway(s)'
    OBVIOUS
  <2>1. s # t /\ call'[s] = call[s]
    BY <1>1, <1>2
  <2> QED  BY <2>1 DEF Midway, Updating, Current
<1>4. Types'
  BY <1>2 DEF Types
<1>5. \A s \in Threads : /\ call'[s].at = "in" <=> lock' = s
                         /\ Reader(call'[s])
                         /\ call'[s].at = "enter" => Fresh(call'[s])
  BY <1>1, <1>2
<1> QED  BY <1>3, <1>4, <1>5

\* The thread that gets the lock is alone, and begins with the exact fields.
LEMMA AcquireInv ==
    ASSUME CInv, NEW t \in Threads, Acquire(t)
    PROVE  CInv'
<1> USE DEF CInv
<1> DEFINE c == [call[t] EXCEPT !.at = "in"]
<1>0. call[t] \in CallState /\ Fresh(call[t]) /\ Reader(call[t])
  BY DEF Acquire, Types
<1>1. c \in CallState /\ c.at = "in" /\ Reader(c) /\ Fresh(c) /\ c.op = call[t].op
  BY <1>0 DEF CallState, Reader, Fresh
<1>2. /\ call' \in [Threads -> CallState] /\ call'[t] = c
      /\ \A s \in Threads \ {t} : call'[s] = call[s]
  BY <1>1 DEF Acquire, Types
<1>3. \A s \in Threads : call[s].at # "in"
  BY CollectorAssumption DEF Acquire
<1>4. fields' = Applied(exact, c.op, 0)' /\ fields' = exact'
  BY AppliedNone DEF Acquire, Types
<1>5. Midway(t)'
  <2>1. c.op \in Ops /\ Len(c.op) \in Nat
    BY <1>1, OpUpdates DEF CallState
  <2>2. /\ c.i = 1 /\ c.i - 1 = 0 /\ c.reg = NoValue /\ c.seen = <<>>
    BY <1>1 DEF Fresh
  <2>3. DOMAIN c.seen = {} /\ Len(c.seen) = 0
    BY <2>2
  <2>4. Len(SnapshotOrder) = 10
    BY DEF SnapshotOrder
  <2>5. fields' = Applied(exact', c.op, 0)
    BY AppliedNone, <1>4 DEF Acquire, Types
  <2> QED  BY <1>2, <2>1, <2>2, <2>3, <2>4, <2>5 DEF Midway
<1>6. Types' /\ lock' = t
  BY <1>2 DEF Types, Acquire
<1> QED  BY <1>1, <1>2, <1>3, <1>5, <1>6, CollectorAssumption

\* A thread in its section runs alone: what it changes of its own call keeps
\* the invariant if the call stays in the middle of its section.
LEMMA StepInSection ==
    ASSUME CInv, NEW t \in Threads, NEW c \in CallState, call[t].at = "in",
           c.at = "in", Reader(c), call' = [call EXCEPT ![t] = c],
           UNCHANGED <<lock, exact>>, fields' \in Accumulators, Midway(t)'
    PROVE  CInv'
<1> USE DEF CInv
<1>1. /\ call' \in [Threads -> CallState] /\ call'[t] = c
      /\ \A s \in Threads \ {t} : call'[s] = call[s] /\ call[s].at # "in"
      /\ lock = t
  BY DEF Types
<1>2. Types' /\ lock' # Free
  BY <1>1, CollectorAssumption DEF Types
<1> QED  BY <1>1, <1>2

\* The update a thread is at, and the field it finds.
LEMMA UpdatingProperties ==
    ASSUME CInv, NEW t \in Threads, Updating(t)
    PROVE  LET op == call[t].op  i == call[t].i IN
           /\ op \in Ops /\ i \in DOMAIN op /\ i \in Nat \ {0} /\ i <= Len(op)
           /\ Current(t) = op[i] /\ op[i] \in Update /\ op[i].field \in Fields
           /\ ~call[t].snapshot
           /\ fields[op[i].field] = exact[op[i].field]
           /\ Len(op) \in Nat
<1>1. call[t] \in CallState /\ call[t].op \in Ops /\ call[t].i \in DOMAIN call[t].op
  BY DEF CInv, Types, Updating, CallState
<1>2. Len(call[t].op) \in Nat /\ call[t].i \in 1..Len(call[t].op)
  BY <1>1, OpUpdates
<1>3. ~call[t].snapshot
  BY <1>1 DEF CInv, Reader, Updating
<1>4. fields[Current(t).field] = exact[Current(t).field]
  BY <1>1, AppliedAhead DEF CInv, Types, Midway, Updating, Current
<1> QED  BY <1>1, <1>2, <1>3, <1>4, OpUpdates DEF Current

\* The value read is still the exact one.
LEMMA LoadInv ==
    ASSUME CInv, NEW t \in Threads, Load(t)
    PROVE  CInv'
<1> DEFINE c == [call[t] EXCEPT !.reg = fields[Current(t).field]]
<1>1. Updating(t) /\ call[t] \in CallState /\ Midway(t) /\ call[t].at = "in" /\ Reader(call[t])
  BY DEF Load, Updating, CInv, Types
<1>2. Current(t).field \in Fields /\ fields[Current(t).field] = exact[Current(t).field]
  BY <1>1, UpdatingProperties
<1>3. fields[Current(t).field] \in Nat
  BY <1>2 DEF CInv, Types, Accumulators
<1>4. c \in CallState /\ c.at = "in" /\ Reader(c)
  BY <1>1, <1>3 DEF CallState, Reader
<1>5. call' = [call EXCEPT ![t] = c]
  BY DEF Load
<1>6. call'[t] = c
  BY <1>5 DEF CInv, Types
<1>7. Midway(t)'
  BY <1>1, <1>2, <1>6 DEF Midway, Updating, Current, Load, CallState
<1> QED  BY <1>1, <1>4, <1>5, <1>7, StepInSection DEF Load, CInv, Types

\* The write applies the next update.
LEMMA StoreInv ==
    ASSUME CInv, NEW t \in Threads, Store(t)
    PROVE  CInv'
<1> DEFINE op == call[t].op  i == call[t].i
           v == Updated(call[t].reg, op[i])
           c == [call[t] EXCEPT !.reg = NoValue, !.i = i + 1]
<1>1. Updating(t) /\ call[t] \in CallState /\ Midway(t) /\ call[t].at = "in" /\ Reader(call[t])
  BY DEF Store, Updating, CInv, Types
<1>2. /\ op \in Ops /\ i \in DOMAIN op /\ i \in Nat \ {0} /\ i <= Len(op) /\ Len(op) \in Nat
      /\ Current(t) = op[i] /\ op[i] \in Update /\ op[i].field \in Fields
  BY <1>1, UpdatingProperties
<1>3. v = Updated(exact[op[i].field], op[i])
  BY <1>1, <1>2 DEF Midway, Store, Updated, Current
<1>4. exact[op[i].field] \in Nat /\ v \in Nat
  BY <1>2, <1>3, UpdatedNat DEF CInv, Types, Accumulators
<1>5. fields' = [fields EXCEPT ![op[i].field] = v]
  BY <1>2 DEF Store
<1>6. fields' = Applied(exact, op, i)
  BY <1>1, <1>2, <1>3, <1>5, AppliedNext DEF Midway, CInv, Types
<1>7. c \in CallState /\ c.at = "in" /\ Reader(c)
  <2> DEFINE d == [call[t] EXCEPT !.reg = NoValue]
  <2>1. d \in CallState /\ d.at = "in" /\ d.op = op /\ d.snapshot = call[t].snapshot
    BY <1>1 DEF CallState
  <2>2. c = [d EXCEPT !.i = i + 1]
    OBVIOUS
  <2>3. i + 1 \in Nat \ {0}
    BY <1>2
  <2>4. c \in CallState /\ c.at = "in" /\ c.op = op /\ c.snapshot = call[t].snapshot
    BY <2>1, <2>2, <2>3 DEF CallState
  <2> QED  BY <1>1, <2>4 DEF Reader
<1>8. call' = [call EXCEPT ![t] = c] /\ call'[t] = c
  BY DEF Store, CInv, Types
<1>9. Midway(t)'
  <2>1. c.i = i + 1 /\ c.i - 1 = i /\ c.i <= Len(op) + 1 /\ c.op = op /\ c.reg = NoValue /\ c.seen = call[t].seen
    BY <1>1, <1>2 DEF CallState
  <2>2. (call[t].i <= Len(call[t].op) + 1)' /\ fields' = Applied(exact', op, c.i - 1)
    BY <1>1, <1>6, <1>8, <2>1 DEF Midway, Store
  <2>3. (Updating(t) => call[t].reg \in {NoValue, exact[Current(t).field]})'
    BY <1>8, <2>1
  <2>4. (/\ \A j \in DOMAIN call[t].seen : call[t].seen[j] = exact[SnapshotOrder[j]]
         /\ Len(call[t].seen) <= Len(SnapshotOrder))'
    <3>1. call'[t].seen = call[t].seen /\ exact' = exact
      BY <1>8, <2>1 DEF Store
    <3>2. /\ \A j \in DOMAIN call[t].seen : call[t].seen[j] = exact[SnapshotOrder[j]]
          /\ Len(call[t].seen) <= Len(SnapshotOrder)
      BY <1>1 DEF Midway
    <3> QED  BY <3>1, <3>2
  <2> QED  BY <1>8, <2>1, <2>2, <2>3, <2>4 DEF Midway
<1>10. fields' \in Accumulators
  BY <1>4, <1>5 DEF CInv, Types, Accumulators
<1> QED  BY <1>1, <1>7, <1>8, <1>9, <1>10, StepInSection DEF Store

\* A reader makes no updates: around it the fields are the exact ones.
LEMMA ReaderFields ==
    ASSUME CInv, NEW t \in Threads, call[t].at = "in", call[t].snapshot
    PROVE  call[t].op = <<>> /\ call[t].i = 1 /\ fields = exact
<1>1. call[t] \in CallState /\ Midway(t) /\ Reader(call[t]) /\ exact \in Accumulators
  BY DEF CInv, Types
<1>2. call[t].op = <<>> /\ call[t].i \in Nat \ {0}
  BY <1>1 DEF Reader, CallState
<1>3. call[t].i = 1
  BY <1>1, <1>2, EmptyOp DEF Midway
<1>4. fields = Applied(exact, call[t].op, 0)
  BY <1>1, <1>3 DEF Midway
<1> QED  BY <1>1, <1>2, <1>3, <1>4, AppliedNone

\* A snapshot in progress goes on with the exact fields.
LEMMA ReadFieldInv ==
    ASSUME CInv, NEW t \in Threads, ReadField(t)
    PROVE  CInv'
<1> DEFINE old == call[t].seen
           v == fields[SnapshotOrder[Len(old) + 1]]
           new == Append(old, v)
           c == [call[t] EXCEPT !.seen = new]
<1>1. /\ call[t] \in CallState /\ Midway(t) /\ call[t].at = "in" /\ call[t].snapshot
      /\ Reader(call[t]) /\ Len(old) < Len(SnapshotOrder)
  BY DEF ReadField, Reading, CInv, Types
<1>2. call[t].op = <<>> /\ call[t].i = 1 /\ fields = exact
  BY <1>1, ReaderFields
<1>3. /\ old \in Seq(Nat) /\ Len(old) \in Nat
      /\ Len(SnapshotOrder) = 10 /\ \A j \in 1..10 : SnapshotOrder[j] \in Fields
  BY <1>1 DEF CallState, SnapshotOrder, Fields
<1>4. v \in Nat /\ v = exact[SnapshotOrder[Len(old) + 1]]
  <2>1. SnapshotOrder[Len(old) + 1] \in Fields
    <3>1. Len(old) + 1 \in 1..10
      <4> HIDE DEF old
      <4> QED  BY <1>1, <1>3
    <3> QED  BY <3>1, <1>3
  <2>2. fields \in [Fields -> Nat]
    BY DEF CInv, Types, Accumulators
  <2> QED  BY <1>2, <2>1, <2>2
<1>5. /\ new \in Seq(Nat) /\ Len(new) = Len(old) + 1 /\ DOMAIN new = 1..(Len(old) + 1)
      /\ \A j \in 1..Len(old) : new[j] = old[j]
      /\ new[Len(old) + 1] = v
  BY <1>3, <1>4
<1>6. /\ c \in CallState /\ c.at = "in" /\ Reader(c) /\ c.seen = new
      /\ c.op = <<>> /\ c.i = 1
  BY <1>1, <1>2, <1>5 DEF CallState, Reader
<1>7. call' = [call EXCEPT ![t] = c] /\ call'[t] = c
  BY DEF ReadField, CInv, Types
<1>8. \A j \in DOMAIN new : new[j] = exact[SnapshotOrder[j]]
  <2>1. \A j \in 1..Len(old) : old[j] = exact[SnapshotOrder[j]]
    <3>1. \A j \in DOMAIN call[t].seen : call[t].seen[j] = exact[SnapshotOrder[j]]
      BY <1>1 DEF Midway
    <3>2. DOMAIN old = 1..Len(old)
      BY <1>3
    <3> QED  BY <3>1, <3>2
  <2>2. ASSUME NEW j \in 1..(Len(old) + 1)
        PROVE  new[j] = exact[SnapshotOrder[j]]
    <3> HIDE DEF new, v, old
    <3>1. CASE j = Len(old) + 1
      BY <3>1, <1>4, <1>5
    <3>2. CASE j # Len(old) + 1
      <4>1. j \in 1..Len(old)
        BY <1>3, <3>2
      <4> QED  BY <2>1, <4>1, <1>5
    <3> QED  BY <3>1, <3>2
  <2> QED  BY <2>2, <1>5
<1>9. Midway(t)'
  <2>1. fields' = fields /\ exact' = exact
    BY DEF ReadField
  <2>2. Applied(exact', c.op, c.i - 1) = exact'
    BY <1>6, <2>1, AppliedNone DEF CInv, Types
  <2>3. (call[t].i <= Len(call[t].op) + 1 /\ ~Updating(t))'
    BY <1>6, <1>7, EmptyOp DEF Updating
  <2>4. fields' = Applied(exact', call'[t].op, call'[t].i - 1)
    BY <1>2, <1>7, <2>1, <2>2
  <2>5. Len(new) <= Len(SnapshotOrder)
    BY <1>1, <1>3, <1>5
  <2>6. call'[t].seen = new
    BY <1>6, <1>7
  <2>7. (\A j \in DOMAIN call[t].seen : call[t].seen[j] = exact[SnapshotOrder[j]])'
    BY <1>8, <2>1, <2>6
  <2> QED  BY <2>3, <2>4, <2>5, <2>6, <2>7 DEF Midway
<1> QED  BY <1>1, <1>6, <1>7, <1>9, StepInSection DEF ReadField, CInv, Types

\* When the section ends the fields hold all the updates of the call.
LEMMA LeaveInv ==
    ASSUME CInv, NEW t \in Threads, Leave(t)
    PROVE  CInv'
<1> USE DEF CInv
<1>1. /\ call[t] \in CallState /\ Midway(t) /\ call[t].op \in Ops
      /\ call[t].at = "in" /\ call[t].i \in Nat \ {0}
  BY DEF Leave, Types, CallState
<1>2. call[t].i - 1 = Len(call[t].op) /\ Len(call[t].op) \in 0..Len(call[t].op)
  BY <1>1, OpUpdates DEF Midway, Leave, Updating
<1>3. fields' = exact' /\ exact' = Applied(exact, call[t].op, Len(call[t].op))
  BY <1>1, <1>2 DEF Midway, Leave
<1>4. exact' \in Accumulators
  BY <1>1, <1>2, <1>3, AppliedType DEF Types
<1>5. /\ call' \in [Threads -> CallState] /\ call'[t] = Returned
      /\ \A s \in Threads \ {t} : call'[s] = call[s] /\ call[s].at # "in"
      /\ lock' = Free
  BY <1>1, ReturnedState DEF Leave, Types
<1>6. Types'
  BY <1>3, <1>4, <1>5 DEF Types
<1> QED  BY <1>3, <1>5, <1>6, ReturnedState, CollectorAssumption

-----------------------------------------------------------------------------
(* A step of the collector, and of the reporter, which has the collector   *)
(* take a snapshot or leaves it alone.                                     *)
LEMMA CallRecordInv ==
    ASSUME CInv, NEW t \in Threads, NEW op \in Ops, CallRecord(t, op)
    PROVE  CInv'
BY EntersInv DEF CallRecord

\* snapshot() called, by a user or by the reporter.
LEMMA CallSnapshotInv ==
    ASSUME CInv, NEW t \in Threads, CallSnapshot(t)
    PROVE  CInv'
BY EntersInv, EmptyOp DEF CallSnapshot

\* The steps of a section.
LEMMA InSectionInv ==
    ASSUME CInv, NEW t \in Threads, InSection(t)
    PROVE  CInv'
BY LoadInv, StoreInv, ReadFieldInv, LeaveInv DEF InSection

\* Steps that leave the collector alone.
LEMMA StutterInv == CInv /\ UNCHANGED cvars => CInv'
BY DEF cvars, CInv, Types, Midway, Updating, Current

\* Every step of the composition keeps the collector's invariant.
LEMMA CollectorStep == CInv /\ [RNext]_rvars => CInv'
<1> SUFFICES ASSUME CInv, [RNext]_rvars PROVE CInv'
  OBVIOUS
<1>1. CASE UNCHANGED cvars
  BY <1>1, StutterInv
<1>2. ASSUME NEW t \in Loops, Wakes(t) PROVE CInv'
  BY <1>2, CallSnapshotInv, ReporterAssumption DEF Wakes
<1>3. ASSUME NEW t \in Threads, NEW op \in Calls, CallRecord(t, op) PROVE CInv'
  BY <1>3, CallRecordInv, CallOps
<1>4. ASSUME NEW t \in Threads, CallReset(t) PROVE CInv'
  BY <1>4, CallRecordInv, ResetOp DEF CallReset
<1>5. ASSUME NEW t \in Threads, CallSnapshot(t) PROVE CInv'
  BY <1>5, CallSnapshotInv
<1>6. ASSUME NEW t \in Threads, Acquire(t) PROVE CInv'
  BY <1>6, AcquireInv
<1>7. ASSUME NEW t \in Threads, InSection(t) PROVE CInv'
  BY <1>7, InSectionInv
<1>8. \/ UNCHANGED cvars
      \/ \E t \in Loops : Wakes(t)
      \/ \E t \in Threads :
            \/ \E op \in Calls : CallRecord(t, op)
            \/ CallReset(t) \/ CallSnapshot(t) \/ Acquire(t) \/ InSection(t)
  BY DEF RNext, rvars, Collecting, StartClears, StartRefused, StopSets, JoinEnds,
         StartThread, Reported, Ends
<1> QED  BY <1>1, <1>2, <1>3, <1>4, <1>5, <1>6, <1>7, <1>8

\* The collector's invariant holds throughout.
LEMMA Collector == RSpec => []CInv
<1>1. RInit => CInv
  BY CInitInv DEF RInit
<1> QED  BY <1>1, CollectorStep, PTL DEF RSpec

(* Whatever threads record, reset, report and read, no update of a call    *)
(* that ended is lost, doubled or half undone.                             *)
THEOREM NothingIsLost == RSpec => []NothingLost
<1>1. CInv => NothingLost
  BY DEF CInv, NothingLost
<1> QED  BY <1>1, Collector, PTL

(* A snapshot holds what the accumulators were together at one moment.     *)
THEOREM SnapshotsAreConsistent == RSpec => []SnapshotConsistent
<1>1. CInv => SnapshotConsistent
  BY DEF CInv, Midway, SnapshotConsistent
<1> QED  BY <1>1, Collector, PTL

-----------------------------------------------------------------------------
(* The owner and its thread.  What start() relies on between its two steps *)
(* is that no thread is left and the event is clear.                       *)
LoopTypes == loop \in [Loops -> {"dead", "wait", "report"}]

Starting == owner = "create" => ~stop_event /\ \A t \in Loops : ~Alive(t)

OwnerInv == LoopTypes /\ OneReporter /\ KeepsReporting /\ Starting

\* Before the first start().
LEMMA OwnerInit == RInit => OwnerInv
BY DEF RInit, OwnerInv, LoopTypes, OneReporter, KeepsReporting, Starting, Alive

\* The steps that change nothing of the owner and the threads' loops.
LEMMA OwnerUnchanged ==
    ASSUME OwnerInv, UNCHANGED <<thread, loop, stop_event, owner, wanted>>
    PROVE  OwnerInv'
BY DEF OwnerInv, LoopTypes, OneReporter, KeepsReporting, Starting, Alive

\* A loop that goes on, or ends after a stop(), leaves the others alone.
LEMMA LoopMoves ==
    ASSUME OwnerInv, NEW t \in Loops, NEW to \in {"dead", "wait", "report"},
           Alive(t), to = "dead" => stop_event, loop' = [loop EXCEPT ![t] = to],
           UNCHANGED <<thread, stop_event, owner, wanted>>
    PROVE  OwnerInv'
<1> USE DEF OwnerInv
<1>1. LoopTypes' /\ \A s \in Loops \ {t} : loop'[s] = loop[s]
  BY DEF LoopTypes
<1>2. loop'[t] = to /\ thread = t
  BY DEF LoopTypes, OneReporter
<1>3. OneReporter'
  BY <1>1, <1>2 DEF OneReporter, Alive
<1>4. KeepsReporting'
  BY <1>2 DEF KeepsReporting, Alive
<1>5. Starting'
  BY DEF Starting
<1> QED  BY <1>1, <1>3, <1>4, <1>5

\* One step per action of the owner and of the loop.
LEMMA OwnerStep == OwnerInv /\ [RNext]_rvars => OwnerInv'
<1> SUFFICES ASSUME OwnerInv, [RNext]_rvars PROVE OwnerInv'
  OBVIOUS
<1> USE DEF OwnerInv
<1>1. CASE StartClears
  BY <1>1 DEF StartClears, LoopTypes, OneReporter, KeepsReporting, Starting, Alive
<1>2. CASE StartRefused
  BY <1>2 DEF StartRefused, LoopTypes, OneReporter, KeepsReporting, Starting, Alive
<1>3. CASE StopSets
  BY <1>3 DEF StopSets, LoopTypes, OneReporter, KeepsReporting, Starting, Alive
<1>4. CASE JoinEnds
  BY <1>4 DEF JoinEnds, LoopTypes, OneReporter, KeepsReporting, Starting, Alive
<1>5. ASSUME NEW t \in Loops, StartThread(t) PROVE OwnerInv'
  BY <1>5 DEF StartThread, LoopTypes, OneReporter, KeepsReporting, Starting, Alive
<1>6. ASSUME NEW t \in Loops, Wakes(t) \/ Reported(t) \/ Ends(t) PROVE OwnerInv'
  BY <1>6, LoopMoves DEF Wakes, Reported, Ends, Alive
<1>7. CASE UNCHANGED <<thread, loop, stop_event, owner, wanted>>
  BY <1>7, OwnerUnchanged
<1> QED
  BY <1>1, <1>2, <1>3, <1>4, <1>5, <1>6, <1>7 DEF RNext, rvars, Collecting

\* The owner's invariant holds throughout.
LEMMA Owner == RSpec => []OwnerInv
BY OwnerInit, OwnerStep, PTL DEF RSpec

(* However start() and stop() alternate, and however late a stopped thread *)
(* ends, one thread reports at most, the one a stop() would join.          *)
THEOREM OneReports == RSpec => []OneReporter
<1>1. OwnerInv => OneReporter
  BY DEF OwnerInv
<1> QED  BY <1>1, Owner, PTL

(* A reporter that start() did start keeps its thread, with a clear event, *)
(* until stop().                                                           *)
THEOREM StartedReports == RSpec => []KeepsReporting
<1>1. OwnerInv => KeepsReporting
  BY DEF OwnerInv
<1> QED  BY <1>1, Owner, PTL
=============================================================================
