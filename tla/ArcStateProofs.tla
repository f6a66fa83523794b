--------------------------- MODULE ArcStateProofs ---------------------------
(***************************************************************************)
(* Facts about the list operators of ArcState: what list.remove leaves,    *)
(* and that every ARC operation keeps lists of keys lists of keys.         *)
(***************************************************************************)
EXTENDS ArcState, SequenceTheorems, TLAPS

(* Deleting position i shifts the later elements down by one.              *)
LEMMA RemoveAtProperties ==
    ASSUME NEW S, NEW s \in Seq(S), NEW i \in 1..Len(s)
    PROVE  /\ RemoveAt(s, i) \in Seq(S)
           /\ Len(RemoveAt(s, i)) = Len(s) - 1
           /\ \A j \in 1..(Len(s) - 1) :
                 RemoveAt(s, i)[j] = IF j < i THEN s[j] ELSE s[j + 1]
<1> DEFINE front == SubSeq(s, 1, i - 1)
           back == SubSeq(s, i + 1, Len(s))
<1>1. /\ front \in Seq(S) /\ Len(front) = i - 1
      /\ \A j \in 1..(i - 1) : front[j] = s[j]
  BY SubSeqProperties
<1>2. /\ back \in Seq(S) /\ Len(back) = Len(s) - i
      /\ \A j \in 1..(Len(s) - i) : back[j] = s[j + i]
  BY SubSeqProperties
<1>3. RemoveAt(s, i) = front \o back
  BY DEF RemoveAt
<1> HIDE DEF front, back
<1>4. /\ front \o back \in Seq(S)
      /\ Len(front \o back) = Len(s) - 1
      /\ \A j \in 1..(Len(s) - 1) :
            (front \o back)[j] = IF j < i THEN front[j] ELSE back[j - (i - 1)]
  <2>1. /\ front \o back \in Seq(S)
        /\ Len(front \o back) = Len(front) + Len(back)
        /\ \A j \in 1..(Len(front) + Len(back)) :
              (front \o back)[j] = IF j <= Len(front) THEN front[j]
                                   ELSE back[j - Len(front)]
    BY <1>1, <1>2, ConcatProperties
  <2> QED
    BY <1>1, <1>2, <2>1
<1> QED
  BY <1>1, <1>2, <1>3, <1>4

(* list.remove and the mru move keep a list of keys a list of keys.        *)
LEMMA WithoutType ==
    ASSUME NEW S, NEW s \in Seq(S), NEW e
    PROVE  Without(s, e) \in Seq(S)
<1>1. CASE \E i \in 1..Len(s) : IsFirst(s, e, i)
  <2> DEFINE i == CHOOSE i \in 1..Len(s) : IsFirst(s, e, i)
  <2>1. i \in 1..Len(s)
    BY <1>1
  <2>2. Without(s, e) = RemoveAt(s, i)
    BY <1>1 DEF Without
  <2> QED
    BY <2>1, <2>2, RemoveAtProperties
<1>2. CASE ~ \E i \in 1..Len(s) : IsFirst(s, e, i)
  BY <1>2 DEF Without
<1> QED
  BY <1>1, <1>2

(* A list without the key is left as it is.                                *)
LEMMA WithoutAbsent ==
    ASSUME NEW S, NEW s \in Seq(S), NEW e, ~Contains(s, e)
    PROVE  Without(s, e) = s
  BY DEF Without, IsFirst, Contains

(* A list that repeats no key loses exactly the removed one.               *)
LEMMA WithoutPresent ==
    ASSUME NEW S, NEW s \in Seq(S), NEW e, Contains(s, e), IsInjective(s)
    PROVE  /\ Len(Without(s, e)) = Len(s) - 1
           /\ ~Contains(Without(s, e), e)
           /\ IsInjective(Without(s, e))
<1>1. PICK i \in 1..Len(s) : s[i] = e
  BY DEF Contains
<1>2. \A j \in 1..Len(s) : s[j] = e => j = i
  BY <1>1 DEF IsInjective
<1>3. IsFirst(s, e, i) /\ \A j \in 1..Len(s) : IsFirst(s, e, j) => j = i
  BY <1>1, <1>2 DEF IsFirst
<1>4. Without(s, e) = RemoveAt(s, i)
  BY <1>3 DEF Without
<1> DEFINE r == RemoveAt(s, i)
<1>5. /\ r \in Seq(S) /\ Len(r) = Len(s) - 1
      /\ \A j \in 1..(Len(s) - 1) : r[j] = IF j < i THEN s[j] ELSE s[j + 1]
  BY RemoveAtProperties
<1> HIDE DEF r
<1> DEFINE at(j) == IF j < i THEN j ELSE j + 1
<1>6. ASSUME NEW j \in 1..Len(r)
      PROVE  at(j) \in 1..Len(s) /\ at(j) # i /\ r[j] = s[at(j)]
  BY <1>5
<1>7. ASSUME NEW j \in 1..Len(r), NEW k \in 1..Len(r), at(j) = at(k)
      PROVE  j = k
  BY <1>7
<1> HIDE DEF at
<1>8. \A j \in 1..Len(r) : r[j] # e
  BY <1>2, <1>6
<1>9. ASSUME NEW j \in 1..Len(r), NEW k \in 1..Len(r), r[j] = r[k]
      PROVE  j = k
  <2>1. \A a, b \in 1..Len(s) : s[a] = s[b] => a = b
    BY DEF IsInjective
  <2>2. s[at(j)] = s[at(k)] /\ at(j) \in 1..Len(s) /\ at(k) \in 1..Len(s)
    BY <1>6, <1>9
  <2>3. at(j) = at(k)
    BY <2>1, <2>2
  <2> QED
    BY <1>7, <2>3
<1>10. ~Contains(r, e) /\ IsInjective(r)
  BY <1>8, <1>9 DEF Contains, IsInjective
<1> QED
  BY <1>4, <1>5, <1>10 DEF r

(* Removal brings no key in.                                               *)
LEMMA WithoutContains ==
    ASSUME NEW S, NEW s \in Seq(S), NEW e, NEW x, Contains(Without(s, e), x)
    PROVE  Contains(s, x)
<1>1. CASE \E i \in 1..Len(s) : IsFirst(s, e, i)
  <2> DEFINE i == CHOOSE i \in 1..Len(s) : IsFirst(s, e, i)
  <2>1. i \in 1..Len(s)
    BY <1>1
  <2>2. Without(s, e) = RemoveAt(s, i)
    BY <1>1 DEF Without
  <2> HIDE DEF i
  <2>3. /\ Len(s) \in Nat /\ Len(RemoveAt(s, i)) = Len(s) - 1
        /\ \A j \in 1..(Len(s) - 1) :
              RemoveAt(s, i)[j] = IF j < i THEN s[j] ELSE s[j + 1]
    BY <2>1, RemoveAtProperties
  <2>4. PICK j \in 1..(Len(s) - 1) : RemoveAt(s, i)[j] = x
    BY <2>2, <2>3 DEF Contains
  <2>5. (x = s[j] \/ x = s[j + 1]) /\ j \in 1..Len(s) /\ j + 1 \in 1..Len(s)
    BY <2>3, <2>4
  <2> QED
    BY <2>5 DEF Contains
<1>2. CASE ~ \E i \in 1..Len(s) : IsFirst(s, e, i)
  BY <1>2 DEF Without
<1> QED
  BY <1>1, <1>2

(* A list that repeats no key keeps all its other keys.                    *)
LEMMA WithoutSet ==
    ASSUME NEW S, NEW s \in Seq(S), NEW e, IsInjective(s)
    PROVE  ToSet(Without(s, e)) = ToSet(s) \ {e}
<1> DEFINE w == Without(s, e)
<1>0. /\ w \in Seq(S)
      /\ \A x : x \in ToSet(s) <=> Contains(s, x)
      /\ \A x : x \in ToSet(w) <=> Contains(w, x)
  BY WithoutType DEF ToSet, Contains
<1>1. CASE ~Contains(s, e)
  <2>1. w = s
    BY <1>1, WithoutAbsent
  <2> HIDE DEF w
  <2> QED
    BY <1>0, <1>1, <2>1 DEF w
<1>2. CASE Contains(s, e)
  <2>1. ~Contains(w, e) /\ \A x : Contains(w, x) => Contains(s, x)
    BY <1>2, WithoutPresent, WithoutContains
  <2>2. PICK i \in 1..Len(s) : s[i] = e
    BY <1>2 DEF Contains
  <2>3. IsFirst(s, e, i) /\ \A j \in 1..Len(s) : IsFirst(s, e, j) => j = i
    BY <2>2 DEF IsFirst, IsInjective
  <2>4. w = RemoveAt(s, i)
    BY <2>3 DEF Without
  <2> HIDE DEF w
  <2>5. /\ Len(w) = Len(s) - 1
        /\ \A j \in 1..(Len(s) - 1) : w[j] = IF j < i THEN s[j] ELSE s[j + 1]
    BY <2>4, RemoveAtProperties
  <2>6. ASSUME NEW x, Contains(s, x), x # e
        PROVE  Contains(w, x)
    <3>1. PICK n \in 1..Len(s) : s[n] = x
      BY <2>6 DEF Contains
    <3>2. n # i
      BY <2>2, <2>6, <3>1
    <3>3. CASE n < i
      <4>1. n \in 1..Len(w) /\ w[n] = x
        BY <2>5, <3>1, <3>3
      <4> QED
        BY <4>1 DEF Contains
    <3>4. CASE n > i
      <4>1. n - 1 \in 1..Len(w) /\ ~(n - 1 < i) /\ (n - 1) + 1 = n
        BY <2>5, <3>1, <3>4
      <4>2. w[n - 1] = x
        BY <2>5, <3>1, <4>1
      <4> QED
        BY <4>1, <4>2 DEF Contains
    <3> QED
      BY <3>2, <3>3, <3>4
  <2> QED
    BY <1>0, <2>1, <2>6 DEF w
<1> QED
  BY <1>1, <1>2

(* Appending to a list adds one element to it.                             *)
LEMMA AppendSet ==
    ASSUME NEW S, NEW s \in Seq(S), NEW e \in S
    PROVE  ToSet(Append(s, e)) = ToSet(s) \cup {e}
<1>1. /\ Len(Append(s, e)) = Len(s) + 1 /\ Len(s) \in Nat
      /\ DOMAIN s = 1..Len(s) /\ DOMAIN Append(s, e) = 1..(Len(s) + 1)
      /\ \A i \in 1..Len(s) : Append(s, e)[i] = s[i]
      /\ Append(s, e)[Len(s) + 1] = e
  OBVIOUS
<1> QED
  BY <1>1 DEF ToSet

(* Moving a key to the mru end keeps a list of keys, without repetition.   *)
LEMMA MoveToMruProperties ==
    ASSUME NEW S, NEW s \in Seq(S), NEW e \in S
    PROVE  /\ MoveToMru(s, e) \in Seq(S)
           /\ IsInjective(s) /\ Contains(s, e) =>
                 /\ Len(MoveToMru(s, e)) = Len(s)
                 /\ IsInjective(MoveToMru(s, e))
<1> DEFINE w == Without(s, e)
<1>1. w \in Seq(S)
  BY WithoutType
<1>2. MoveToMru(s, e) = Append(w, e)
  BY DEF MoveToMru
<1>3. IsInjective(s) /\ Contains(s, e) =>
        Len(w) = Len(s) - 1 /\ ~Contains(w, e) /\ IsInjective(w)
  BY WithoutPresent
<1> HIDE DEF w
<1>4. Append(w, e) \in Seq(S) /\ Len(Append(w, e)) = Len(w) + 1
  BY <1>1
<1>5. ~Contains(w, e) /\ IsInjective(w) => IsInjective(Append(w, e))
  BY <1>1 DEF Contains, IsInjective
<1> QED
  BY <1>1, <1>2, <1>3, <1>4, <1>5

(* What "while len(lst) > n: lst.pop(0)" leaves is a list of keys.         *)
LEMMA NewestType ==
    ASSUME NEW S, NEW s \in Seq(S), NEW n \in Nat
    PROVE  Newest(s, n) \in Seq(S)
<1>1. CASE Len(s) > n
  <2>1. Len(s) - n + 1 \in 1..Len(s) + 1
    BY <1>1
  <2> QED
    BY <1>1, <2>1, SubSeqProperties DEF Newest
<1>2. CASE ~(Len(s) > n)
  BY <1>2 DEF Newest
<1> QED
  BY <1>1, <1>2

(* The ARC lists start empty, with target 0.                               *)
LEMMA InitArcType ==
    ASSUME NEW S, NEW slots \in Nat
    PROVE  InitArc \in ArcType(S, slots)
  BY DEF InitArc, ArcType

(* on_hit keeps the types.                                                 *)
LEMMA OnHitType ==
    ASSUME NEW S, NEW slots \in Nat, NEW a \in ArcType(S, slots), NEW k \in S
    PROVE  OnHit(a, k) \in ArcType(S, slots)
<1>1. Without(a.t1, k) \in Seq(S) /\ MoveToMru(a.t2, k) \in Seq(S)
  BY WithoutType, MoveToMruProperties DEF ArcType
<1>2. Append(a.t2, k) \in Seq(S)
  BY DEF ArcType
<1> QED
  BY <1>1, <1>2 DEF OnHit, ArcType

(* on_miss keeps the types, and p within the slots whichever way it moves. *)
LEMMA OnMissType ==
    ASSUME NEW S, NEW slots \in Nat, NEW a \in ArcType(S, slots), NEW k \in S
    PROVE  OnMiss(a, k, slots) \in ArcType(S, slots)
<1>1. Adapted(a, k, slots) \in ArcType(S, slots)
  <2>1. Without(a.b1, k) \in Seq(S) /\ Without(a.b2, k) \in Seq(S)
    BY WithoutType DEF ArcType
  <2> DEFINE grow == Larger(1, Len(a.b2) \div Larger(1, Len(a.b1)))
             shrink == Larger(1, Len(a.b1) \div Larger(1, Len(a.b2)))
  <2>2. Len(a.b1) \in Nat /\ Len(a.b2) \in Nat
    BY DEF ArcType
  <2>3. Larger(1, Len(a.b1)) \in Nat \ {0} /\ Larger(1, Len(a.b2)) \in Nat \ {0}
    BY <2>2 DEF Larger
  <2>4. grow \in Nat /\ shrink \in Nat
    <3>1. /\ Len(a.b2) \div Larger(1, Len(a.b1)) \in Nat
          /\ Len(a.b1) \div Larger(1, Len(a.b2)) \in Nat
      BY <2>2, <2>3
    <3> QED
      BY <3>1 DEF Larger
  <2> HIDE DEF grow, shrink
  <2>5. Smaller(a.p + grow, slots) \in 0..slots /\ Larger(a.p - shrink, 0) \in 0..slots
    BY <2>4 DEF Smaller, Larger, ArcType
  <2>6. Adapted(a, k, slots) =
          IF Contains(a.b1, k)
          THEN [a EXCEPT !.p = Smaller(a.p + grow, slots), !.b1 = Without(a.b1, k)]
          ELSE IF Contains(a.b2, k)
          THEN [a EXCEPT !.p = Larger(a.p - shrink, 0), !.b2 = Without(a.b2, k)]
          ELSE a
    BY DEF Adapted, grow, shrink, ArcType
  <2> QED
    BY <2>1, <2>5, <2>6 DEF ArcType
<1> DEFINE b == Adapted(a, k, slots)
<1>2. b \in ArcType(S, slots)
  BY <1>1
<1> HIDE DEF b
<1>3. Newest(b.b1, slots) \in Seq(S) /\ Newest(b.b2, slots) \in Seq(S)
  BY <1>2, NewestType DEF ArcType
<1>4. Append(b.t1, k) \in Seq(S)
  BY <1>2 DEF ArcType
<1>5. OnMiss(a, k, slots) = [b EXCEPT !.t1 = Append(b.t1, k),
                                      !.b1 = Newest(b.b1, slots),
                                      !.b2 = Newest(b.b2, slots)]
  BY <1>2 DEF OnMiss, b, ArcType
<1> QED
  BY <1>2, <1>3, <1>4, <1>5 DEF ArcType

(* choose_evict keeps the types.                                           *)
LEMMA AfterChoiceType ==
    ASSUME NEW S, NEW slots \in Nat, NEW a \in ArcType(S, slots)
    PROVE  AfterChoice(a) \in ArcType(S, slots)
<1>1. CASE NothingToEvict(a)
  BY <1>1 DEF AfterChoice
<1>2. CASE ~NothingToEvict(a) /\ TakesFromT1(a)
  <2>1. a.t1 \in Seq(S) /\ a.t1 # <<>> /\ a.b1 \in Seq(S)
    BY <1>2 DEF TakesFromT1, ArcType
  <2>2. Head(a.t1) \in S /\ Tail(a.t1) \in Seq(S)
    BY <2>1
  <2>3. ArcChoice(a) = Head(a.t1)
    BY <1>2 DEF ArcChoice
  <2>4. Append(a.b1, ArcChoice(a)) \in Seq(S)
    BY <2>1, <2>2, <2>3
  <2> QED
    BY <1>2, <2>2, <2>4 DEF AfterChoice, ArcType
<1>3. CASE ~NothingToEvict(a) /\ ~TakesFromT1(a)
  <2>1. a.t2 \in Seq(S) /\ a.t2 # <<>> /\ a.b2 \in Seq(S)
    BY <1>3 DEF TakesFromT1, NothingToEvict, ArcType
  <2>2. Head(a.t2) \in S /\ Tail(a.t2) \in Seq(S)
    BY <2>1
  <2>3. ArcChoice(a) = Head(a.t2)
    BY <1>3 DEF ArcChoice
  <2>4. Append(a.b2, ArcChoice(a)) \in Seq(S)
    BY <2>1, <2>2, <2>3
  <2> QED
    BY <1>3, <2>2, <2>4 DEF AfterChoice, ArcType
<1> QED
  BY <1>1, <1>2, <1>3

(* _ArcState.remove keeps the types.                                       *)
LEMMA RemoveKeyType ==
    ASSUME NEW S, NEW slots \in Nat, NEW a \in ArcType(S, slots), NEW k
    PROVE  RemoveKey(a, k) \in ArcType(S, slots)
<1>1. Without(a.t1, k) \in Seq(S) /\ Without(a.t2, k) \in Seq(S)
  BY WithoutType DEF ArcType
<1> QED
  BY <1>1 DEF RemoveKey, ArcType
=============================================================================
