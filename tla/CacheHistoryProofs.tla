------------------------- MODULE CacheHistoryProofs -------------------------
(***************************************************************************)
(* What the cache keeps and what it gives up, for any experts and slots.   *)
(* A tier's entries, oldest first, are compared with the experts last used *)
(* there: under LRU they are the last of them, under LFU they are in the   *)
(* same order and their access counts are the uses since they entered.     *)
(***************************************************************************)
EXTENDS CacheHistory, CacheManagerProofs

(* The calls with their history are calls of the cache: what holds of the  *)
(* cache alone (CacheManagerProofs) holds here too.                        *)
LEMMA HistoryIsSpec == HSpec => Spec
<1>1. HInit => Init
  BY DEF HInit
<1>2. [HNext]_hvars => [Next]_cache
  BY DEF HNext, hvars, HGet, HPut, HEvict, HDemote, Next
<1> QED
  BY <1>1, <1>2, PTL DEF HSpec, Spec

-----------------------------------------------------------------------------
(* Lists without repetition.  What list.remove leaves, place by place.     *)
LEMMA WithoutAt ==
    ASSUME NEW S, NEW s \in Seq(S), IsInjective(s), NEW p \in 1..Len(s)
    PROVE  LET r == Without(s, s[p]) IN
           /\ r \in Seq(S) /\ Len(r) = Len(s) - 1
           /\ \A j \in 1..(Len(s) - 1) : r[j] = IF j < p THEN s[j] ELSE s[j + 1]
<1>1. \A j \in 1..Len(s) : s[j] = s[p] => j = p
  BY DEF IsInjective
<1>2. IsFirst(s, s[p], p) /\ \A j \in 1..Len(s) : IsFirst(s, s[p], j) => j = p
  BY <1>1 DEF IsFirst
<1>3. Without(s, s[p]) = RemoveAt(s, p)
  BY <1>2 DEF Without
<1> QED
  BY <1>3, RemoveAtProperties

(* It repeats nothing, and lacks the key alone.                            *)
LEMMA WithoutList ==
    ASSUME NEW S, NEW s \in Seq(S), IsInjective(s), NEW e
    PROVE  /\ Without(s, e) \in Seq(S) /\ IsInjective(Without(s, e))
           /\ ~Contains(Without(s, e), e)
           /\ \A x : x # e => (Contains(Without(s, e), x) <=> Contains(s, x))
<1> DEFINE r == Without(s, e)
<1>1. r \in Seq(S) /\ \A x : Contains(r, x) => Contains(s, x)
  BY WithoutType, WithoutContains
<1>2. IsInjective(r) /\ ~Contains(r, e)
  BY WithoutPresent, WithoutAbsent
<1>3. ASSUME NEW x, x # e, Contains(s, x)
      PROVE  Contains(r, x)
  <2>1. ToSet(r) = ToSet(s) \ {e}
    BY WithoutSet
  <2> HIDE DEF r
  <2>2. \A y : (Contains(r, y) <=> y \in ToSet(r)) /\ (Contains(s, y) <=> y \in ToSet(s))
    BY <1>1 DEF Contains, ToSet
  <2> QED
    BY <1>3, <2>1, <2>2
<1> QED
  BY <1>1, <1>2, <1>3

(* Adding a key at the mru end.                                            *)
LEMMA AppendList ==
    ASSUME NEW S, NEW s \in Seq(S), IsInjective(s), NEW e \in S, ~Contains(s, e)
    PROVE  /\ Append(s, e) \in Seq(S) /\ IsInjective(Append(s, e))
           /\ \A x : Contains(Append(s, e), x) <=> x = e \/ Contains(s, x)
  BY DEF IsInjective, Contains

(* Moving a key to the mru end, or adding it there.                        *)
LEMMA MruList ==
    ASSUME NEW S, NEW s \in Seq(S), IsInjective(s), NEW e \in S
    PROVE  /\ MoveToMru(s, e) \in Seq(S) /\ IsInjective(MoveToMru(s, e))
           /\ \A x : Contains(MoveToMru(s, e), x) <=> x = e \/ Contains(s, x)
<1> DEFINE r == Without(s, e)
<1>1. /\ r \in Seq(S) /\ IsInjective(r) /\ ~Contains(r, e)
      /\ \A x : x # e => (Contains(r, x) <=> Contains(s, x))
  BY WithoutList
<1> HIDE DEF r
<1>2. /\ Append(r, e) \in Seq(S) /\ IsInjective(Append(r, e))
      /\ \A x : Contains(Append(r, e), x) <=> x = e \/ Contains(r, x)
  BY <1>1, AppendList
<1> QED
  BY <1>1, <1>2 DEF r, MoveToMru

-----------------------------------------------------------------------------
(* A suffix, place by place.                                               *)
LEMMA SuffixPlaces ==
    ASSUME NEW S, NEW s \in Seq(S), NEW w \in Seq(S)
    PROVE  IsSuffixOf(s, w) <=>
              /\ Len(s) <= Len(w)
              /\ \A i \in 1..Len(s) : s[i] = w[Len(w) - Len(s) + i]
<1> DEFINE m == Len(s)
           n == Len(w)
           t == SubSeq(w, n - m + 1, n)
<1>1. m \in Nat /\ n \in Nat
  OBVIOUS
<1>2. ASSUME m <= n
      PROVE  t \in Seq(S) /\ Len(t) = m /\ \A i \in 1..m : t[i] = w[n - m + i]
  <2>1. \A i \in (n - m + 1)..n : w[i] \in S
    BY <1>1, <1>2
  <2>2. Len(t) = m /\ t \in Seq(S)
    BY <1>1, <1>2, SubSeqProperties
  <2>3. \A i \in 1..m : t[i] = w[n - m + i]
    <3>1. ASSUME NEW i \in 1..m PROVE t[i] = w[n - m + i]
      <4>1. \A j \in 1..(n - (n - m + 1) + 1) : t[j] = w[n - m + 1 + j - 1]
        BY <1>1, <1>2, SubSeqProperties
      <4>2. i \in 1..(n - (n - m + 1) + 1) /\ n - m + 1 + i - 1 = n - m + i
        BY <1>1, <1>2
      <4> QED
        BY <4>1, <4>2
    <3> QED
      BY <3>1
  <2> QED
    BY <2>2, <2>3
<1> HIDE DEF t
<1>3. ASSUME m <= n, \A i \in 1..m : s[i] = w[n - m + i]
      PROVE  s = t
  <2>1. t \in Seq(S) /\ Len(t) = m /\ \A i \in 1..m : t[i] = s[i]
    BY <1>2, <1>3
  <2> QED
    BY <2>1, SeqEqual
<1> QED
  BY <1>2, <1>3 DEF IsSuffixOf, t

(* A key taken out of a list and out of its suffix leaves a suffix.        *)
LEMMA SuffixWithout ==
    ASSUME NEW S, NEW s \in Seq(S), NEW w \in Seq(S), IsInjective(s), IsInjective(w),
           IsSuffixOf(s, w), NEW e
    PROVE  IsSuffixOf(Without(s, e), Without(w, e))
<1> DEFINE n == Len(w) - Len(s)
<1>1. /\ Len(s) \in Nat /\ Len(w) \in Nat /\ Len(s) <= Len(w)
      /\ \A i \in 1..Len(s) : s[i] = w[n + i]
  BY SuffixPlaces
<1>2. n \in Nat /\ Len(w) = n + Len(s)
  BY <1>1
<1> HIDE DEF n
<1> DEFINE v == Without(w, e)
<1>3. CASE Contains(s, e)
  <2>1. PICK p \in 1..Len(s) : s[p] = e
    BY <1>3 DEF Contains
  <2>2. n + p \in 1..Len(w) /\ w[n + p] = e
    BY <1>1, <1>2, <2>1
  <2> DEFINE r == Without(s, e)
  <2>3. /\ r \in Seq(S) /\ Len(r) = Len(s) - 1
        /\ \A j \in 1..(Len(s) - 1) : r[j] = IF j < p THEN s[j] ELSE s[j + 1]
    BY <2>1, WithoutAt
  <2>4. /\ v \in Seq(S) /\ Len(v) = Len(w) - 1
        /\ \A j \in 1..(Len(w) - 1) : v[j] = IF j < n + p THEN w[j] ELSE w[j + 1]
    BY <2>2, WithoutAt
  <2> HIDE DEF r, v
  <2>5. ASSUME NEW i \in 1..Len(r)
        PROVE  r[i] = v[n + i]
    <3>1. /\ r[i] = IF i < p THEN s[i] ELSE s[i + 1]
          /\ i \in 1..Len(s) /\ i + 1 \in 1..Len(s)
      BY <1>1, <2>3
    <3>2. n + i \in 1..(Len(w) - 1) /\ (n + i < n + p <=> i < p) /\ n + i + 1 = n + (i + 1)
      BY <1>1, <1>2, <2>1, <2>3
    <3>3. v[n + i] = IF i < p THEN w[n + i] ELSE w[n + (i + 1)]
      BY <2>4, <3>2
    <3> QED
      BY <1>1, <3>1, <3>3
  <2>6. Len(r) <= Len(v) /\ Len(v) - Len(r) = n
    BY <1>1, <1>2, <2>3, <2>4
  <2>7. IsSuffixOf(r, v)
    BY <2>3, <2>4, <2>5, <2>6, SuffixPlaces
  <2> QED
    BY <2>7 DEF r, v
<1>4. CASE ~Contains(s, e)
  <2>1. Without(s, e) = s
    BY <1>4, WithoutAbsent
  <2>2. CASE ~Contains(w, e)
    BY <2>1, <2>2, WithoutAbsent
  <2>3. CASE Contains(w, e)
    <3>1. PICK q \in 1..Len(w) : w[q] = e
      BY <2>3 DEF Contains
    <3>2. q <= n
      <4>1. SUFFICES ASSUME q > n PROVE FALSE
        BY <1>2, <3>1
      <4>2. q - n \in 1..Len(s) /\ n + (q - n) = q
        BY <1>1, <1>2, <3>1, <4>1
      <4>3. s[q - n] = e
        BY <1>1, <3>1, <4>2
      <4> QED
        BY <1>4, <4>2, <4>3 DEF Contains
    <3>3. /\ v \in Seq(S) /\ Len(v) = Len(w) - 1
          /\ \A j \in 1..(Len(w) - 1) : v[j] = IF j < q THEN w[j] ELSE w[j + 1]
      BY <3>1, WithoutAt
    <3> HIDE DEF v
    <3>4. ASSUME NEW i \in 1..Len(s)
          PROVE  s[i] = v[n - 1 + i]
      <4>1. n - 1 + i \in 1..(Len(w) - 1) /\ ~(n - 1 + i < q) /\ n - 1 + i + 1 = n + i
        BY <1>1, <1>2, <3>1, <3>2
      <4> QED
        BY <1>1, <3>3, <4>1
    <3>5. Len(s) <= Len(v) /\ Len(v) - Len(s) = n - 1
      BY <1>1, <1>2, <3>1, <3>2, <3>3
    <3>6. IsSuffixOf(s, v)
      BY <3>3, <3>4, <3>5, SuffixPlaces
    <3> QED
      BY <2>1, <3>6 DEF v
  <2> QED
    BY <2>2, <2>3
<1> QED
  BY <1>3, <1>4

(* A key added to both keeps the suffix.                                   *)
LEMMA SuffixAppend ==
    ASSUME NEW S, NEW s \in Seq(S), NEW w \in Seq(S), IsSuffixOf(s, w), NEW e \in S
    PROVE  IsSuffixOf(Append(s, e), Append(w, e))
<1> DEFINE a == Append(s, e)
           b == Append(w, e)
           n == Len(w) - Len(s)
<1>1. /\ Len(s) \in Nat /\ Len(w) \in Nat /\ Len(s) <= Len(w)
      /\ \A i \in 1..Len(s) : s[i] = w[n + i]
  BY SuffixPlaces
<1>2. n \in Nat /\ Len(w) = n + Len(s)
  BY <1>1
<1>3. /\ a \in Seq(S) /\ Len(a) = Len(s) + 1 /\ a[Len(s) + 1] = e
      /\ \A i \in 1..Len(s) : a[i] = s[i]
  OBVIOUS
<1>4. /\ b \in Seq(S) /\ Len(b) = Len(w) + 1 /\ b[Len(w) + 1] = e
      /\ \A i \in 1..Len(w) : b[i] = w[i]
  OBVIOUS
<1> HIDE DEF a, b, n
<1>5. ASSUME NEW i \in 1..Len(a)
      PROVE  a[i] = b[n + i]
  <2>1. CASE i = Len(s) + 1
    <3>1. n + i = Len(w) + 1
      BY <1>1, <1>2, <2>1
    <3> QED
      BY <1>3, <1>4, <2>1, <3>1
  <2>2. CASE i # Len(s) + 1
    <3>1. i \in 1..Len(s) /\ n + i \in 1..Len(w)
      BY <1>1, <1>2, <1>3, <2>2
    <3> QED
      BY <1>1, <1>3, <1>4, <3>1
  <2> QED
    BY <2>1, <2>2
<1>6. Len(a) <= Len(b) /\ Len(b) - Len(a) = n
  BY <1>1, <1>2, <1>3, <1>4
<1>7. IsSuffixOf(a, b)
  BY <1>3, <1>4, <1>5, <1>6, SuffixPlaces
<1> QED
  BY <1>7 DEF a, b

(* So does giving up its oldest key.                                       *)
LEMMA SuffixTail ==
    ASSUME NEW S, NEW s \in Seq(S), NEW w \in Seq(S), IsInjective(s), IsSuffixOf(s, w),
           s # <<>>
    PROVE  IsSuffixOf(Without(s, Head(s)), w)
<1> DEFINE r == Without(s, Head(s))
           n == Len(w) - Len(s)
<1>1. /\ Len(s) \in Nat /\ Len(w) \in Nat /\ Len(s) <= Len(w) /\ Len(s) > 0
      /\ \A i \in 1..Len(s) : s[i] = w[n + i]
  BY SuffixPlaces
<1>2. 1 \in 1..Len(s) /\ Head(s) = s[1]
  BY <1>1
<1>3. /\ r \in Seq(S) /\ Len(r) = Len(s) - 1
      /\ \A j \in 1..(Len(s) - 1) : r[j] = IF j < 1 THEN s[j] ELSE s[j + 1]
  BY <1>2, WithoutAt
<1> HIDE DEF r
<1>4. n \in Nat /\ Len(w) = n + Len(s)
  BY <1>1
<1> HIDE DEF n
<1>5. ASSUME NEW i \in 1..Len(r)
      PROVE  r[i] = w[n + 1 + i]
  <2>1. i \in 1..(Len(s) - 1) /\ ~(i < 1) /\ i + 1 \in 1..Len(s) /\ n + (i + 1) = n + 1 + i
    BY <1>1, <1>3, <1>4
  <2>2. r[i] = s[i + 1]
    BY <1>3, <2>1
  <2>3. s[i + 1] = w[n + (i + 1)]
    BY <1>1, <2>1
  <2> QED
    BY <2>1, <2>2, <2>3
<1>6. Len(r) <= Len(w) /\ Len(w) - Len(r) = n + 1
  BY <1>1, <1>3, <1>4
<1>7. IsSuffixOf(r, w)
  BY <1>3, <1>5, <1>6, SuffixPlaces
<1> QED
  BY <1>7 DEF r

-----------------------------------------------------------------------------
(* Lists in one order.  a comes later than b in w.                         *)
Later(w, a, b) == \E m, n \in 1..Len(w) : w[m] = a /\ w[n] = b /\ m > n

\* The keys of s occur in w, in the order they have in s.
InOrder(s, w) ==
    /\ \A i \in 1..Len(s) : Contains(w, s[i])
    /\ \A i, j \in 1..Len(s) : i < j => Later(w, s[j], s[i])

(* The places of what list.remove leaves are places of the list, in their  *)
(* order, and conversely.                                                  *)
LEMMA WithoutPlaces ==
    ASSUME NEW S, NEW s \in Seq(S), IsInjective(s), NEW e
    PROVE  LET r == Without(s, e) IN
           /\ \A i, j \in 1..Len(r) : i < j =>
                 \E m, n \in 1..Len(s) : m < n /\ r[i] = s[m] /\ r[j] = s[n]
           /\ \A m, n \in 1..Len(s) : m < n /\ s[m] # e /\ s[n] # e =>
                 \E i, j \in 1..Len(r) : i < j /\ r[i] = s[m] /\ r[j] = s[n]
<1> DEFINE r == Without(s, e)
<1>1. CASE ~Contains(s, e)
  BY <1>1, WithoutAbsent
<1>2. CASE Contains(s, e)
  <2>1. PICK p \in 1..Len(s) : s[p] = e
    BY <1>2 DEF Contains
  <2>2. /\ r \in Seq(S) /\ Len(r) = Len(s) - 1 /\ Len(s) \in Nat
        /\ \A j \in 1..(Len(s) - 1) : r[j] = IF j < p THEN s[j] ELSE s[j + 1]
    <3>1. Len(s) \in Nat
      OBVIOUS
    <3>2. /\ r \in Seq(S) /\ Len(r) = Len(s) - 1
          /\ \A j \in 1..(Len(s) - 1) : r[j] = IF j < p THEN s[j] ELSE s[j + 1]
      BY <2>1, WithoutAt
    <3> QED
      BY <3>1, <3>2
  <2> HIDE DEF r
  <2> DEFINE from(i) == IF i < p THEN i ELSE i + 1
             to(m) == IF m < p THEN m ELSE m - 1
  <2>3. ASSUME NEW i \in 1..Len(r)
        PROVE  from(i) \in 1..Len(s) /\ r[i] = s[from(i)]
    BY <2>2
  <2>4. ASSUME NEW m \in 1..Len(s), s[m] # e
        PROVE  to(m) \in 1..Len(r) /\ r[to(m)] = s[m]
    <3>1. m # p
      BY <2>1, <2>4
    <3>2. CASE m < p
      BY <2>2, <3>2
    <3>3. CASE m > p
      <4>1. m - 1 \in 1..(Len(s) - 1) /\ ~(m - 1 < p) /\ m - 1 + 1 = m /\ to(m) = m - 1
        BY <2>2, <3>3
      <4> HIDE DEF to
      <4>2. r[m - 1] = s[m]
        BY <2>2, <4>1
      <4> QED
        BY <2>2, <4>1, <4>2
    <3> QED
      BY <3>1, <3>2, <3>3
  <2>5. ASSUME NEW i \in 1..Len(r), NEW j \in 1..Len(r), i < j
        PROVE  from(i) < from(j)
    BY <2>2, <2>5
  <2>6. ASSUME NEW m \in 1..Len(s), NEW n \in 1..Len(s), m < n, s[m] # e, s[n] # e
        PROVE  to(m) < to(n)
    <3>1. m # p /\ n # p
      BY <2>1, <2>6
    <3> QED
      BY <2>2, <2>6, <3>1
  <2> HIDE DEF from, to
  <2>7. ASSUME NEW i \in 1..Len(r), NEW j \in 1..Len(r), i < j
        PROVE  \E m, n \in 1..Len(s) : m < n /\ r[i] = s[m] /\ r[j] = s[n]
    BY <2>3, <2>5, <2>7
  <2>8. ASSUME NEW m \in 1..Len(s), NEW n \in 1..Len(s), m < n, s[m] # e, s[n] # e
        PROVE  \E i, j \in 1..Len(r) : i < j /\ r[i] = s[m] /\ r[j] = s[n]
    BY <2>4, <2>6, <2>8
  <2> QED
    BY <2>7, <2>8 DEF r
<1> QED
  BY <1>1, <1>2

(* A key taken out of the smaller list keeps the order.                    *)
LEMMA OrderLess ==
    ASSUME NEW S, NEW s \in Seq(S), IsInjective(s), NEW w, InOrder(s, w), NEW e
    PROVE  InOrder(Without(s, e), w)
<1> DEFINE r == Without(s, e)
<1>1. /\ \A x : Contains(r, x) => Contains(s, x)
      /\ \A i, j \in 1..Len(r) : i < j =>
            \E m, n \in 1..Len(s) : m < n /\ r[i] = s[m] /\ r[j] = s[n]
  BY WithoutContains, WithoutPlaces
<1> HIDE DEF r
<1>2. ASSUME NEW i \in 1..Len(r) PROVE Contains(w, r[i])
  <2>1. Contains(s, r[i])
    BY <1>1 DEF Contains
  <2> QED
    BY <2>1 DEF InOrder, Contains
<1>3. ASSUME NEW i \in 1..Len(r), NEW j \in 1..Len(r), i < j PROVE Later(w, r[j], r[i])
  BY <1>1, <1>3 DEF InOrder
<1>4. InOrder(r, w)
  BY <1>2, <1>3 DEF InOrder
<1> QED
  BY <1>4 DEF r

(* So does a key taken out of both.                                        *)
LEMMA OrderWithout ==
    ASSUME NEW S, NEW s \in Seq(S), NEW w \in Seq(S), IsInjective(s), IsInjective(w),
           InOrder(s, w), NEW e
    PROVE  InOrder(Without(s, e), Without(w, e))
<1> DEFINE r == Without(s, e)
           v == Without(w, e)
<1>1. InOrder(r, w)
  BY OrderLess
<1>2. ~Contains(r, e)
  BY WithoutList
<1>3. /\ \A x : x # e => (Contains(v, x) <=> Contains(w, x))
      /\ \A m, n \in 1..Len(w) : m < n /\ w[m] # e /\ w[n] # e =>
            \E i, j \in 1..Len(v) : i < j /\ v[i] = w[m] /\ v[j] = w[n]
  BY WithoutList, WithoutPlaces
<1> HIDE DEF r, v
<1>4. \A i \in 1..Len(r) : r[i] # e
  BY <1>2 DEF Contains
<1>5. ASSUME NEW i \in 1..Len(r), NEW j \in 1..Len(r), i < j
      PROVE  Later(v, r[j], r[i])
  <2>1. PICK m \in 1..Len(w), n \in 1..Len(w) : w[m] = r[j] /\ w[n] = r[i] /\ m > n
    BY <1>1, <1>5 DEF InOrder, Later
  <2>2. n < m /\ w[n] # e /\ w[m] # e
    BY <1>4, <2>1
  <2>3. PICK a \in 1..Len(v), b \in 1..Len(v) : a < b /\ v[a] = w[n] /\ v[b] = w[m]
    BY <1>3, <2>2
  <2> QED
    BY <2>1, <2>3 DEF Later
<1>6. InOrder(r, v)
  BY <1>1, <1>3, <1>4, <1>5 DEF InOrder
<1> QED
  BY <1>6 DEF r, v

(* So does a key added to both.                                            *)
LEMMA OrderAppend ==
    ASSUME NEW S, NEW s \in Seq(S), NEW w \in Seq(S), InOrder(s, w), NEW e \in S
    PROVE  InOrder(Append(s, e), Append(w, e))
<1> DEFINE a == Append(s, e)
           b == Append(w, e)
<1>1. /\ a \in Seq(S) /\ Len(a) = Len(s) + 1 /\ a[Len(s) + 1] = e /\ Len(s) \in Nat
      /\ \A i \in 1..Len(s) : a[i] = s[i]
  OBVIOUS
<1>2. /\ b \in Seq(S) /\ Len(b) = Len(w) + 1 /\ b[Len(w) + 1] = e /\ Len(w) \in Nat
      /\ \A i \in 1..Len(w) : b[i] = w[i]
  OBVIOUS
<1> HIDE DEF a, b
<1>3. \A i \in 1..Len(w) : i \in 1..Len(b) /\ i < Len(w) + 1
  BY <1>2
<1>4. Len(w) + 1 \in 1..Len(b)
  BY <1>2
<1>5. ASSUME NEW i \in 1..Len(a) PROVE i = Len(s) + 1 \/ i \in 1..Len(s)
  BY <1>1
<1>6. ASSUME NEW i \in 1..Len(a) PROVE Contains(b, a[i])
  <2>1. CASE i = Len(s) + 1
    BY <1>1, <1>2, <1>4, <2>1 DEF Contains
  <2>2. CASE i \in 1..Len(s)
    <3>1. PICK m \in 1..Len(w) : w[m] = s[i]
      BY <2>2 DEF InOrder, Contains
    <3> QED
      BY <1>1, <1>2, <1>3, <2>2, <3>1 DEF Contains
  <2> QED
    BY <1>5, <2>1, <2>2
<1>7. ASSUME NEW i \in 1..Len(a), NEW j \in 1..Len(a), i < j PROVE Later(b, a[j], a[i])
  <2>1. i \in 1..Len(s)
    BY <1>1, <1>7
  <2>2. CASE j = Len(s) + 1
    <3>1. PICK m \in 1..Len(w) : w[m] = s[i]
      BY <2>1 DEF InOrder, Contains
    <3>2. b[m] = a[i] /\ b[Len(w) + 1] = a[j] /\ Len(w) + 1 > m
      BY <1>1, <1>2, <2>1, <2>2, <3>1
    <3> QED
      BY <1>3, <1>4, <3>1, <3>2 DEF Later
  <2>3. CASE j \in 1..Len(s)
    <3>1. PICK m \in 1..Len(w), n \in 1..Len(w) : w[m] = s[j] /\ w[n] = s[i] /\ m > n
      BY <1>7, <2>1, <2>3 DEF InOrder, Later
    <3>2. b[m] = a[j] /\ b[n] = a[i]
      BY <1>1, <1>2, <2>1, <2>3, <3>1
    <3> QED
      BY <1>3, <3>1, <3>2 DEF Later
  <2> QED
    BY <1>5, <2>2, <2>3
<1>8. InOrder(a, b)
  BY <1>6, <1>7 DEF InOrder
<1> QED
  BY <1>8 DEF a, b

-----------------------------------------------------------------------------
(* What a call does to a tier and to its history.                          *)

\* An expert is used in tier t, which becomes u: it goes to the mru end, for
\* which another may have been evicted, and its accesses are counted.
UsedStep(t, u, k) ==
    /\ \E room : /\ \/ room = t.order
                    \/ Evicts(t) /\ room = Without(t.order, Victim(t))
                 /\ u.order = MoveToMru(room, k)
    /\ Policy = "lfu" =>
          /\ u.count[k] = IF Contains(t.order, k) THEN t.count[k] + 1 ELSE 1
          /\ \A j \in Keys \ {k} : Contains(u.order, j) => u.count[j] = t.count[j]

\* An expert leaves tier t, which becomes u.
DroppedStep(t, u, k) ==
    /\ u.order = Without(t.order, k)
    /\ Policy = "lfu" => \A j \in Keys : Contains(u.order, j) => u.count[j] = t.count[j]

UsesKept(t) == \A j \in Keys : uses'[t][j] = IF Resident(cache', t, j) THEN uses[t][j] ELSE 0

Kept(t) == cache'[t] = cache[t] /\ recent'[t] = recent[t] /\ UsesKept(t)

UsedOnce(t, k) ==
    /\ UsedStep(cache[t], cache'[t], k)
    /\ recent'[t] = MoveToMru(recent[t], k)
    /\ cache'[t].count[k] <= MaxAccess
    /\ \A j \in Keys : uses'[t][j] = IF ~Resident(cache', t, j) THEN 0
                                     ELSE IF j = k THEN Smaller(uses[t][j] + 1, MaxAccess)
                                     ELSE uses[t][j]

GaveUp(t) ==
    /\ Evicts(cache[t]) /\ DroppedStep(cache[t], cache'[t], Victim(cache[t]))
    /\ recent'[t] = recent[t] /\ UsesKept(t)

Forgot(t, k) ==
    /\ DroppedStep(cache[t], cache'[t], k)
    /\ recent'[t] = Without(recent[t], k) /\ UsesKept(t)

TierStep(t) == Kept(t) \/ GaveUp(t) \/ \E k \in Keys : UsedOnce(t, k) \/ Forgot(t, k)

RecentOK == recent \in [Tiers -> Seq(Keys)] /\ \A t \in Tiers : IsInjective(recent[t])

(* A hit is a use.                                                         *)
LEMMA TouchedUses ==
    ASSUME NEW tier \in Tiers, NEW t, TierOK(t, tier), NEW k \in Keys, Contains(t.order, k)
    PROVE  UsedStep(t, Touched(t, k), k)
  BY DEF UsedStep, Touched, Counted, TierOK, TierType

(* Dropping an entry leaves the others their accesses.                     *)
LEMMA DroppedDrops ==
    ASSUME NEW tier \in Tiers, NEW t, TierOK(t, tier), NEW k
    PROVE  DroppedStep(t, Dropped(t, k), k)
<1>1. t.order \in Seq(Keys) /\ IsInjective(t.order) /\ t.count \in [Keys -> Nat]
  BY DEF TierOK, TierType
<1>2. ~Contains(Without(t.order, k), k)
  BY <1>1, WithoutList
<1>3. Dropped(t, k).order = Without(t.order, k)
  BY DEF Dropped
<1>4. ASSUME Policy = "lfu", NEW j \in Keys, j # k
      PROVE  Dropped(t, k).count[j] = t.count[j]
  BY <1>1, <1>4 DEF Dropped, Counted
<1> QED
  BY <1>2, <1>3, <1>4 DEF DroppedStep

(* So does an eviction.                                                    *)
LEMMA EvictedDrops ==
    ASSUME NEW tier \in Tiers, NEW t, TierOK(t, tier), Policy # "arc"
    PROVE  /\ Evicts(t) => DroppedStep(t, Evicted(t), Victim(t))
           /\ ~Evicts(t) => Evicted(t) = t
  BY DroppedDrops DEF Evicted, AfterSelection

(* An insertion is a use, after making room.                               *)
LEMMA InsertedUses ==
    ASSUME NEW tier \in Tiers, NEW t, TierOK(t, tier), NEW k \in Keys, ~Contains(t.order, k),
           Policy # "arc"
    PROVE  UsedStep(t, Inserted(MadeRoom(t, Slots(tier)), k), k)
<1> DEFINE room == MadeRoom(t, Slots(tier))
           u == Inserted(room, k)
<1>1. TierOK(room, tier) /\ ~Contains(room.order, k)
  BY MadeRoomOK
<1>2. room = t \/ (Evicts(t) /\ DroppedStep(t, room, Victim(t)))
  BY EvictedDrops DEF MadeRoom
<1> HIDE DEF room
<1>3. room.order \in Seq(Keys) /\ room.count \in [Keys -> Nat]
  BY <1>1 DEF TierOK, TierType
<1>4. u.order = Append(room.order, k) /\ MoveToMru(room.order, k) = Append(room.order, k)
  BY <1>1, <1>3, WithoutAbsent DEF Inserted, MoveToMru
<1>5. room.order = t.order \/ (Evicts(t) /\ room.order = Without(t.order, Victim(t)))
  BY <1>2 DEF DroppedStep
<1>6. ASSUME Policy = "lfu"
      PROVE  /\ u.count[k] = 1
             /\ \A j \in Keys \ {k} : Contains(u.order, j) => u.count[j] = t.count[j]
  <2>1. u.count = [room.count EXCEPT ![k] = 1]
    BY <1>6 DEF Inserted, Counted
  <2>2. ASSUME NEW j \in Keys \ {k}, Contains(u.order, j)
        PROVE  u.count[j] = t.count[j]
    <3>1. u.count[j] = room.count[j]
      BY <1>3, <2>1
    <3>2. Contains(room.order, j)
      BY <1>3, <1>4, <2>2 DEF Contains
    <3> QED
      BY <1>2, <1>6, <3>1, <3>2 DEF DroppedStep
  <2> QED
    BY <1>3, <2>1, <2>2
<1> QED
  BY <1>4, <1>5, <1>6 DEF UsedStep, room

(* The history of a use, tier by tier.                                     *)
LEMMA HistoryOfUse ==
    ASSUME RecentOK, NEW tier \in Tiers, NEW k \in Keys, Uses(tier, k), WithinBounds(cache'),
           UsedStep(cache[tier], cache'[tier], k),
           \A t \in Tiers \ {tier} : cache'[t] = cache[t]
    PROVE  \A t \in Tiers : TierStep(t)
<1>1. recent'[tier] = MoveToMru(recent[tier], k)
      /\ \A t \in Tiers \ {tier} : recent'[t] = recent[t]
  BY DEF Uses, RecentOK
<1>2. \A t \in Tiers, j \in Keys :
         uses'[t][j] = IF ~Resident(cache', t, j) THEN 0
                       ELSE IF t = tier /\ j = k THEN Smaller(uses[t][j] + 1, MaxAccess)
                       ELSE uses[t][j]
  BY DEF Uses
<1>3. cache'[tier].count[k] <= MaxAccess
  BY DEF WithinBounds
<1>4. UsedOnce(tier, k)
  BY <1>1, <1>2, <1>3 DEF UsedOnce
<1>5. ASSUME NEW t \in Tiers \ {tier} PROVE Kept(t)
  BY <1>1, <1>2, <1>5 DEF Kept, UsesKept
<1> QED
  BY <1>4, <1>5 DEF TierStep

(* The history of the other calls.                                         *)
LEMMA HistoryOfOthers ==
    ASSUME RecentOK, NEW tiers \in SUBSET Tiers, NEW k, Forgets(tiers, k)
    PROVE  /\ \A t \in tiers : recent'[t] = Without(recent[t], k)
           /\ \A t \in Tiers \ tiers : recent'[t] = recent[t]
           /\ \A t \in Tiers : UsesKept(t)
  BY DEF Forgets, RecentOK, UsesKept

(* get(): a use of the tier that answers.                                  *)
LEMMA HistoryGet ==
    ASSUME CacheOK(cache), RecentOK, Policy # "arc", NEW k \in Keys, HGet(k)
    PROVE  \A t \in Tiers : TierStep(t)
<1>1. "gpu" \in Tiers /\ "cpu" \in Tiers /\ cache' = Get(cache, k) /\ WithinBounds(cache')
  BY DEF Tiers, HGet, CallGet
<1>2. ASSUME NEW tier \in Tiers, Resident(cache, tier, k), Uses(tier, k),
             cache' = WithTier(cache, tier, Touched(cache[tier], k))
      PROVE  \A t \in Tiers : TierStep(t)
  <2> DEFINE u == Touched(cache[tier], k)
  <2>1. TierOK(cache[tier], tier)
    BY CacheOKTiers
  <2>2. TierOK(u, tier) /\ UsedStep(cache[tier], u, k)
    BY <1>2, <2>1, TouchedOK, TouchedUses DEF Resident
  <2> HIDE DEF u
  <2>3. cache'[tier] = u /\ \A t \in Tiers \ {tier} : cache'[t] = cache[t]
    BY <1>2, <2>2, TierReplaced DEF u
  <2> QED
    BY <1>1, <1>2, <2>2, <2>3, HistoryOfUse
<1>3. CASE Resident(cache, "gpu", k)
  <2>1. cache' = WithTier(cache, "gpu", Touched(cache["gpu"], k)) /\ Uses("gpu", k)
    BY <1>1, <1>3 DEF HGet, Get, WithTier
  <2> QED
    BY <1>1, <1>2, <1>3, <2>1
<1>4. CASE ~Resident(cache, "gpu", k) /\ Resident(cache, "cpu", k)
  <2>1. cache' = WithTier(cache, "cpu", Touched(cache["cpu"], k)) /\ Uses("cpu", k)
    BY <1>1, <1>4 DEF HGet, Get, WithTier
  <2> QED
    BY <1>1, <1>2, <1>4, <2>1
<1>5. CASE ~Resident(cache, "gpu", k) /\ ~Resident(cache, "cpu", k)
  <2>1. cache' = cache /\ Forgets({}, k)
    BY <1>1, <1>5 DEF HGet, Get
  <2>2. ASSUME NEW t \in Tiers PROVE Kept(t)
    BY <2>1, HistoryOfOthers DEF Kept
  <2> QED
    BY <2>2 DEF TierStep
<1> QED
  BY <1>3, <1>4, <1>5

(* put(): a use of the tier it addresses.                                  *)
LEMMA HistoryPut ==
    ASSUME CacheOK(cache), RecentOK, Policy # "arc", NEW k \in Keys, NEW device \in Devices,
           HPut(k, device)
    PROVE  \A t \in Tiers : TierStep(t)
<1> DEFINE tier == TierOf(device)
<1>1. tier \in Tiers /\ TierOK(cache[tier], tier)
  BY DeviceTiers, CacheOKTiers
<1>2. cache' = Put(cache, k, device) /\ Uses(tier, k) /\ WithinBounds(cache')
  BY DEF HPut, CallPut
<1>3. /\ UsedStep(cache[tier], Put(cache, k, device)[tier], k)
      /\ \A t \in Tiers \ {tier} : Put(cache, k, device)[t] = cache[t]
  <2>1. CASE Resident(cache, tier, k)
    <3>1. UsedStep(cache[tier], Touched(cache[tier], k), k)
      BY <1>1, <2>1, TouchedUses DEF Resident
    <3> QED
      BY <2>1, <3>1, PutRefresh
  <2>2. CASE ~Resident(cache, tier, k)
    <3>1. UsedStep(cache[tier], Inserted(MadeRoom(cache[tier], Slots(tier)), k), k)
      BY <1>1, <2>2, InsertedUses DEF Resident
    <3>2. Put(cache, k, device)[tier] = Inserted(MadeRoom(cache[tier], Slots(tier)), k)
      BY <2>2, PutInserted
    <3>3. \A t \in Tiers \ {tier} : Put(cache, k, device)[t] = cache[t]
      BY <2>2, PutInsert
    <3> QED
      BY <3>1, <3>2, <3>3
  <2> QED
    BY <2>1, <2>2
<1> HIDE DEF tier
<1> QED
  BY <1>1, <1>2, <1>3, HistoryOfUse

(* evict(): a tier may give up its victim.                                 *)
LEMMA HistoryEvict ==
    ASSUME CacheOK(cache), RecentOK, Policy # "arc", NEW device \in Devices, HEvict(device)
    PROVE  \A t \in Tiers : TierStep(t)
<1> DEFINE tier == TierOf(device)
<1>1. tier \in Tiers /\ TierOK(cache[tier], tier) /\ StatsTier(device) \in Tiers
  BY DeviceTiers, CacheOKTiers
<1>2. cache' = Evict(cache, device)
  BY DEF HEvict, CallEvict
<1>3. \A t \in Tiers : recent'[t] = recent[t] /\ UsesKept(t)
  <2>1. Forgets({}, NoKey) /\ {} \in SUBSET Tiers
    BY DEF HEvict
  <2> QED
    BY <2>1, HistoryOfOthers
<1>4. CASE ~Evicts(cache[tier])
  <2>1. cache' = cache
    BY <1>2, <1>4 DEF Evict
  <2> QED
    BY <1>3, <2>1 DEF TierStep, Kept
<1>5. CASE Evicts(cache[tier])
  <2> DEFINE shrunk == Evicted(cache[tier])
             d == WithTier(cache, tier, shrunk)
  <2>1. TierOK(shrunk, tier) /\ DroppedStep(cache[tier], shrunk, Victim(cache[tier]))
    BY <1>1, <1>5, EvictedOK, EvictedDrops
  <2>2. cache' = Synced(d, StatsTier(device))
    BY <1>2, <1>5 DEF Evict, WithTier
  <2> HIDE DEF tier, shrunk
  <2>3. CacheOK(d) /\ d[tier] = shrunk /\ \A t \in Tiers \ {tier} : d[t] = cache[t]
    BY <1>1, <2>1, TierReplaced
  <2> HIDE DEF d
  <2>4. \A t \in Tiers : cache'[t] = d[t]
    <3>1. \A t \in Tiers : Synced(d, StatsTier(device))[t] = d[t]
      BY <1>1, <2>3, SyncedOK
    <3> QED
      BY <2>2, <3>1
  <2>5. GaveUp(tier)
    BY <1>1, <1>3, <1>5, <2>1, <2>3, <2>4 DEF GaveUp
  <2>6. ASSUME NEW t \in Tiers \ {tier} PROVE Kept(t)
    BY <1>3, <2>3, <2>4 DEF Kept
  <2> QED
    BY <2>5, <2>6 DEF TierStep
<1> QED
  BY <1>4, <1>5

(* demote_to_cpu(): the expert leaves the GPU, and its past there.         *)
LEMMA HistoryDemote ==
    ASSUME CacheOK(cache), RecentOK, NEW k \in Keys, HDemote(k)
    PROVE  \A t \in Tiers : TierStep(t)
<1>1. "gpu" \in Tiers /\ "cpu" \in Tiers /\ TierOK(cache["gpu"], "gpu")
      /\ \A t \in Tiers : t = "gpu" \/ t = "cpu"
  BY CacheOKTiers DEF Tiers
<1>2. cache' = Demote(cache, k)
  BY DEF HDemote, CallDemote
<1>3. /\ recent'["gpu"] = Without(recent["gpu"], k) /\ recent'["cpu"] = recent["cpu"]
      /\ \A t \in Tiers : UsesKept(t)
  <2>1. Forgets({"gpu"}, k) /\ {"gpu"} \in SUBSET Tiers /\ "cpu" \in Tiers \ {"gpu"}
    BY DEF HDemote, Tiers
  <2> QED
    BY <2>1, HistoryOfOthers
<1>4. cache'["cpu"] = cache["cpu"] /\ DroppedStep(cache["gpu"], cache'["gpu"], k)
  <2>1. CASE Resident(cache, "gpu", k)
    <3>1. DroppedStep(cache["gpu"], Dropped(cache["gpu"], k), k)
      BY <1>1, DroppedDrops
    <3> QED
      BY <1>2, <2>1, <3>1, DemoteResident
  <2>2. CASE ~Resident(cache, "gpu", k)
    <3>1. cache' = cache
      BY <1>2, <2>2 DEF Demote
    <3>2. Without(cache["gpu"].order, k) = cache["gpu"].order
      BY <1>1, <2>2, WithoutAbsent DEF Resident, TierOK, TierType
    <3> QED
      BY <3>1, <3>2 DEF DroppedStep
  <2> QED
    BY <2>1, <2>2
<1>5. Forgot("gpu", k) /\ Kept("cpu")
  BY <1>1, <1>3, <1>4 DEF Forgot, Kept
<1> QED
  BY <1>1, <1>5 DEF TierStep

(* Every call, then.                                                       *)
LEMMA HistorySteps ==
    ASSUME CacheOK(cache), RecentOK, Policy # "arc", HNext
    PROVE  \A t \in Tiers : TierStep(t)
  BY HistoryGet, HistoryPut, HistoryEvict, HistoryDemote, UsedDevicesAssumption DEF HNext

-----------------------------------------------------------------------------
(* The history's types, kept by every step.                                *)
HistoryOK == CacheOK(cache) /\ RecentOK

\* No list of uses repeats an expert.
LEMMA RecentKept ==
    ASSUME RecentOK, \A t \in Tiers : TierStep(t), recent' \in [Tiers -> Seq(Keys)]
    PROVE  RecentOK'
<1> SUFFICES ASSUME NEW t \in Tiers PROVE IsInjective(recent'[t])
  BY DEF RecentOK
<1>1. recent[t] \in Seq(Keys) /\ IsInjective(recent[t]) /\ TierStep(t)
  BY DEF RecentOK
<1>2. CASE Kept(t) \/ GaveUp(t)
  BY <1>1, <1>2 DEF Kept, GaveUp
<1>3. ASSUME NEW k \in Keys, UsedOnce(t, k) PROVE IsInjective(recent'[t])
  <2>1. recent'[t] = MoveToMru(recent[t], k)
    BY <1>3 DEF UsedOnce
  <2> QED
    BY <1>1, <2>1, MruList
<1>4. ASSUME NEW k \in Keys, Forgot(t, k) PROVE IsInjective(recent'[t])
  <2>1. recent'[t] = Without(recent[t], k)
    BY <1>4 DEF Forgot
  <2> QED
    BY <1>1, <2>1, WithoutList
<1> QED
  BY <1>1, <1>2, <1>3, <1>4 DEF TierStep

(* What is used is an expert: the lists of uses are lists of experts.      *)
LEMMA RecentTyped ==
    ASSUME RecentOK, HNext
    PROVE  recent' \in [Tiers -> Seq(Keys)]
<1>1. ASSUME NEW tier \in Tiers, NEW k \in Keys, Uses(tier, k)
      PROVE  recent' \in [Tiers -> Seq(Keys)]
  <2>1. recent[tier] \in Seq(Keys)
    BY DEF RecentOK
  <2>2. MoveToMru(recent[tier], k) \in Seq(Keys)
    BY <2>1, MoveToMruProperties
  <2> QED
    BY <1>1, <2>2 DEF Uses, RecentOK
<1>2. ASSUME NEW tiers, NEW k, Forgets(tiers, k)
      PROVE  recent' \in [Tiers -> Seq(Keys)]
  <2>1. \A t \in Tiers : recent[t] \in Seq(Keys) /\ Without(recent[t], k) \in Seq(Keys)
    BY WithoutType DEF RecentOK
  <2> QED
    BY <1>2, <2>1 DEF Forgets
<1>3. "gpu" \in Tiers /\ "cpu" \in Tiers /\ \A device : TierOf(device) \in Tiers
  BY DeviceTiers DEF Tiers
<1> QED
  BY <1>1, <1>2, <1>3 DEF HNext, HGet, HPut, HEvict, HDemote

(* An invariant of the tiers and their history, one tier at a time.        *)
LEMMA HistoryStep ==
    ASSUME HistoryOK, [HNext]_hvars, Policy # "arc"
    PROVE  /\ RecentOK'
           /\ \/ UNCHANGED hvars
              \/ HNext /\ \A t \in Tiers : TierStep(t)
<1>1. CASE UNCHANGED hvars
  BY <1>1 DEF HistoryOK, RecentOK, hvars
<1>2. CASE HNext
  <2>1. \A t \in Tiers : TierStep(t)
    BY <1>2, HistorySteps DEF HistoryOK
  <2>2. RecentOK'
    BY <1>2, <2>1, RecentTyped, RecentKept DEF HistoryOK
  <2> QED
    BY <1>2, <2>1, <2>2
<1> QED
  BY <1>1, <1>2

(* The history's types, always.                                            *)
LEMMA HistoryTypes ==
    ASSUME Policy # "arc"
    PROVE  HSpec => []HistoryOK
<1>1. HInit => RecentOK
  BY DEF HInit, RecentOK, IsInjective
<1>2. HSpec => []CacheOK(cache)
  <2>1. TypeOK => CacheOK(cache)
    BY TypeOKIsCacheOK
  <2> QED
    BY <2>1, HistoryIsSpec, TypeCorrect, PTL
<1>3. CacheOK(cache) /\ RecentOK /\ [HNext]_hvars => RecentOK'
  BY HistoryStep DEF HistoryOK
<1>4. CacheOK(cache) /\ RecentOK => HistoryOK
  BY DEF HistoryOK
<1> QED
  BY <1>1, <1>2, <1>3, <1>4, PTL DEF HSpec

-----------------------------------------------------------------------------
(* LRU: a tier holds the experts most recently used there.  A use puts the *)
(* expert at the end of both lists, eviction takes the oldest entry, and   *)
(* demotion takes the expert out of both.                                  *)
THEOREM KeepsMostRecent ==
    ASSUME Policy = "lru"
    PROVE  HSpec => []HoldsMostRecent
<1>1. HInit => HoldsMostRecent
  <2>1. HInit => \A t \in Tiers : cache[t].order = <<>> /\ recent[t] = <<>>
    BY InitOK DEF HInit, Init
  <2>2. ASSUME NEW s \in Seq(Keys), Len(s) = 0
        PROVE  IsSuffixOf(s, s)
    <3>1. Len(s) <= Len(s) /\ \A i \in 1..Len(s) : s[i] = s[Len(s) - Len(s) + i]
      BY <2>2
    <3> QED
      BY <3>1, SuffixPlaces
  <2>3. <<>> \in Seq(Keys) /\ Len(<<>>) = 0
    OBVIOUS
  <2> QED
    BY <2>1, <2>2, <2>3 DEF HoldsMostRecent
<1>2. ASSUME HistoryOK, HoldsMostRecent, [HNext]_hvars
      PROVE  HoldsMostRecent'
  <2>1. CASE UNCHANGED hvars
    BY <1>2, <2>1 DEF HoldsMostRecent, hvars
  <2>2. ASSUME NEW t \in Tiers, TierStep(t)
        PROVE  IsSuffixOf(cache'[t].order, recent'[t])
    <3> DEFINE o == cache[t].order
               r == recent[t]
    <3>1. /\ o \in Seq(Keys) /\ IsInjective(o) /\ r \in Seq(Keys) /\ IsInjective(r)
          /\ IsSuffixOf(o, r)
      BY <1>2, CacheOKTiers DEF HistoryOK, RecentOK, TierOK, TierType, HoldsMostRecent
    <3> HIDE DEF r
    <3>2. ASSUME Evicts(cache[t])
          PROVE  /\ Without(o, Victim(cache[t])) \in Seq(Keys)
                 /\ IsInjective(Without(o, Victim(cache[t])))
                 /\ IsSuffixOf(Without(o, Victim(cache[t])), r)
      <4>1. Victim(cache[t]) = Head(o) /\ o # <<>>
        BY <3>2 DEF Victim, LruVictim, Evicts
      <4> HIDE DEF o
      <4> QED
        BY <3>1, <4>1, WithoutList, SuffixTail
    <3>3. CASE Kept(t)
      BY <3>1, <3>3 DEF Kept, r
    <3>4. CASE GaveUp(t)
      BY <3>2, <3>4 DEF GaveUp, DroppedStep, r
    <3>5. ASSUME NEW k \in Keys, Forgot(t, k)
          PROVE  IsSuffixOf(cache'[t].order, recent'[t])
      <4>1. cache'[t].order = Without(o, k) /\ recent'[t] = Without(r, k)
        BY <3>5 DEF Forgot, DroppedStep, r
      <4> HIDE DEF o
      <4> QED
        BY <3>1, <4>1, SuffixWithout
    <3>6. ASSUME NEW k \in Keys, UsedOnce(t, k)
          PROVE  IsSuffixOf(cache'[t].order, recent'[t])
      <4>1. PICK room : /\ room = o \/ (Evicts(cache[t]) /\ room = Without(o, Victim(cache[t])))
                        /\ cache'[t].order = MoveToMru(room, k)
        BY <3>6 DEF UsedOnce, UsedStep
      <4>2. recent'[t] = MoveToMru(r, k)
        BY <3>6 DEF UsedOnce, r
      <4>3. room \in Seq(Keys) /\ IsInjective(room) /\ IsSuffixOf(room, r)
        BY <3>1, <3>2, <4>1
      <4> HIDE DEF o
      <4>4. /\ IsSuffixOf(Without(room, k), Without(r, k))
            /\ Without(room, k) \in Seq(Keys) /\ Without(r, k) \in Seq(Keys)
        BY <3>1, <4>3, SuffixWithout, WithoutType
      <4> QED
        BY <4>1, <4>2, <4>4, SuffixAppend DEF MoveToMru
    <3> QED
      BY <2>2, <3>3, <3>4, <3>5, <3>6 DEF TierStep
  <2> QED
    BY <1>2, <2>1, <2>2, HistoryStep DEF HoldsMostRecent
<1>3. HSpec => []HistoryOK
  BY HistoryTypes
<1> QED
  BY <1>1, <1>2, <1>3, PTL DEF HSpec

-----------------------------------------------------------------------------
(* LFU.  The counts are the uses since an expert entered, and a tier's     *)
(* entries are in the order of their latest uses.                          *)
UsesCounted ==
    \A t \in Tiers, k \in Keys :
        uses[t][k] = IF Resident(cache, t, k) THEN cache[t].count[k] ELSE 0

UseOrder == \A t \in Tiers : InOrder(cache[t].order, recent[t])

(* The order is kept, whoever is evicted.                                  *)
LEMMA UseOrderKept ==
    ASSUME HistoryOK, UseOrder, NEW t \in Tiers, TierStep(t)
    PROVE  InOrder(cache'[t].order, recent'[t])
<1> DEFINE o == cache[t].order
           r == recent[t]
<1>1. /\ o \in Seq(Keys) /\ IsInjective(o) /\ r \in Seq(Keys) /\ IsInjective(r)
      /\ InOrder(o, r)
  BY CacheOKTiers DEF HistoryOK, RecentOK, TierOK, TierType, UseOrder
<1> HIDE DEF o, r
<1>2. \A v : /\ Without(o, v) \in Seq(Keys) /\ IsInjective(Without(o, v))
             /\ InOrder(Without(o, v), r)
  BY <1>1, WithoutList, OrderLess
<1>3. CASE Kept(t)
  BY <1>1, <1>3 DEF Kept, o, r
<1>4. CASE GaveUp(t)
  BY <1>2, <1>4 DEF GaveUp, DroppedStep, o, r
<1>5. ASSUME NEW k \in Keys, Forgot(t, k)
      PROVE  InOrder(cache'[t].order, recent'[t])
  <2>1. cache'[t].order = Without(o, k) /\ recent'[t] = Without(r, k)
    BY <1>5 DEF Forgot, DroppedStep, o, r
  <2> QED
    BY <1>1, <2>1, OrderWithout
<1>6. ASSUME NEW k \in Keys, UsedOnce(t, k)
      PROVE  InOrder(cache'[t].order, recent'[t])
  <2>1. PICK room : /\ room = o \/ room = Without(o, Victim(cache[t]))
                    /\ cache'[t].order = MoveToMru(room, k)
    BY <1>6 DEF UsedOnce, UsedStep, o
  <2>2. recent'[t] = MoveToMru(r, k)
    BY <1>6 DEF UsedOnce, r
  <2>3. room \in Seq(Keys) /\ IsInjective(room) /\ InOrder(room, r)
    BY <1>1, <1>2, <2>1
  <2>4. /\ InOrder(Without(room, k), Without(r, k))
        /\ Without(room, k) \in Seq(Keys) /\ Without(r, k) \in Seq(Keys)
    BY <1>1, <2>3, OrderWithout, WithoutType
  <2> QED
    BY <2>1, <2>2, <2>4, OrderAppend DEF MoveToMru
<1> QED
  BY <1>3, <1>4, <1>5, <1>6 DEF TierStep

(* An expert that a use brings in is the one used; an expert that leaves   *)
(* is the tier's victim, unless its use is forgotten.                      *)
LEMMA Residents ==
    ASSUME HistoryOK, NEW t \in Tiers, TierStep(t), NEW j \in Keys
    PROVE  /\ \A k \in Keys : UsedOnce(t, k) /\ Resident(cache', t, j) =>
                 j = k \/ Resident(cache, t, j)
           /\ Resident(cache, t, j) /\ ~Resident(cache', t, j) =>
                 \/ Evicts(cache[t]) /\ j = Victim(cache[t])
                 \/ ~Contains(recent'[t], j)
<1> DEFINE o == cache[t].order
           r == recent[t]
           v == Victim(cache[t])
<1>1. o \in Seq(Keys) /\ IsInjective(o) /\ r \in Seq(Keys) /\ IsInjective(r)
  BY CacheOKTiers DEF HistoryOK, RecentOK, TierOK, TierType
<1> HIDE DEF o, r, v
<1>2. ASSUME NEW e
      PROVE  /\ Without(o, e) \in Seq(Keys) /\ IsInjective(Without(o, e))
             /\ \A x : Contains(Without(o, e), x) <=> x # e /\ Contains(o, x)
  <2>1. /\ ~Contains(Without(o, e), e)
        /\ \A x : x # e => (Contains(Without(o, e), x) <=> Contains(o, x))
    BY <1>1, WithoutList
  <2> QED
    BY <1>1, <2>1, WithoutList
<1>3. (Resident(cache, t, j) <=> Contains(o, j))
      /\ (Resident(cache', t, j) <=> Contains(cache'[t].order, j))
  BY DEF Resident, o
<1>4. CASE Kept(t)
  BY <1>3, <1>4 DEF Kept, o
<1>5. CASE GaveUp(t)
  <2>1. Evicts(cache[t]) /\ cache'[t].order = Without(o, v)
    BY <1>5 DEF GaveUp, DroppedStep, o, v
  <2> QED
    BY <1>2, <1>3, <2>1 DEF v
<1>6. ASSUME NEW k \in Keys, Forgot(t, k)
      PROVE  /\ Contains(cache'[t].order, j) => Contains(o, j)
             /\ Contains(o, j) /\ ~Contains(cache'[t].order, j) => ~Contains(recent'[t], j)
  <2>1. cache'[t].order = Without(o, k) /\ recent'[t] = Without(r, k)
    BY <1>6 DEF Forgot, DroppedStep, o, r
  <2>2. ~Contains(Without(r, k), k)
    BY <1>1, WithoutList
  <2> QED
    BY <1>2, <2>1, <2>2
<1>7. ASSUME NEW k \in Keys, UsedOnce(t, k)
      PROVE  /\ Contains(cache'[t].order, j) /\ ~Contains(o, j) => j = k
             /\ Contains(o, j) /\ ~Contains(cache'[t].order, j) => Evicts(cache[t]) /\ j = v
  <2>1. PICK room : /\ room = o \/ (Evicts(cache[t]) /\ room = Without(o, v))
                    /\ cache'[t].order = MoveToMru(room, k)
    BY <1>7 DEF UsedOnce, UsedStep, o, v
  <2>2. room \in Seq(Keys) /\ IsInjective(room)
    BY <1>1, <1>2, <2>1
  <2>3. \A x : Contains(MoveToMru(room, k), x) <=> x = k \/ Contains(room, x)
    BY <2>2, MruList
  <2> QED
    BY <1>2, <2>1, <2>3
<1> QED
  BY <1>3, <1>4, <1>5, <1>6, <1>7 DEF TierStep, v

(* The counts are kept.                                                    *)
LEMMA UsesCountedKept ==
    ASSUME HistoryOK, CacheOK(cache'), UsesCounted, Policy = "lfu", NEW t \in Tiers, TierStep(t),
           NEW j \in Keys
    PROVE  uses'[t][j] = IF Resident(cache', t, j) THEN cache'[t].count[j] ELSE 0
<1>1. uses[t][j] = IF Resident(cache, t, j) THEN cache[t].count[j] ELSE 0
  BY DEF UsesCounted
<1>2. /\ cache[t].count \in [Keys -> Nat] /\ cache'[t].count \in [Keys -> Nat]
      /\ MaxAccess \in Nat
  BY CacheOKTiers, BoundsAssumption DEF HistoryOK, TierOK, TierType
<1>3. CASE ~Resident(cache', t, j)
  BY <1>3 DEF TierStep, Kept, GaveUp, Forgot, UsedOnce, UsesKept
<1>4. CASE Resident(cache', t, j) /\ UsesKept(t) /\ cache'[t].count[j] = cache[t].count[j]
           /\ Resident(cache, t, j)
  BY <1>1, <1>4 DEF UsesKept
<1>5. ASSUME Resident(cache', t, j), NEW k \in Keys, UsedOnce(t, k)
      PROVE  uses'[t][j] = cache'[t].count[j]
  <2>1. uses'[t][j] = IF j = k THEN Smaller(uses[t][j] + 1, MaxAccess) ELSE uses[t][j]
    BY <1>5 DEF UsedOnce
  <2>2. /\ cache'[t].count[k] = IF Resident(cache, t, k) THEN cache[t].count[k] + 1 ELSE 1
        /\ \A i \in Keys \ {k} : Resident(cache', t, i) =>
                                    cache'[t].count[i] = cache[t].count[i]
        /\ cache'[t].count[k] <= MaxAccess
    BY <1>5 DEF UsedOnce, UsedStep, Resident
  <2>3. CASE j = k
    <3>1. uses[t][j] + 1 = cache'[t].count[j]
      BY <1>1, <1>2, <2>2, <2>3
    <3> QED
      BY <1>2, <2>1, <2>2, <2>3, <3>1 DEF Smaller
  <2>4. CASE j # k
    <3>1. Resident(cache, t, j)
      BY <1>5, <2>4, Residents
    <3> QED
      BY <1>1, <1>5, <2>1, <2>2, <2>4, <3>1
  <2> QED
    BY <2>3, <2>4
<1>6. ASSUME Resident(cache', t, j), Kept(t) \/ GaveUp(t) \/ \E k \in Keys : Forgot(t, k)
      PROVE  UsesKept(t) /\ cache'[t].count[j] = cache[t].count[j] /\ Resident(cache, t, j)
  <2>1. UsesKept(t)
    BY <1>6 DEF Kept, GaveUp, Forgot
  <2>2. CASE Kept(t)
    BY <1>6, <2>1, <2>2 DEF Kept, Resident
  <2>3. ASSUME NEW e, DroppedStep(cache[t], cache'[t], e)
        PROVE  cache'[t].count[j] = cache[t].count[j] /\ Resident(cache, t, j)
    <3>1. Contains(Without(cache[t].order, e), j)
      BY <1>6, <2>3 DEF DroppedStep, Resident
    <3>2. cache[t].order \in Seq(Keys)
      BY CacheOKTiers DEF HistoryOK, TierOK, TierType
    <3>3. Contains(cache[t].order, j)
      BY <3>1, <3>2, WithoutContains
    <3> QED
      BY <2>3, <3>1, <3>3 DEF DroppedStep, Resident
  <2> QED
    BY <1>6, <2>1, <2>2, <2>3 DEF GaveUp, Forgot
<1> QED
  BY <1>3, <1>4, <1>5, <1>6 DEF TierStep

(* The two facts, always.                                                  *)
LEMMA HistoryCounted ==
    ASSUME Policy = "lfu"
    PROVE  HSpec => [](HistoryOK /\ UsesCounted /\ UseOrder)
<1>1. HInit => UsesCounted /\ UseOrder
  <2>1. HInit => \A t \in Tiers : cache[t].order = <<>> /\ recent[t] = <<>>
    BY InitOK DEF HInit, Init
  <2>2. HInit => \A t \in Tiers, k \in Keys : uses[t][k] = 0
    BY DEF HInit, NoUses
  <2> QED
    BY <2>1, <2>2 DEF UsesCounted, UseOrder, InOrder, Resident, Contains
<1>2. ASSUME HistoryOK, HistoryOK', UsesCounted, UseOrder, [HNext]_hvars
      PROVE  UsesCounted' /\ UseOrder'
  <2>1. CASE UNCHANGED hvars
    BY <1>2, <2>1 DEF UsesCounted, UseOrder, hvars
  <2>2. CASE \A t \in Tiers : TierStep(t)
    <3>1. CacheOK(cache')
      BY <1>2 DEF HistoryOK, CacheOK
    <3>2. UsesCounted'
      BY <1>2, <2>2, <3>1, UsesCountedKept DEF UsesCounted
    <3>3. UseOrder'
      BY <1>2, <2>2, UseOrderKept DEF UseOrder
    <3> QED
      BY <3>2, <3>3
  <2> QED
    BY <1>2, <2>1, <2>2, HistoryStep
<1>3. HSpec => []HistoryOK
  BY HistoryTypes
<1> QED
  BY <1>1, <1>2, <1>3, PTL DEF HSpec

(* LFU: whoever is evicted was used no more often than any that stays, and *)
(* among equals it was the one unused the longest.  The victim is the      *)
(* least counted entry, and the first of them in the order of latest use.  *)
THEOREM KeepsTheHotter ==
    ASSUME Policy = "lfu"
    PROVE  HSpec => HotterSurvives
<1> DEFINE Survives(t, j, k) ==
              WasEvicted(t, k) /\ Resident(cache, t, j) /\ Resident(cache', t, j) =>
                 \/ uses[t][k] < uses[t][j]
                 \/ uses[t][k] = uses[t][j] /\ UsedLater(t, j, k)
<1>1. ASSUME HistoryOK, UsesCounted, UseOrder, NEW t \in Tiers, TierStep(t),
             NEW j \in Keys, NEW k \in Keys, WasEvicted(t, k),
             Resident(cache, t, j), Resident(cache', t, j)
      PROVE  \/ uses[t][k] < uses[t][j]
             \/ uses[t][k] = uses[t][j] /\ UsedLater(t, j, k)
  <2> DEFINE o == cache[t].order
             n == cache[t].count
  <2>1. Evicts(cache[t]) /\ k = Victim(cache[t]) /\ j # k
    BY <1>1, Residents DEF WasEvicted
  <2>2. TierOK(cache[t], t)
    BY <1>1, CacheOKTiers DEF HistoryOK
  <2>3. k = LfuVictim(cache[t]) /\ o # <<>>
    BY <2>1 DEF Victim, Evicts
  <2>4. PICK p \in 1..Len(o) : k = o[p] /\ \A q \in 1..Len(o) : ~Colder(cache[t], q, p)
    BY <1>1, <2>2, <2>3, LfuVictimColdest
  <2>5. PICK q \in 1..Len(o) : j = o[q]
    BY <1>1 DEF Resident, Contains
  <2>6. n[k] \in Nat /\ n[j] \in Nat /\ uses[t][k] = n[k] /\ uses[t][j] = n[j]
    BY <1>1, <2>2 DEF WasEvicted, UsesCounted, TierOK, TierType
  <2>7. /\ ~(n[j] < n[k])
        /\ n[j] = n[k] => ~(q < p)
    BY <2>4, <2>5 DEF Colder
  <2>8. p # q
    BY <2>1, <2>4, <2>5
  <2> HIDE DEF n
  <2>9. CASE n[k] < n[j]
    BY <2>6, <2>9
  <2>10. CASE n[k] = n[j]
    <3>1. p < q
      BY <2>7, <2>8, <2>10
    <3>2. Later(recent[t], j, k)
      BY <1>1, <2>4, <2>5, <3>1 DEF UseOrder, InOrder
    <3> QED
      BY <2>6, <2>10, <3>2 DEF Later, UsedLater
  <2> QED
    BY <2>6, <2>7, <2>9, <2>10
<1>2. ASSUME HistoryOK, UsesCounted, UseOrder, [HNext]_hvars
      PROVE  [\A t \in Tiers, j, k \in Keys : Survives(t, j, k)]_hvars
  <2>1. CASE UNCHANGED hvars
    BY <2>1
  <2>2. CASE \A t \in Tiers : TierStep(t)
    BY <1>1, <1>2, <2>2
  <2> QED
    BY <1>2, <2>1, <2>2, HistoryStep
<1>3. HSpec => [](HistoryOK /\ UsesCounted /\ UseOrder)
  BY HistoryCounted
<1>4. HotterSurvives <=> [][\A t \in Tiers, j, k \in Keys : Survives(t, j, k)]_hvars
  BY DEF HotterSurvives
<1> HIDE DEF Survives
<1> QED
  BY <1>2, <1>3, <1>4, PTL DEF HSpec
=============================================================================
