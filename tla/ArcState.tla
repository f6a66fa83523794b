------------------------------ MODULE ArcState ------------------------------
(***************************************************************************)
(* The bookkeeping of cache/manager.py's _ArcState as operators on a       *)
(* record [p, t1, t2, b1, b2].  The four lists hold keys, least recently   *)
(* used first; p is the target length of t1.  Each operator returns the    *)
(* record the Python method leaves behind.                                 *)
(***************************************************************************)
EXTENDS Integers, Sequences, SequencesExt

Smaller(m, n) == IF m < n THEN m ELSE n
Larger(m, n) == IF m > n THEN m ELSE n

\* i is the first position of e in s: the one Python's list.remove deletes.
IsFirst(s, e, i) ==
    /\ i \in 1..Len(s)
    /\ s[i] = e
    /\ \A j \in 1..(i - 1) : s[j] # e

\* s without its first e; s itself when e does not occur.
Without(s, e) ==
    IF \E i \in 1..Len(s) : IsFirst(s, e, i)
    THEN RemoveAt(s, CHOOSE i \in 1..Len(s) : IsFirst(s, e, i))
    ELSE s

\* The last n elements: what "while len(lst) > n: lst.pop(0)" keeps.
Newest(s, n) == IF Len(s) > n THEN SubSeq(s, Len(s) - n + 1, Len(s)) ELSE s

\* Mutant: the old position is kept.
MoveToMruTwice(s, e) == Append(s, e)

MoveToMru(s, e) == Append(Without(s, e), e)

InitArc == [p |-> 0, t1 |-> <<>>, t2 |-> <<>>, b1 |-> <<>>, b2 |-> <<>>]

OnHit(a, k) ==
    IF Contains(a.t1, k)
    THEN [a EXCEPT !.t1 = Without(@, k), !.t2 = Append(@, k)]
    ELSE IF Contains(a.t2, k) THEN [a EXCEPT !.t2 = MoveToMru(@, k)] ELSE a

\* Mutant: p grows past the number of slots.
AdaptedUncapped(a, k, slots) ==
    IF Contains(a.b1, k) THEN [a EXCEPT !.p = @ + 1, !.b1 = Without(@, k)] ELSE a

\* The ghost-hit step of on_miss: p moves towards the list that was too small.
Adapted(a, k, slots) ==
    LET grow == Larger(1, Len(a.b2) \div Larger(1, Len(a.b1)))
        shrink == Larger(1, Len(a.b1) \div Larger(1, Len(a.b2)))
    IN  IF Contains(a.b1, k)
        THEN [a EXCEPT !.p = Smaller(@ + grow, slots), !.b1 = Without(@, k)]
        ELSE IF Contains(a.b2, k)
        THEN [a EXCEPT !.p = Larger(@ - shrink, 0), !.b2 = Without(@, k)]
        ELSE a

OnMiss(a, k, slots) ==
    [Adapted(a, k, slots) EXCEPT
        !.t1 = Append(@, k), !.b1 = Newest(@, slots), !.b2 = Newest(@, slots)]

NothingToEvict(a) == a.t1 = <<>> /\ a.t2 = <<>>

TakesFromT1(a) == a.t1 # <<>> /\ (Len(a.t1) > a.p \/ a.t2 = <<>>)

\* choose_evict's return value, for lists that are not both empty.
ArcChoice(a) == IF TakesFromT1(a) THEN Head(a.t1) ELSE Head(a.t2)

\* The state choose_evict leaves: the chosen key moves to its ghost list.
AfterChoice(a) ==
    IF NothingToEvict(a) THEN a
    ELSE IF TakesFromT1(a)
    THEN [a EXCEPT !.t1 = Tail(@), !.b1 = Append(@, ArcChoice(a))]
    ELSE [a EXCEPT !.t2 = Tail(@), !.b2 = Append(@, ArcChoice(a))]

RemoveKey(a, k) == [a EXCEPT !.t1 = Without(@, k), !.t2 = Without(@, k)]

-----------------------------------------------------------------------------
\* The ARC states over the keys S with at most slots for the target of t1.
ArcType(S, slots) ==
    [p : 0..slots, t1 : Seq(S), t2 : Seq(S), b1 : Seq(S), b2 : Seq(S)]
=============================================================================
