---------------------------- MODULE IntervalSet ----------------------------
(***************************************************************************)
(* Interval<T> and IntervalSet<T>: sets of numbers kept as a sorted list   *)
(* of half-open intervals, with which the restrictions on levels and the   *)
(* geometry are computed.  T is an unsigned type whose largest value is    *)
(* Top; as intervals are open above, a set holds numbers below Top.        *)
(*                                                                         *)
(* The list is a std::vector or a std::set.  Both give their elements in   *)
(* order to normalize(), which merges equal ones, so that what is put into *)
(* the list is a set of intervals here, and what is in it afterwards a     *)
(* sequence.                                                               *)
(*                                                                         *)
(* One IntervalSet undergoes any operations; beside it goes the set of the *)
(* numbers it should hold.                                                 *)
(***************************************************************************)
EXTENDS Integers, Sequences, FiniteSets, SequencesExt

CONSTANT Top        \* std::numeric_limits<T>::max()

ASSUME TopAssumption == Top \in Nat \ {0}

Values == 0..Top
Points == 0..(Top - 1)

VARIABLES
    set,            \* m_set
    points          \* history: the numbers that should be in it

vars == <<set, points>>

Intvl(lower, upper) == [lower |-> lower, upper |-> upper]
Intervals == [lower: Values, upper: Values]

Least(a, b) == IF a < b THEN a ELSE b
Greatest(a, b) == IF a < b THEN b ELSE a

-----------------------------------------------------------------------------
(* Plausible mistakes, for the checks to notice; the specification does    *)
(* not use this section.                                                   *)

(* adjacent intervals are left as they are *)
IsOverlapOrAdjacent_Overlap(x, y) ==
    x.upper > y.lower /\ x.lower < y.upper

(* a list that is the beginning of another is equal to it *)
Compare_Prefix(s, t) ==
    LET differ == {i \in 1..Least(Len(s), Len(t)) : s[i] # t[i]}
    IN  IF differ = {} THEN 0
        ELSE LET i == CHOOSE j \in differ : \A k \in differ : j <= k
             IN  IF \/ s[i].lower < t[i].lower
                    \/ s[i].lower = t[i].lower /\ s[i].upper < t[i].upper
                 THEN -1 ELSE 1

-----------------------------------------------------------------------------
(* Interval<T> *)

IsEmptyInterval(x) == x.lower >= x.upper
IsInside(x, v) == v >= x.lower /\ v < x.upper

(* for intervals that are not empty *)
IsOverlapOrAdjacent(x, y) == y.upper >= x.lower /\ y.lower <= x.upper

(* Interval(val): val + 1 is a T *)
Single(v) == Intvl(v, (v + 1) % (Top + 1))

(* operator<, that is compare() < 0 *)
Before(x, y) ==
    \/ x.lower < y.lower
    \/ x.lower = y.lower /\ x.upper < y.upper

(* The order of the list, that of std::sort() and of a std::set: at i is   *)
(* the interval with i - 1 others before it.                               *)
InOrder(S) ==
    [i \in 1..Cardinality(S) |->
        CHOOSE x \in S : Cardinality({y \in S : Before(y, x)}) = i - 1]

-----------------------------------------------------------------------------
(* The reference: the intervals a set of numbers falls apart into, without *)
(* gaps inside them and with gaps between them, in order.                  *)
Runs(P) ==
    LET starts == {p \in P : p - 1 \notin P}
        EndOf(p) == CHOOSE q \in p..Top :
                       q \notin P /\ \A r \in p..(q - 1) : r \in P
    IN  InOrder({Intvl(p, EndOf(p)) : p \in starts})

-----------------------------------------------------------------------------
(* IntervalSet<T> *)

(* add_traits::add() drops empty intervals *)
Added(S) == {x \in S : ~IsEmptyInterval(x)}

(* normalize(): the loop merges the next interval into the current one, or *)
(* goes on to it.                                                          *)
Merge(done, x) ==
    IF done # <<>> /\ IsOverlapOrAdjacent(Last(done), x)
    THEN [done EXCEPT ![Len(done)] =
             Intvl(Least(@.lower, x.lower), Greatest(@.upper, x.upper))]
    ELSE Append(done, x)
Merged(list) ==
    LET merged[i \in 0..Len(list)] ==
          IF i = 0 THEN <<>> ELSE Merge(merged[i - 1], list[i])
    IN merged
Normalize(S) ==
    LET list == InOrder(Added(S)) IN Merged(list)[Len(list)]

(* IntervalSet(const Intvl&) *)
OfInterval(x) == Normalize({x})

(* operator|= *)
Union2(s, t) ==
    IF Added(Range(t)) = {} THEN s ELSE Normalize(Range(s) \cup Range(t))

(* operator&=: the inner loop over this set ends at the first interval     *)
(* that lies behind the one of the outer loop.                             *)
Reached(s, x) ==
    {s[i] : i \in {j \in 1..Len(s) : \A k \in 1..j : s[k].lower < x.upper}}
Intersection(s, t) ==
    Normalize(UNION {
        {Intvl(Greatest(x.lower, y.lower), Least(x.upper, y.upper)) :
            y \in {z \in Reached(s, x) : IsOverlapOrAdjacent(z, x)}} :
        x \in Range(t)})

(* operator~: from the end of each interval to the beginning of the next   *)
Gap(acc, x) ==
    [from |-> Greatest(acc.from, x.upper),
     list |-> IF acc.from < x.lower
              THEN Append(acc.list, Intvl(acc.from, x.lower))
              ELSE acc.list]
Gaps(s) ==
    LET gaps[i \in 0..Len(s)] ==
          IF i = 0 THEN [from |-> 0, list |-> <<>>]
          ELSE Gap(gaps[i - 1], s[i])
    IN gaps
Complement(s) ==
    LET acc == Gaps(s)[Len(s)]
    IN  IF acc.from < Top
        THEN Append(acc.list, Intvl(acc.from, Top))
        ELSE acc.list

(* operator-= and operator^= *)
Difference(s, t) == Intersection(s, Complement(t))
Symmetric(s, t) == Difference(Union2(s, t), Intersection(s, t))

(* is_empty(), is_full(), is_inside() *)
IsEmpty(s) == s = <<>>
IsFull(s) == s # <<>> /\ Head(s) = Intvl(0, Top)
Holds(s, v) == \E i \in 1..Len(s) : IsInside(s[i], v)

(* compare() *)
Compare(s, t) ==
    LET differ == {i \in 1..Least(Len(s), Len(t)) : s[i] # t[i]}
    IN  IF differ # {}
        THEN LET i == CHOOSE j \in differ : \A k \in differ : j <= k
             IN  IF Before(s[i], t[i]) THEN -1 ELSE 1
        ELSE CASE Len(s) < Len(t) -> -1
               [] Len(s) > Len(t) -> 1
               [] OTHER -> 0

-----------------------------------------------------------------------------
Init ==
    /\ set = <<>>
    /\ points = {}

(* The numbers of an interval.                                             *)
Inside(x) == {p \in Points : x.lower <= p /\ p < x.upper}

(* &=, -= and ^= with a set t that holds the numbers P.                    *)
Reduce(t, P) ==
    \/ set' = Intersection(set, t) /\ points' = points \cap P
    \/ set' = Difference(set, t) /\ points' = points \ P
    \/ set' = Symmetric(set, t) /\ points' = (points \ P) \cup (P \ points)

WithSet ==
    \E P \in SUBSET Points :
        \/ Reduce(Runs(P), P)
        \/ set' = Union2(set, Runs(P)) /\ points' = points \cup P

(* With an interval, whose bounds may be in any order: |= adds it as it is,*)
(* the others make a set of it.                                            *)
OperateInterval(x, P) ==
    \/ Reduce(OfInterval(x), P)
    \/ /\ set' = IF IsEmptyInterval(x) THEN set
                 ELSE Normalize(Range(set) \cup {x})
       /\ points' = points \cup P

WithInterval == \E x \in Intervals : OperateInterval(x, Inside(x))

(* With a single number: the last one is in no interval.                   *)
WithValue ==
    \E v \in Values : OperateInterval(Single(v), {v} \cap Points)

Invert ==
    /\ set' = Complement(set)
    /\ points' = Points \ points

SetEmpty ==
    /\ set' = <<>>
    /\ points' = {}

SetFull ==
    /\ set' = <<Intvl(0, Top)>>
    /\ points' = Points

Next == WithSet \/ WithInterval \/ WithValue \/ Invert \/ SetEmpty \/ SetFull

Spec == Init /\ [][Next]_vars

-----------------------------------------------------------------------------
(* After any operations the list is the one and only list of intervals for *)
(* the numbers the set should hold: sorted, apart from each other, none of *)
(* them empty.                                                             *)
IsCanonical == set = Runs(points)

(* is_empty(), is_full() and is_inside() tell what the numbers tell, and   *)
(* compare() is zero only for sets that hold the same numbers, and says of *)
(* any two others which one is the smaller, the same from either side.     *)
ComparisonsAgree ==
    /\ IsEmpty(set) <=> points = {}
    /\ IsFull(set) <=> points = Points
    /\ \A v \in Values : Holds(set, v) <=> v \in points
    /\ \A P \in SUBSET Points :
         LET t == Runs(P)
         IN  /\ Compare(set, t) = 0 <=> P = points
             /\ Compare(t, set) = 0 - Compare(set, t)

=============================================================================
