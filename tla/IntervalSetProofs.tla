------------------------- MODULE IntervalSetProofs -------------------------
(***************************************************************************)
(* The operations of IntervalSet agree with those on sets of numbers, for  *)
(* a type of any size.  A list is known by the numbers it holds: Is(s, P)  *)
(* says that the intervals of s are in order, apart from each other and    *)
(* not empty, and hold the numbers P.  There is one such list, Runs(P), so *)
(* what is left to show of an operation is that its result is one.         *)
(***************************************************************************)
EXTENDS IntervalSet, FunctionTheorems, FiniteSetTheorems,
        WellFoundedInduction, NaturalsInduction, TLAPS

Apart(s) ==
    /\ s \in Seq(Intervals)
    /\ \A i \in DOMAIN s : s[i].lower < s[i].upper
    /\ \A i, j \in DOMAIN s : i < j => s[i].upper < s[j].lower
Is(s, P) == Apart(s) /\ \A v \in Values : Holds(s, v) <=> v \in P

(* The intervals that P falls apart into.                                  *)
Blocks(P) ==
    {x \in Intervals :
        /\ x.lower < x.upper
        /\ \A v \in Values : IsInside(x, v) => v \in P
        /\ x.lower - 1 \notin P /\ x.upper \notin P}

-----------------------------------------------------------------------------
(* Numbers, intervals and their order.                                     *)

(* A set of numbers has a least one.                                       *)
LEMMA LeastOf ==
    ASSUME NEW S \in SUBSET Nat, S # {}
    PROVE  \E m \in S : \A k \in S : m <= k
<1> DEFINE R == OpToRel(<, Nat)
<1>1. IsWellFoundedOn(R, Nat)
  BY NatLessThanWellFounded
<1>2. R = {q \in Nat \X Nat : q[1] < q[2]}
  BY DEF OpToRel
<1>3. \A x, y \in Nat : <<x, y>> \in R <=> x < y
  BY <1>2
<1> HIDE DEF R
<1>4. PICK x \in S : \A y \in S : <<y, x>> \notin R
  BY <1>1, WFMin
<1>5. \A y \in S : ~(y < x)
  BY <1>3, <1>4
<1> QED
  BY <1>5

(* The bounds of an interval are values.                                   *)
LEMMA IntervalFacts ==
    /\ Top \in Nat /\ Top >= 1
    /\ \A v : v \in Values <=> v \in Nat /\ v <= Top
    /\ \A x \in Intervals :
          /\ x.lower \in Nat /\ x.lower <= Top /\ x.lower \in Values
          /\ x.upper \in Nat /\ x.upper <= Top /\ x.upper \in Values
          /\ x = Intvl(x.lower, x.upper)
    /\ \A a, b \in Values :
          /\ Intvl(a, b) \in Intervals
          /\ Intvl(a, b).lower = a /\ Intvl(a, b).upper = b
<1>1. Top \in Nat /\ Top >= 1
  BY TopAssumption
<1> QED
  BY <1>1 DEF Values, Intervals, Intvl

(* There are finitely many.                                                *)
LEMMA IntervalsFinite == IsFiniteSet(Intervals)
<1> DEFINE pairs == Values \X Values
           f == [p \in pairs |-> Intvl(p[1], p[2])]
<1>1. IsFiniteSet(Values)
  BY IntervalFacts, FS_Interval DEF Values
<1>2. IsFiniteSet(pairs)
  BY <1>1, FS_Product
<1>3. f \in Surjection(pairs, Intervals)
  <2>1. f \in [pairs -> Intervals]
    BY IntervalFacts
  <2>2. ASSUME NEW x \in Intervals PROVE \E p \in pairs : f[p] = x
    <3>1. <<x.lower, x.upper>> \in pairs /\ f[<<x.lower, x.upper>>] = x
      BY IntervalFacts
    <3> QED
      BY <3>1
  <2> QED
    BY <2>1, <2>2 DEF Surjection
<1> QED
  BY <1>2, <1>3, FS_Surjection

(* Before orders the intervals.                                            *)
LEMMA BeforeFacts ==
    /\ \A x \in Intervals : ~Before(x, x)
    /\ \A x, y \in Intervals : Before(x, y) => ~Before(y, x)
    /\ \A x, y \in Intervals : x = y \/ Before(x, y) \/ Before(y, x)
    /\ \A x, y, z \in Intervals :
          Before(x, y) /\ Before(y, z) => Before(x, z)
<1>1. \A x, y \in Intervals :
         x.lower = y.lower /\ x.upper = y.upper => x = y
  BY IntervalFacts
<1> QED
  BY <1>1, IntervalFacts DEF Before

-----------------------------------------------------------------------------
(* Lists in order.                                                         *)

Below(S, x) == {y \in S : Before(y, x)}
Rank(S, x) == Cardinality(Below(S, x))

(* Every interval of a set has its own place, and every place its interval.*)
LEMMA RankFacts ==
    ASSUME NEW S \in SUBSET Intervals
    PROVE  /\ Cardinality(S) \in Nat
           /\ \A x \in S : Rank(S, x) \in 0..(Cardinality(S) - 1)
           /\ \A x, y \in S : Before(x, y) <=> Rank(S, x) < Rank(S, y)
           /\ \A i \in 1..Cardinality(S) : \E x \in S : Rank(S, x) = i - 1
<1> DEFINE n == Cardinality(S)
<1>1. IsFiniteSet(S) /\ n \in Nat
  BY IntervalsFinite, FS_Subset, FS_CardinalityType
<1>2. ASSUME NEW x \in S
      PROVE  Rank(S, x) \in 0..(n - 1)
  <2>1. IsFiniteSet(S \ {x}) /\ Cardinality(S \ {x}) = n - 1
    BY <1>1, FS_RemoveElement
  <2>2. Below(S, x) \in SUBSET (S \ {x})
    BY BeforeFacts DEF Below
  <2>3. /\ IsFiniteSet(Below(S, x))
        /\ Cardinality(Below(S, x)) <= n - 1
    BY <2>1, <2>2, FS_Subset
  <2>4. Cardinality(Below(S, x)) \in Nat
    BY <2>3, FS_CardinalityType
  <2> QED
    BY <1>1, <2>3, <2>4 DEF Rank
<1>3. ASSUME NEW x \in S, NEW y \in S, Before(x, y)
      PROVE  Rank(S, x) < Rank(S, y)
  <2>1. /\ Below(S, x) \in SUBSET Below(S, y)
        /\ x \in Below(S, y) /\ x \notin Below(S, x)
    BY <1>3, BeforeFacts DEF Below
  <2>2. IsFiniteSet(Below(S, y))
    BY <1>1, FS_Subset DEF Below
  <2>3. /\ Cardinality(Below(S, x)) <= Cardinality(Below(S, y))
        /\ Cardinality(Below(S, x)) # Cardinality(Below(S, y))
    BY <2>1, <2>2, FS_Subset
  <2> QED
    BY <1>1, <1>2, <2>3 DEF Rank
<1>4. ASSUME NEW x \in S, NEW y \in S, Rank(S, x) < Rank(S, y)
      PROVE  Before(x, y)
  <2>1. /\ Rank(S, x) \in Int /\ Rank(S, y) \in Int
        /\ x # y
    BY <1>2, <1>4
  <2>2. ~Before(y, x)
    BY <1>3, <1>4, <2>1
  <2> QED
    BY <2>1, <2>2, BeforeFacts
<1>5. ASSUME NEW i \in 1..n
      PROVE  \E x \in S : Rank(S, x) = i - 1
  <2> DEFINE f == [x \in S |-> Rank(S, x)]
             T == 0..(n - 1)
  <2>1. IsFiniteSet(T) /\ Cardinality(T) = n
    <3>1. 0 \in Int /\ n - 1 \in Int /\ (0 > n - 1 <=> n = 0)
      BY <1>1
    <3> QED
      BY <1>1, <3>1, FS_Interval
  <2>2. f \in Injection(S, T)
    <3>1. f \in [S -> T]
      BY <1>2
    <3>2. ASSUME NEW x \in S, NEW y \in S, f[x] = f[y]
          PROVE  x = y
      <4>1. Rank(S, x) = Rank(S, y) /\ Rank(S, x) \in Int
        BY <1>2, <3>2
      <4>2. ~Before(x, y) /\ ~Before(y, x)
        BY <1>3, <4>1
      <4> QED
        BY <4>2, BeforeFacts
    <3> QED
      BY <3>1, <3>2 DEF Injection, IsInjective
  <2>3. f \in Surjection(S, T)
    BY <2>1, <2>2, FS_Injection
  <2>4. i - 1 \in T
    BY <1>1
  <2> QED
    BY <2>3, <2>4 DEF Surjection
<1> QED
  BY <1>1, <1>2, <1>3, <1>4, <1>5

(* InOrder() lists every interval of the set, each before the next.        *)
LEMMA InOrderFacts ==
    ASSUME NEW S \in SUBSET Intervals
    PROVE  LET s == InOrder(S)
           IN /\ s \in Seq(Intervals) /\ Range(s) = S
              /\ \A i, j \in DOMAIN s : i < j => Before(s[i], s[j])
<1> DEFINE s == InOrder(S)
           n == Cardinality(S)
<1>1. n \in Nat
  BY RankFacts
<1>2. s = [i \in 1..n |-> CHOOSE x \in S : Rank(S, x) = i - 1]
  BY DEF InOrder, Rank, Below
<1> HIDE DEF s
<1>3. DOMAIN s = 1..n
  BY <1>2
<1>4. \A i \in 1..n : s[i] \in S /\ Rank(S, s[i]) = i - 1
  <2> TAKE i \in 1..n
  <2>1. s[i] = CHOOSE x \in S : Rank(S, x) = i - 1
    BY <1>2
  <2>2. \E x \in S : Rank(S, x) = i - 1
    BY RankFacts
  <2> QED
    BY <2>1, <2>2
<1>5. s \in Seq(Intervals)
  <2>1. s \in [1..n -> Intervals]
    BY <1>2, <1>3, <1>4
  <2> QED
    BY <1>1, <2>1
<1>6. ASSUME NEW x \in S PROVE \E i \in DOMAIN s : s[i] = x
  <2>1. Rank(S, x) \in 0..(n - 1)
    BY RankFacts
  <2> DEFINE i == Rank(S, x) + 1
  <2>2. i \in 1..n /\ i - 1 = Rank(S, x)
    BY <1>1, <2>1
  <2> HIDE DEF i
  <2>3. s[i] \in S /\ Rank(S, s[i]) = Rank(S, x)
    BY <1>4, <2>2
  <2>4. ~Before(x, s[i]) /\ ~Before(s[i], x)
    BY <2>1, <2>3, RankFacts
  <2>5. x = s[i]
    BY <2>3, <2>4, BeforeFacts
  <2> QED
    BY <1>3, <2>2, <2>5
<1>7. Range(s) = S
  BY <1>3, <1>4, <1>6 DEF Range
<1>8. ASSUME NEW i \in DOMAIN s, NEW j \in DOMAIN s, i < j
      PROVE  Before(s[i], s[j])
  BY <1>1, <1>3, <1>4, <1>8, RankFacts
<1> QED
  BY <1>5, <1>7, <1>8 DEF s

(* There is no other such list.                                            *)
LEMMA InOrderUnique ==
    ASSUME NEW s \in Seq(Intervals),
           \A i, j \in DOMAIN s : i < j => Before(s[i], s[j])
    PROVE  s = InOrder(Range(s))
<1> DEFINE S == Range(s)
           n == Len(s)
<1>1. n \in Nat /\ DOMAIN s = 1..n /\ S \in SUBSET Intervals
  BY DEF Range
<1>2. ASSUME NEW i \in 1..n, NEW j \in 1..n
      PROVE  (Before(s[i], s[j]) <=> i < j) /\ (s[i] = s[j] <=> i = j)
  <2>1. s[i] \in Intervals /\ s[j] \in Intervals
    BY <1>1
  <2>2. i < j \/ i = j \/ j < i
    BY <1>1
  <2> QED
    BY <1>1, <2>1, <2>2, BeforeFacts
<1>3. ASSUME NEW k \in 0..n
      PROVE  Cardinality({s[j] : j \in 1..k}) = k
  <2> DEFINE T == {s[j] : j \in 1..k}
             f == [j \in 1..k |-> s[j]]
  <2>1. IsFiniteSet(1..k) /\ Cardinality(1..k) = k
    BY <1>1, FS_Interval
  <2>2. \A j \in 1..k : j \in 1..n
    BY <1>1
  <2>3. f \in Surjection(1..k, T) /\ f \in Injection(1..k, T)
    BY <1>2, <2>2 DEF Surjection, Injection, IsInjective
  <2> QED
    BY <2>1, <2>3, FS_Surjection
<1>4. Cardinality(S) = n
  <2>1. S = {s[j] : j \in 1..n} /\ n \in 0..n
    BY <1>1 DEF Range
  <2> QED
    BY <1>3, <2>1
<1>5. ASSUME NEW i \in 1..n
      PROVE  s[i] \in S /\ Rank(S, s[i]) = i - 1
  <2>1. Below(S, s[i]) = {s[j] : j \in 1..(i - 1)}
    <3>1. \A j \in 1..n : j < i <=> j \in 1..(i - 1)
      BY <1>1
    <3>2. \A j \in 1..(i - 1) : j \in 1..n
      BY <1>1
    <3>3. S = {s[j] : j \in 1..n}
      BY <1>1 DEF Range
    <3> HIDE DEF S
    <3> QED
      BY <1>2, <3>1, <3>2, <3>3 DEF Below
  <2>2. i - 1 \in 0..n
    BY <1>1
  <2> QED
    BY <1>1, <1>3, <2>1, <2>2 DEF Rank, Range
<1>6. ASSUME NEW i \in 1..n
      PROVE  s[i] = CHOOSE x \in S : Rank(S, x) = i - 1
  <2>1. ASSUME NEW x \in S, Rank(S, x) = i - 1
        PROVE  x = s[i]
    <3>1. PICK j \in 1..n : x = s[j]
      BY <1>1 DEF Range
    <3>2. j - 1 = i - 1
      BY <1>5, <2>1, <3>1
    <3> QED
      BY <1>1, <3>1, <3>2
  <2> HIDE DEF S
  <2> QED
    BY <1>5, <2>1
<1>7. InOrder(S) = [i \in 1..n |-> CHOOSE x \in S : Rank(S, x) = i - 1]
  BY <1>4 DEF InOrder, Rank, Below
<1>8. s = [i \in 1..n |-> s[i]]
  BY <1>1
<1> HIDE DEF S, n
<1> QED
  BY <1>6, <1>7, <1>8 DEF S

-----------------------------------------------------------------------------
(* The one list for a set of numbers.                                      *)

(* What an interval of a list holds, the list holds.                       *)
LEMMA HoldsFacts ==
    ASSUME NEW s \in Seq(Intervals)
    PROVE  /\ Len(s) \in Nat /\ DOMAIN s = 1..Len(s)
           /\ \A i \in DOMAIN s : s[i] \in Intervals /\ s[i] \in Range(s)
           /\ \A x \in Range(s) : \E i \in DOMAIN s : x = s[i]
           /\ \A v : Holds(s, v) <=> \E i \in DOMAIN s : IsInside(s[i], v)
           /\ \A v : Holds(s, v) <=> \E x \in Range(s) : IsInside(x, v)
<1>1. Len(s) \in Nat /\ DOMAIN s = 1..Len(s)
  OBVIOUS
<1> QED
  BY <1>1 DEF Holds, Range

(* Two blocks that meet are the same.                                      *)
LEMMA BlocksMeet ==
    ASSUME NEW P \in SUBSET Points, NEW x \in Blocks(P), NEW y \in Blocks(P),
           NEW v \in Values, IsInside(x, v), IsInside(y, v)
    PROVE  x = y
<1>1. ASSUME NEW a \in Blocks(P), NEW b \in Blocks(P),
             IsInside(a, v), IsInside(b, v)
      PROVE  b.lower <= a.lower /\ a.upper >= b.upper
  <2>1. /\ a \in Intervals /\ b \in Intervals /\ v \in Nat
        /\ a.lower \in Nat /\ a.upper \in Nat /\ a.upper <= Top
        /\ b.lower \in Nat /\ b.upper \in Nat /\ b.upper <= Top
        /\ Top \in Nat
    BY IntervalFacts DEF Blocks
  <2>2. b.lower <= a.lower
    <3>1. CASE a.lower < b.lower
      <4>1. b.lower - 1 \in Values /\ IsInside(a, b.lower - 1)
        BY <1>1, <2>1, <3>1, IntervalFacts DEF IsInside
      <4> QED
        BY <4>1 DEF Blocks
    <3> QED
      BY <2>1, <3>1
  <2>3. a.upper >= b.upper
    <3>1. CASE a.upper < b.upper
      <4>1. a.upper \in Values /\ IsInside(b, a.upper)
        BY <1>1, <2>1, <3>1, IntervalFacts DEF IsInside
      <4> QED
        BY <4>1 DEF Blocks
    <3> QED
      BY <2>1, <3>1
  <2> QED
    BY <2>2, <2>3
<1>2. x \in Intervals /\ y \in Intervals
  BY DEF Blocks
<1>3. x.lower = y.lower /\ x.upper = y.upper
  BY <1>1, <1>2, IntervalFacts
<1> QED
  BY <1>2, <1>3, IntervalFacts

(* Every number of the set is in a block.                                  *)
LEMMA BlockAt ==
    ASSUME NEW P \in SUBSET Points, NEW v \in P
    PROVE  \E x \in Blocks(P) : IsInside(x, v)
<1>1. /\ Top \in Nat /\ v \in Nat /\ v < Top /\ Top \notin P
      /\ \A w \in P : w \in Nat /\ w < Top
  BY IntervalFacts DEF Points
<1> DEFINE above == {q \in Nat : v <= q /\ q \notin P}
           below == {d \in Nat : d <= v /\ v - d - 1 \notin P}
<1>2. PICK u \in above : \A q \in above : u <= q
  <2>1. Top \in above
    BY <1>1
  <2> HIDE DEF above
  <2>2. above \in SUBSET Nat
    BY DEF above
  <2> QED
    BY <2>1, <2>2, LeastOf
<1>3. PICK d \in below : \A e \in below : d <= e
  <2>1. v \in below
    BY <1>1
  <2> HIDE DEF below
  <2>2. below \in SUBSET Nat
    BY DEF below
  <2> QED
    BY <2>1, <2>2, LeastOf
<1> DEFINE l == v - d
           x == Intvl(l, u)
<1>4. /\ u \in Nat /\ v <= u /\ u \notin P /\ u <= Top
      /\ d \in Nat /\ d <= v /\ l - 1 \notin P /\ l \in Nat /\ l <= v
  BY <1>1, <1>2, <1>3
<1>5. ASSUME NEW w \in Nat, l <= w, w < u
      PROVE  w \in P
  <2>1. CASE v <= w
    BY <1>2, <1>4, <1>5, <2>1
  <2>2. CASE w < v
    <3> DEFINE e == v - w - 1
    <3>1. e \in Nat /\ e <= v /\ e < d /\ v - e - 1 = w
      BY <1>1, <1>4, <1>5, <2>2
    <3> HIDE DEF e
    <3>2. e \notin below
      BY <1>3, <1>4, <3>1
    <3> QED
      BY <3>1, <3>2
  <2> QED
    BY <1>1, <1>5, <2>1, <2>2
<1>6. l \in Values /\ u \in Values /\ v < u
  BY <1>1, <1>4, IntervalFacts
<1> HIDE DEF l, above, below
<1>7. x \in Intervals /\ x.lower = l /\ x.upper = u
  BY <1>6, IntervalFacts
<1> HIDE DEF x
<1>8. x \in Blocks(P)
  BY <1>1, <1>4, <1>5, <1>6, <1>7, IntervalFacts DEF Blocks, IsInside
<1> QED
  BY <1>4, <1>6, <1>7, <1>8 DEF IsInside

(* The intervals of the list are the blocks of its numbers.                *)
LEMMA BlocksOfList ==
    ASSUME NEW P \in SUBSET Points, NEW s, Is(s, P)
    PROVE  Range(s) = Blocks(P)
<1>1. s \in Seq(Intervals) /\ \A v \in P : v \in Values
  BY IntervalFacts DEF Is, Apart, Points
<1>2. ASSUME NEW i \in DOMAIN s PROVE s[i] \in Blocks(P)
  <2> DEFINE x == s[i]
  <2>1. /\ x \in Intervals /\ x.lower < x.upper
        /\ \A v \in Values : IsInside(x, v) => v \in P
    BY <1>1, HoldsFacts DEF Is, Apart
  <2>2. ASSUME NEW v \in P, v = x.lower - 1 \/ v = x.upper
        PROVE  FALSE
    <3>1. Holds(s, v)
      BY <1>1 DEF Is
    <3>2. PICK j \in DOMAIN s : IsInside(s[j], v)
      BY <1>1, <3>1, HoldsFacts
    <3> DEFINE y == s[j]
    <3>3. /\ x.lower \in Nat /\ x.upper \in Nat /\ v \in Nat
          /\ y.lower \in Nat /\ y.upper \in Nat
          /\ y.lower <= v /\ v < y.upper /\ y.lower < y.upper
      BY <1>1, <2>1, <3>2, HoldsFacts, IntervalFacts DEF Is, Apart, IsInside
    <3>4. /\ j < i => y.upper < x.lower
          /\ i < j => x.upper < y.lower
          /\ i < j \/ j < i \/ x = y
      BY <1>1, HoldsFacts DEF Is, Apart
    <3> HIDE DEF x, y
    <3> QED
      BY <2>1, <2>2, <3>3, <3>4
  <2> QED
    BY <2>1, <2>2 DEF Blocks
<1>3. ASSUME NEW x \in Blocks(P) PROVE x \in Range(s)
  <2>1. /\ x \in Intervals /\ x.lower \in Values
        /\ IsInside(x, x.lower) /\ x.lower \in P
    BY IntervalFacts DEF Blocks, IsInside
  <2>2. PICK i \in DOMAIN s : IsInside(s[i], x.lower)
    BY <1>1, <2>1, HoldsFacts DEF Is
  <2>3. s[i] = x
    BY <1>2, <2>1, <2>2, BlocksMeet
  <2> QED
    BY <1>1, <2>3, HoldsFacts
<1> QED
  BY <1>1, <1>2, <1>3, HoldsFacts

(* Runs() lists the blocks.                                                *)
LEMMA RunsAreBlocks ==
    ASSUME NEW P \in SUBSET Points
    PROVE  Runs(P) = InOrder(Blocks(P))
<1> DEFINE EndOf(p) == CHOOSE q \in p..Top :
                          q \notin P /\ \A r \in p..(q - 1) : r \in P
           starts == {p \in P : p - 1 \notin P}
<1>1. \A v \in P : v \in Values /\ v \in Nat
  BY IntervalFacts DEF Points
<1>2. ASSUME NEW x \in Blocks(P), NEW p \in starts, IsInside(x, p)
      PROVE  Intvl(p, EndOf(p)) = x
  <2>1. /\ x \in Intervals /\ x.lower \in Nat /\ x.upper \in Nat
        /\ x.lower <= p /\ p < x.upper /\ p \in Nat /\ x.upper <= Top
        /\ Top \in Nat /\ x.upper \notin P
        /\ x = Intvl(x.lower, x.upper)
        /\ \A v \in Nat : x.lower <= v /\ v < x.upper => v \in P
    BY <1>1, <1>2, IntervalFacts DEF Blocks, IsInside
  <2>2. x.lower = p
    BY <1>2, <2>1
  <2>3. /\ x.upper \in p..Top
        /\ \A r \in p..(x.upper - 1) : r \in P
    BY <2>1, <2>2
  <2>4. ASSUME NEW q \in p..Top, q \notin P, \A r \in p..(q - 1) : r \in P
        PROVE  q = x.upper
    <3>1. ~(q < x.upper)
      BY <2>1, <2>2, <2>4
    <3>2. ~(x.upper < q)
      BY <2>1, <2>4
    <3> QED
      BY <2>1, <3>1, <3>2
  <2>5. EndOf(p) = x.upper
    BY <2>1, <2>3, <2>4
  <2> QED
    BY <2>1, <2>2, <2>5
<1>3. ASSUME NEW p \in starts PROVE Intvl(p, EndOf(p)) \in Blocks(P)
  <2>1. PICK x \in Blocks(P) : IsInside(x, p)
    BY BlockAt
  <2> HIDE DEF EndOf
  <2> QED
    BY <1>2, <2>1
<1>4. ASSUME NEW x \in Blocks(P)
      PROVE  \E p \in starts : x = Intvl(p, EndOf(p))
  <2>1. x.lower \in starts /\ IsInside(x, x.lower)
    BY IntervalFacts DEF Blocks, IsInside
  <2> HIDE DEF EndOf, starts
  <2> QED
    BY <1>2, <2>1
<1>5. {Intvl(p, EndOf(p)) : p \in starts} = Blocks(P)
  <2> HIDE DEF EndOf, starts
  <2> QED
    BY <1>3, <1>4
<1> QED
  BY <1>5 DEF Runs

(* It is a list for the numbers.                                           *)
LEMMA RunsIs ==
    ASSUME NEW P \in SUBSET Points
    PROVE  Is(Runs(P), P)
<1> DEFINE s == Runs(P)
<1>1. Blocks(P) \in SUBSET Intervals
  BY DEF Blocks
<1>2. /\ s \in Seq(Intervals) /\ Range(s) = Blocks(P)
      /\ \A i, j \in DOMAIN s : i < j => Before(s[i], s[j])
  BY <1>1, RunsAreBlocks, InOrderFacts
<1> HIDE DEF s
<1>3. \A i \in DOMAIN s : s[i] \in Blocks(P)
  BY <1>2, HoldsFacts
<1>4. ASSUME NEW i \in DOMAIN s, NEW j \in DOMAIN s, i < j
      PROVE  s[i].upper < s[j].lower
  <2> DEFINE x == s[i]
             y == s[j]
  <2>1. /\ x \in Blocks(P) /\ y \in Blocks(P) /\ Before(x, y)
        /\ x \in Intervals /\ y \in Intervals
    BY <1>2, <1>3, <1>4 DEF Blocks
  <2> HIDE DEF x, y
  <2>2. /\ x.lower \in Nat /\ x.upper \in Nat /\ x.lower < x.upper
        /\ y.lower \in Nat /\ y.upper \in Nat /\ y.lower < y.upper
        /\ y.lower \in Values /\ y.lower \in P /\ x.upper \notin P
        /\ x.lower <= y.lower
    BY <2>1, IntervalFacts DEF Blocks, IsInside, Before
  <2>3. ~(y.lower < x.upper)
    <3>1. ASSUME y.lower < x.upper PROVE FALSE
      <4>1. IsInside(x, y.lower) /\ IsInside(y, y.lower)
        BY <2>2, <3>1 DEF IsInside
      <4>2. x = y
        BY <2>1, <2>2, <4>1, BlocksMeet
      <4> QED
        BY <2>1, <4>2, BeforeFacts
    <3> QED
      BY <3>1
  <2>4. x.upper < y.lower
    BY <2>2, <2>3
  <2> QED
    BY <2>4 DEF x, y
<1>5. Apart(s)
  BY <1>2, <1>3, <1>4 DEF Apart, Blocks
<1>6. ASSUME NEW v \in Values PROVE Holds(s, v) <=> v \in P
  <2>1. Holds(s, v) <=> \E x \in Blocks(P) : IsInside(x, v)
    BY <1>2, HoldsFacts
  <2> QED
    BY <2>1, BlockAt DEF Blocks
<1> QED
  BY <1>5, <1>6 DEF Is, s

(* There is no other.                                                      *)
LEMMA OnlyRuns ==
    ASSUME NEW P \in SUBSET Points, NEW s, Is(s, P)
    PROVE  s = Runs(P)
<1>1. s \in Seq(Intervals)
  BY DEF Is, Apart
<1>2. ASSUME NEW i \in DOMAIN s, NEW j \in DOMAIN s, i < j
      PROVE  Before(s[i], s[j])
  <2>1. /\ s[i].lower < s[i].upper /\ s[i].upper < s[j].lower
        /\ s[i] \in Intervals /\ s[j] \in Intervals
    BY <1>1, <1>2, HoldsFacts DEF Is, Apart
  <2> QED
    BY <2>1, IntervalFacts DEF Before
<1>3. s = InOrder(Range(s))
  BY <1>1, <1>2, InOrderUnique
<1> QED
  BY <1>3, BlocksOfList, RunsAreBlocks

-----------------------------------------------------------------------------
(* The loops of normalize() and operator~ are recursive functions, which   *)
(* exist: there is no first turn without one.                              *)

(* The loop of normalize().                                                *)
LEMMA MergedTurns ==
    ASSUME NEW list \in Seq(Intervals)
    PROVE  /\ Merged(list)[0] = <<>>
           /\ \A i \in 1..Len(list) :
                 Merged(list)[i] = Merge(Merged(list)[i - 1], list[i])
<1> DEFINE n == Len(list)
           start == <<>>
           Solves(f, m) == f = [i \in 0..m |->
                                 IF i = 0 THEN start
                                 ELSE Merge(f[i - 1], list[i])]
           Missing == {m \in Nat : ~ \E f : Solves(f, m)}
<1>0. n \in Nat
  OBVIOUS
<1>1. Missing = {}
  <2> SUFFICES ASSUME Missing # {} PROVE FALSE
    OBVIOUS
  <2>1. PICK m \in Missing : \A k \in Missing : m <= k
    <3> HIDE DEF Missing
    <3>1. Missing \in SUBSET Nat
      BY DEF Missing
    <3> QED
      BY <3>1, LeastOf
  <2>2. CASE m = 0
    <3>1. Solves([i \in {0} |-> start], 0)
      <4>1. 0..0 = {0}
        OBVIOUS
      <4> QED
        BY <4>1
    <3> HIDE DEF Solves
    <3> QED
      BY <2>2, <3>1
  <2>3. CASE m # 0
    <3>1. m - 1 \in Nat /\ m - 1 \notin Missing
      <4> HIDE DEF Solves
      <4> QED
        BY <2>1, <2>3
    <3>2. PICK f : Solves(f, m - 1)
      <4> HIDE DEF Solves
      <4> QED
        BY <3>1
    <3> DEFINE g == [i \in 0..m |-> IF i = m
                                    THEN Merge(f[m - 1], list[m]) ELSE f[i]]
               h == [i \in 0..m |-> IF i = 0 THEN start
                                    ELSE Merge(g[i - 1], list[i])]
    <3>3. \A i \in 0..(m-1) :
             f[i] = IF i = 0 THEN start ELSE Merge(f[i - 1], list[i])
      BY <3>2
    <3>4. ASSUME NEW i \in 0..m
          PROVE  g[i] = h[i]
      <4>1. CASE i = m
        <5>1. g[i] = Merge(f[m - 1], list[m]) /\ g[m - 1] = f[m - 1]
          BY <2>3, <4>1
        <5> QED
          BY <2>3, <4>1, <5>1
      <4>2. CASE i # m
        <5>1. /\ g[i] = f[i] /\ (i # 0 => g[i - 1] = f[i - 1])
              /\ i \in 0..(m - 1)
          BY <4>2
        <5> HIDE DEF g
        <5> QED
          BY <5>1, <3>3
      <4> QED
        BY <4>1, <4>2
    <3>5. /\ g = [i \in DOMAIN g |-> g[i]] /\ DOMAIN g = 0..m
          /\ h = [i \in DOMAIN h |-> h[i]] /\ DOMAIN h = 0..m
      OBVIOUS
    <3> HIDE DEF g, h
    <3>6. g = h
      BY <3>4, <3>5
    <3>7. Solves(g, m)
      BY <3>6 DEF h
    <3> HIDE DEF Solves
    <3> QED
      BY <3>7
  <2> QED
    BY <2>2, <2>3
<1>2. \E f : Solves(f, n)
  BY <1>0, <1>1
<1>3. Merged(list) = CHOOSE f : Solves(f, n)
  BY DEF Merged
<1>4. Solves(Merged(list), n)
  <2> HIDE DEF Solves
  <2> QED
    BY <1>2, <1>3
<1> QED
  BY <1>0, <1>4

(* The loop of operator~.                                                  *)
LEMMA GapsTurns ==
    ASSUME NEW s \in Seq(Intervals)
    PROVE  /\ Gaps(s)[0] = [from |-> 0, list |-> <<>>]
           /\ \A i \in 1..Len(s) :
                 Gaps(s)[i] = Gap(Gaps(s)[i - 1], s[i])
<1> DEFINE n == Len(s)
           start == [from |-> 0, list |-> <<>>]
           Solves(f, m) == f = [i \in 0..m |->
                                 IF i = 0 THEN start
                                 ELSE Gap(f[i - 1], s[i])]
           Missing == {m \in Nat : ~ \E f : Solves(f, m)}
<1>0. n \in Nat
  OBVIOUS
<1>1. Missing = {}
  <2> SUFFICES ASSUME Missing # {} PROVE FALSE
    OBVIOUS
  <2>1. PICK m \in Missing : \A k \in Missing : m <= k
    <3> HIDE DEF Missing
    <3>1. Missing \in SUBSET Nat
      BY DEF Missing
    <3> QED
      BY <3>1, LeastOf
  <2>2. CASE m = 0
    <3>1. Solves([i \in {0} |-> start], 0)
      <4>1. 0..0 = {0}
        OBVIOUS
      <4> QED
        BY <4>1
    <3> HIDE DEF Solves
    <3> QED
      BY <2>2, <3>1
  <2>3. CASE m # 0
    <3>1. m - 1 \in Nat /\ m - 1 \notin Missing
      <4> HIDE DEF Solves
      <4> QED
        BY <2>1, <2>3
    <3>2. PICK f : Solves(f, m - 1)
      <4> HIDE DEF Solves
      <4> QED
        BY <3>1
    <3> DEFINE g == [i \in 0..m |-> IF i = m
                                    THEN Gap(f[m - 1], s[m]) ELSE f[i]]
               h == [i \in 0..m |-> IF i = 0 THEN start
                                    ELSE Gap(g[i - 1], s[i])]
    <3>3. \A i \in 0..(m-1) :
             f[i] = IF i = 0 THEN start ELSE Gap(f[i - 1], s[i])
      BY <3>2
    <3>4. ASSUME NEW i \in 0..m
          PROVE  g[i] = h[i]
      <4>1. CASE i = m
        <5>1. g[i] = Gap(f[m - 1], s[m]) /\ g[m - 1] = f[m - 1]
          BY <2>3, <4>1
        <5> QED
          BY <2>3, <4>1, <5>1
      <4>2. CASE i # m
        <5>1. /\ g[i] = f[i] /\ (i # 0 => g[i - 1] = f[i - 1])
              /\ i \in 0..(m - 1)
          BY <4>2
        <5> HIDE DEF g
        <5> QED
          BY <5>1, <3>3
      <4> QED
        BY <4>1, <4>2
    <3>5. /\ g = [i \in DOMAIN g |-> g[i]] /\ DOMAIN g = 0..m
          /\ h = [i \in DOMAIN h |-> h[i]] /\ DOMAIN h = 0..m
      OBVIOUS
    <3> HIDE DEF g, h
    <3>6. g = h
      BY <3>4, <3>5
    <3>7. Solves(g, m)
      BY <3>6 DEF h
    <3> HIDE DEF Solves
    <3> QED
      BY <3>7
  <2> QED
    BY <2>2, <2>3
<1>2. \E f : Solves(f, n)
  BY <1>0, <1>1
<1>3. Gaps(s) = CHOOSE f : Solves(f, n)
  BY DEF Gaps
<1>4. Solves(Gaps(s), n)
  <2> HIDE DEF Solves
  <2> QED
    BY <1>2, <1>3
<1> QED
  BY <1>0, <1>4

-----------------------------------------------------------------------------
(* normalize().                                                            *)

(* An interval that lies behind a list goes to its end.                    *)
LEMMA BehindFacts ==
    ASSUME NEW f, Apart(f), NEW x \in Intervals, x.lower < x.upper,
           \A i \in DOMAIN f : f[i].upper < x.lower
    PROVE  LET g == Append(f, x)
           IN /\ Apart(g) /\ g # <<>> /\ g[Len(g)] = x
              /\ DOMAIN g = 1..(Len(f) + 1) /\ g[Len(f) + 1] = x
              /\ \A i \in DOMAIN f : g[i] = f[i]
              /\ \A v \in Values :
                    Holds(g, v) <=> Holds(f, v) \/ IsInside(x, v)
<1> DEFINE n == Len(f)
           g == Append(f, x)
<1>1. /\ f \in Seq(Intervals) /\ n \in Nat /\ DOMAIN f = 1..n
      /\ \A v : Holds(f, v) <=> \E i \in 1..n : IsInside(f[i], v)
      /\ \A i \in 1..n : f[i].lower < f[i].upper
      /\ \A i, j \in 1..n : i < j => f[i].upper < f[j].lower
  <2>1. f \in Seq(Intervals) /\ n \in Nat /\ DOMAIN f = 1..n
    BY DEF Apart
  <2> QED
    BY <2>1, HoldsFacts DEF Apart
<1>2. /\ g \in Seq(Intervals) /\ Len(g) = n + 1 /\ DOMAIN g = 1..(n + 1)
      /\ g[n + 1] = x /\ \A i \in 1..n : g[i] = f[i]
      /\ g # <<>>
  BY <1>1
<1> HIDE DEF n, g
<1>3. Apart(g)
  <2>1. ASSUME NEW i \in 1..(n + 1) PROVE g[i].lower < g[i].upper
    BY <1>1, <1>2
  <2>2. ASSUME NEW i \in 1..(n + 1), NEW j \in 1..(n + 1), i < j
        PROVE  g[i].upper < g[j].lower
    <3>1. i \in 1..n
      BY <1>1, <2>2
    <3>2. CASE j = n + 1
      BY <1>1, <1>2, <3>1, <3>2
    <3>3. CASE j \in 1..n
      BY <1>1, <1>2, <2>2, <3>1, <3>3
    <3> QED
      BY <1>1, <3>2, <3>3
  <2> QED
    BY <1>2, <2>1, <2>2 DEF Apart
<1>4. ASSUME NEW v \in Values
      PROVE  Holds(g, v) <=> Holds(f, v) \/ IsInside(x, v)
  <2>1. \A i : i \in 1..(n + 1) <=> i \in 1..n \/ i = n + 1
    BY <1>1
  <2>2. Holds(g, v) <=> \E i \in 1..(n + 1) : IsInside(g[i], v)
    BY <1>2, HoldsFacts
  <2> QED
    BY <1>1, <1>2, <2>1, <2>2
<1> QED
  BY <1>1, <1>2, <1>3, <1>4 DEF n, g

(* One turn: the next interval goes into the last of the list, or behind   *)
(* it.                                                                     *)
LEMMA MergeFacts ==
    ASSUME NEW f, Apart(f), NEW x \in Intervals, x.lower < x.upper,
           f # <<>> => f[Len(f)].lower <= x.lower
    PROVE  LET g == Merge(f, x)
           IN /\ Apart(g) /\ g # <<>> /\ g[Len(g)].lower <= x.lower
              /\ \A v \in Values :
                    Holds(g, v) <=> Holds(f, v) \/ IsInside(x, v)
<1> DEFINE n == Len(f)
           l == f[n]
<1>1. /\ f \in Seq(Intervals) /\ n \in Nat /\ DOMAIN f = 1..n
      /\ \A v : Holds(f, v) <=> \E i \in 1..n : IsInside(f[i], v)
      /\ l = f[n] /\ Last(f) = l
      /\ f # <<>> => n \in 1..n /\ l.lower <= x.lower
      /\ \A i \in 1..n : f[i] \in Intervals /\ f[i].lower < f[i].upper
                         /\ f[i].lower \in Nat /\ f[i].upper \in Nat
      /\ \A i, j \in 1..n : i < j => f[i].upper < f[j].lower
  <2>1. f \in Seq(Intervals) /\ n \in Nat /\ DOMAIN f = 1..n
    BY DEF Apart
  <2>2. f # <<>> => n \in 1..n
    BY <2>1
  <2>3. \A v : Holds(f, v) <=> \E i \in 1..n : IsInside(f[i], v)
    BY <2>1, HoldsFacts
  <2>4. \A i \in 1..n : f[i] \in Intervals /\ f[i].lower < f[i].upper
                         /\ f[i].lower \in Nat /\ f[i].upper \in Nat
    BY <2>1, IntervalFacts DEF Apart
  <2> QED
    BY <2>1, <2>2, <2>3, <2>4 DEF Apart, Last
<1> HIDE DEF n, l
<1>2. x.lower \in Nat /\ x.upper \in Nat /\ x.lower \in Values
      /\ x.upper \in Values
  BY IntervalFacts
<1>3. CASE f # <<>> /\ IsOverlapOrAdjacent(l, x)
  <2> DEFINE y == Intvl(Least(l.lower, x.lower), Greatest(l.upper, x.upper))
             g == [f EXCEPT ![n] = y]
  <2>1. n \in DOMAIN f /\ l \in Intervals /\ l.lower < l.upper
        /\ l.lower \in Nat /\ l.upper \in Nat
        /\ l.lower \in Values /\ l.upper \in Values
        /\ l.lower <= x.lower
    BY <1>1, <1>3, IntervalFacts
  <2>2. Least(l.lower, x.lower) = l.lower
    BY <1>2, <2>1 DEF Least
  <2>3. Greatest(l.upper, x.upper) \in {l.upper, x.upper}
        /\ l.upper <= Greatest(l.upper, x.upper)
        /\ x.upper <= Greatest(l.upper, x.upper)
    BY <1>2, <2>1 DEF Greatest
  <2>4. /\ y \in Intervals /\ y.lower = l.lower
        /\ y.upper \in {l.upper, x.upper}
        /\ l.upper <= y.upper /\ x.upper <= y.upper
    BY <1>2, <2>1, <2>2, <2>3, IntervalFacts
  <2>5. Merge(f, x) = g
    <3>1. Merge(f, x) = [f EXCEPT ![Len(f)] =
             Intvl(Least(@.lower, x.lower), Greatest(@.upper, x.upper))]
      BY <1>1, <1>3 DEF Merge
    <3> QED
      BY <1>1, <2>1, <3>1 DEF n
  <2> HIDE DEF y
  <2>6. /\ g \in Seq(Intervals) /\ Len(g) = n /\ DOMAIN g = 1..n
        /\ g[n] = y /\ \A i \in 1..n : i # n => g[i] = f[i]
    <3>1. Len(g) = n
      BY <1>1 DEF n
    <3> QED
      BY <1>1, <2>1, <2>4, <3>1
  <2> HIDE DEF g
  <2>7. Apart(g)
    <3>1. ASSUME NEW i \in 1..n PROVE g[i].lower < g[i].upper
      BY <1>1, <1>2, <2>1, <2>4, <2>6
    <3>2. ASSUME NEW i \in 1..n, NEW j \in 1..n, i < j
          PROVE  g[i].upper < g[j].lower
      <4>1. CASE i = n
        BY <1>1, <3>2, <4>1
      <4>2. CASE i # n /\ j = n
        BY <1>1, <2>1, <2>4, <2>6, <3>2, <4>2
      <4>3. CASE i # n /\ j # n
        BY <1>1, <2>6, <3>2, <4>3
      <4> QED
        BY <4>1, <4>2, <4>3
    <3> QED
      BY <2>6, <3>1, <3>2 DEF Apart
  <2>8. ASSUME NEW v \in Values
        PROVE  IsInside(y, v) <=> IsInside(l, v) \/ IsInside(x, v)
    BY <1>2, <1>3, <2>1, <2>4, IntervalFacts
    DEF IsInside, IsOverlapOrAdjacent
  <2>9. ASSUME NEW v \in Values
        PROVE  Holds(g, v) <=> Holds(f, v) \/ IsInside(x, v)
    <3>1. Holds(g, v) <=> \E i \in 1..n : IsInside(g[i], v)
      BY <2>6, HoldsFacts
    <3>2. n \in 1..n
      BY <1>1, <2>1
    <3> QED
      BY <1>1, <2>6, <2>8, <3>1, <3>2
  <2>10. g # <<>> /\ g[Len(g)].lower <= x.lower
    BY <2>1, <2>4, <2>6
  <2> QED
    BY <2>5, <2>7, <2>9, <2>10
<1>4. CASE ~(f # <<>> /\ IsOverlapOrAdjacent(l, x))
  <2> DEFINE g == Append(f, x)
  <2>1. Merge(f, x) = g
    BY <1>1, <1>4 DEF Merge
  <2> HIDE DEF g
  <2>3. ASSUME NEW i \in 1..n PROVE f[i].upper < x.lower
    <3>1. /\ n \in DOMAIN f /\ l \in Intervals /\ f[i] \in Intervals
          /\ f # <<>>
      BY <1>1 DEF n
    <3>2. /\ l.lower \in Nat /\ l.upper \in Nat /\ l.lower < l.upper
          /\ f[i].upper \in Nat
      BY <1>1, <3>1
    <3>3. l.lower <= x.lower /\ ~IsOverlapOrAdjacent(l, x)
      BY <1>1, <1>4, <3>1
    <3>4. l.upper < x.lower
      BY <1>2, <3>2, <3>3 DEF IsOverlapOrAdjacent
    <3>5. i = n \/ f[i].upper < l.lower
      BY <1>1, <3>1
    <3> QED
      BY <1>1, <1>2, <3>2, <3>4, <3>5
  <2>4. /\ Apart(g) /\ g # <<>> /\ g[Len(g)] = x
        /\ \A v \in Values :
              Holds(g, v) <=> Holds(f, v) \/ IsInside(x, v)
    BY <1>1, <2>3, BehindFacts DEF g
  <2> QED
    BY <1>2, <2>1, <2>4
<1> QED
  BY <1>3, <1>4

(* After the loop the list holds what the intervals hold.                  *)
LEMMA NormalizeIs ==
    ASSUME NEW S \in SUBSET Intervals, NEW P,
           \A v \in Values : v \in P <=> \E x \in S : IsInside(x, v)
    PROVE  Is(Normalize(S), P)
<1> DEFINE list == InOrder(Added(S))
           n == Len(list)
           f == Merged(list)
           Good(i) ==
             /\ Apart(f[i])
             /\ i > 0 => f[i] # <<>> /\ f[i][Len(f[i])].lower <= list[i].lower
             /\ i = 0 => f[i] = <<>>
             /\ \A v \in Values : Holds(f[i], v) <=>
                   \E h \in 1..i : IsInside(list[h], v)
<1>1. Added(S) \in SUBSET Intervals
  BY DEF Added
<1>2. /\ list \in Seq(Intervals) /\ Range(list) = Added(S)
      /\ \A i, j \in DOMAIN list : i < j => Before(list[i], list[j])
  BY <1>1, InOrderFacts
<1>3. Normalize(S) = f[n]
  BY DEF Normalize
<1>4. /\ f[0] = <<>>
      /\ \A i \in 1..n : f[i] = Merge(f[i - 1], list[i])
  BY <1>2, MergedTurns
<1> HIDE DEF list, f
<1>5. /\ n \in Nat /\ DOMAIN list = 1..n
      /\ \A i \in 1..n : /\ list[i] \in Intervals
                         /\ list[i].lower < list[i].upper
                         /\ list[i].lower \in Nat
                         /\ list[i].upper \in Nat
  <2>1. ASSUME NEW i \in 1..n
        PROVE  list[i] \in Intervals /\ list[i].lower < list[i].upper
    <3>1. list[i] \in Intervals /\ list[i] \in Added(S)
      BY <1>2, HoldsFacts
    <3>2. list[i].lower \in Nat /\ list[i].upper \in Nat
      BY <3>1, IntervalFacts
    <3> QED
      BY <3>1, <3>2 DEF Added, IsEmptyInterval
  <2> QED
    BY <1>2, <2>1, IntervalFacts
<1>6. Good(0)
  <2>1. Apart(<<>>) /\ \A v : ~Holds(<<>>, v)
    BY DEF Apart, Holds
  <2> QED
    BY <1>4, <2>1
<1>7. ASSUME NEW i \in 1..n, Good(i - 1) PROVE Good(i)
  <2>1. /\ i \in Nat /\ i - 1 \in Nat /\ f[i] = Merge(f[i - 1], list[i])
        /\ list[i] \in Intervals /\ list[i].lower < list[i].upper
    BY <1>4, <1>5
  <2>2. f[i - 1] # <<>> => f[i - 1][Len(f[i - 1])].lower <= list[i].lower
    <3>1. CASE i - 1 = 0
      BY <1>7, <3>1
    <3>2. CASE i - 1 > 0
      <4>1. i - 1 \in 1..n /\ i - 1 < i
        BY <1>5, <3>2
      <4>2. list[i - 1].lower <= list[i].lower
        BY <1>2, <1>5, <4>1 DEF Before
      <4>3. /\ f[i - 1] # <<>> /\ Apart(f[i - 1])
            /\ f[i - 1][Len(f[i - 1])].lower <= list[i - 1].lower
        BY <1>7, <3>2
      <4>4. f[i - 1][Len(f[i - 1])] \in Intervals
        BY <4>3 DEF Apart
      <4>5. f[i - 1][Len(f[i - 1])].lower \in Nat
        BY <4>4, IntervalFacts
      <4> QED
        BY <1>5, <4>1, <4>2, <4>3, <4>5
    <3> QED
      BY <2>1, <3>1, <3>2
  <2>3. /\ Apart(f[i]) /\ f[i] # <<>> /\ f[i][Len(f[i])].lower <= list[i].lower
        /\ \A v \in Values : Holds(f[i], v) <=>
              Holds(f[i - 1], v) \/ IsInside(list[i], v)
    BY <1>7, <2>1, <2>2, MergeFacts
  <2>4. \A h : h \in 1..i <=> h \in 1..(i - 1) \/ h = i
    BY <2>1
  <2>5. \A v \in Values : Holds(f[i], v) <=>
              \E h \in 1..i : IsInside(list[h], v)
    BY <1>7, <2>3, <2>4
  <2> QED
    BY <2>1, <2>3, <2>5
<1>8. Good(n)
  <2> DEFINE Bad == {i \in 0..n : ~Good(i)}
  <2> SUFFICES ASSUME Bad # {} PROVE FALSE
    BY <1>5
  <2> HIDE DEF Good
  <2>1. Bad \in SUBSET Nat
    BY <1>5
  <2> HIDE DEF Bad
  <2>2. PICK m \in Bad : \A k \in Bad : m <= k
    BY <2>1, LeastOf
  <2>3. m \in 0..n /\ ~Good(m)
    BY <2>2 DEF Bad
  <2>4. m \in 1..n
    BY <1>6, <2>3
  <2>5. m - 1 \notin Bad
    BY <1>5, <2>2, <2>4
  <2>6. Good(m - 1)
    BY <1>5, <2>4, <2>5 DEF Bad
  <2> QED
    BY <1>7, <2>3, <2>4, <2>6
<1>9. ASSUME NEW v \in Values
      PROVE  (\E h \in 1..n : IsInside(list[h], v)) <=> v \in P
  <2>1. (\E h \in 1..n : IsInside(list[h], v))
           <=> \E x \in Added(S) : IsInside(x, v)
    BY <1>2, <1>5 DEF Range
  <2>2. \A x \in Intervals : IsInside(x, v) => ~IsEmptyInterval(x)
    BY IntervalFacts DEF IsInside, IsEmptyInterval
  <2> QED
    BY <2>1, <2>2 DEF Added
<1> QED
  BY <1>3, <1>8, <1>9 DEF Is

-----------------------------------------------------------------------------
(* The operations.                                                         *)

(* What a list for the numbers P is.                                       *)
LEMMA IsFacts ==
    ASSUME NEW s, NEW P, Is(s, P)
    PROVE  /\ s \in Seq(Intervals) /\ Len(s) \in Nat /\ DOMAIN s = 1..Len(s)
           /\ \A x \in Range(s) : x \in Intervals /\ x.lower < x.upper
           /\ \A i \in DOMAIN s :
                 /\ s[i] \in Intervals /\ s[i] \in Range(s)
                 /\ s[i].lower \in Nat /\ s[i].upper \in Nat
                 /\ s[i].lower < s[i].upper
           /\ \A i, j \in DOMAIN s : i < j => s[i].upper < s[j].lower
           /\ \A v \in Values : v \in P <=> \E x \in Range(s) : IsInside(x, v)
           /\ \A v \in Values :
                 v \in P <=> \E i \in DOMAIN s : IsInside(s[i], v)
<1>1. s \in Seq(Intervals)
  BY DEF Is, Apart
<1>2. \A i \in DOMAIN s : s[i] \in Intervals /\ s[i] \in Range(s)
  BY <1>1, HoldsFacts
<1> QED
  BY <1>1, <1>2, HoldsFacts, IntervalFacts DEF Is, Apart

(* The empty list holds nothing.                                           *)
LEMMA EmptyIs == Is(<<>>, {})
  BY DEF Is, Apart, Holds

(* operator|= with a set.                                                  *)
LEMMA UnionIs ==
    ASSUME NEW s, NEW t, NEW P, NEW Q, Is(s, P), Is(t, Q)
    PROVE  Is(Union2(s, t), P \cup Q)
<1>1. Added(Range(t)) = Range(t)
  BY IsFacts, IntervalFacts DEF Added, IsEmptyInterval
<1>2. CASE Range(t) = {}
  <2>1. \A v \in Values : v \notin Q
    BY <1>2, IsFacts
  <2> QED
    BY <1>1, <1>2, <2>1 DEF Union2, Is
<1>3. CASE Range(t) # {}
  <2>1. /\ Range(s) \cup Range(t) \in SUBSET Intervals
        /\ \A v \in Values : v \in P \cup Q <=>
              \E x \in Range(s) \cup Range(t) : IsInside(x, v)
    BY IsFacts
  <2>2. Is(Normalize(Range(s) \cup Range(t)), P \cup Q)
    BY <2>1, NormalizeIs
  <2> QED
    BY <1>1, <1>3, <2>2 DEF Union2
<1> QED
  BY <1>2, <1>3

(* operator&= with a set: the inner loop does not end too early.           *)
LEMMA IntersectionIs ==
    ASSUME NEW s, NEW t, NEW P, NEW Q, Is(s, P), Is(t, Q)
    PROVE  Is(Intersection(s, t), P \cap Q)
<1> DEFINE Common(x, y) ==
             Intvl(Greatest(x.lower, y.lower), Least(x.upper, y.upper))
           Met(x) == {z \in Reached(s, x) : IsOverlapOrAdjacent(z, x)}
           S == UNION {{Common(x, y) : y \in Met(x)} : x \in Range(t)}
<1>1. ASSUME NEW x \in Intervals, NEW y \in Intervals
      PROVE  /\ Common(x, y) \in Intervals
             /\ \A v \in Values : IsInside(Common(x, y), v) <=>
                                    IsInside(x, v) /\ IsInside(y, v)
  <2> DEFINE l == Greatest(x.lower, y.lower)
             u == Least(x.upper, y.upper)
  <2>1. /\ x.lower \in Nat /\ x.upper \in Nat
        /\ y.lower \in Nat /\ y.upper \in Nat
    BY IntervalFacts
  <2>2. /\ l \in {x.lower, y.lower} /\ x.lower <= l /\ y.lower <= l
        /\ u \in {x.upper, y.upper} /\ u <= x.upper /\ u <= y.upper
    BY <2>1 DEF Greatest, Least
  <2>3. l \in Values /\ u \in Values
    BY <2>2, IntervalFacts
  <2> HIDE DEF l, u
  <2>4. Intvl(l, u) \in Intervals /\ Intvl(l, u).lower = l
        /\ Intvl(l, u).upper = u
    BY <2>3, IntervalFacts
  <2>5. \A v \in Values : IsInside(Intvl(l, u), v) <=>
                            IsInside(x, v) /\ IsInside(y, v)
    BY <2>1, <2>2, <2>4, IntervalFacts DEF IsInside
  <2> QED
    BY <2>4, <2>5 DEF l, u
<1> HIDE DEF Common
<1>2. \A x : Reached(s, x) \in SUBSET Range(s)
  BY IsFacts DEF Reached
<1>3. S \in SUBSET Intervals
  BY <1>1, <1>2, IsFacts
<1>4. ASSUME NEW v \in Values
      PROVE  v \in P \cap Q <=> \E z \in S : IsInside(z, v)
  <2>1. ASSUME v \in P \cap Q PROVE \E z \in S : IsInside(z, v)
    <3>1. PICK x \in Range(t) : IsInside(x, v)
      BY <2>1, IsFacts
    <3>2. PICK i \in DOMAIN s : IsInside(s[i], v)
      BY <2>1, IsFacts
    <3>3. /\ x \in Intervals /\ x.lower \in Nat /\ x.upper \in Nat
          /\ s[i] \in Intervals /\ v \in Nat /\ i \in 1..Len(s)
          /\ Len(s) \in Nat /\ DOMAIN s = 1..Len(s)
      BY IsFacts, IntervalFacts
    <3>4. ASSUME NEW k \in 1..i PROVE s[k].lower < x.upper
      <4>1. k \in DOMAIN s /\ (k < i \/ k = i)
        BY <3>3
      <4>2. /\ s[k].lower \in Nat /\ s[k].upper \in Nat /\ s[i].lower \in Nat
            /\ s[k].lower < s[k].upper
            /\ k < i => s[k].upper < s[i].lower
        BY <4>1, IsFacts
      <4>3. s[i].lower <= v /\ v < x.upper
        BY <3>1, <3>2 DEF IsInside
      <4> QED
        BY <3>3, <4>1, <4>2, <4>3
    <3>5. s[i] \in Reached(s, x)
      BY <3>3, <3>4 DEF Reached
    <3>6. IsOverlapOrAdjacent(s[i], x)
      BY <3>1, <3>2, <3>3, IsFacts DEF IsInside, IsOverlapOrAdjacent
    <3>7. Common(x, s[i]) \in S
      BY <3>5, <3>6
    <3> QED
      BY <1>1, <3>1, <3>2, <3>3, <3>7
  <2>2. ASSUME NEW z \in S, IsInside(z, v) PROVE v \in P \cap Q
    <3>1. PICK x \in Range(t), y \in Range(s) : z = Common(x, y)
      BY <1>2
    <3>2. IsInside(x, v) /\ IsInside(y, v)
      BY <1>1, <2>2, <3>1, IsFacts
    <3> QED
      BY <3>1, <3>2, IsFacts
  <2> QED
    BY <2>1, <2>2
<1> HIDE DEF S
<1>5. Is(Normalize(S), P \cap Q)
  BY <1>3, <1>4, NormalizeIs
<1> QED
  BY <1>5 DEF Intersection, S, Met, Common

(* operator~: after i turns the list holds the numbers below the end of    *)
(* the last interval that none of them holds.                              *)
LEMMA ComplementIs ==
    ASSUME NEW s, NEW P, Is(s, P)
    PROVE  Is(Complement(s), Points \ P)
<1> DEFINE n == Len(s)
           f == Gaps(s)
           Good(i) ==
             /\ f[i] = [from |-> f[i].from, list |-> f[i].list]
             /\ Apart(f[i].list) /\ f[i].from \in Nat
             /\ f[i].from = IF i = 0 THEN 0 ELSE s[i].upper
             /\ \A j \in DOMAIN f[i].list : f[i].list[j].upper < f[i].from
             /\ \A v \in Values : Holds(f[i].list, v) <=>
                   v < f[i].from /\ \A h \in 1..i : ~IsInside(s[h], v)
<1>1. /\ s \in Seq(Intervals) /\ n \in Nat /\ DOMAIN s = 1..n
      /\ \A i \in 1..n :
            /\ s[i] \in Intervals /\ s[i].lower < s[i].upper
            /\ s[i].lower \in Nat /\ s[i].upper \in Nat
            /\ s[i].upper <= Top
            /\ s[i].lower \in Values /\ s[i].upper \in Values
      /\ \A i, j \in 1..n : i < j => s[i].upper < s[j].lower
      /\ Top \in Nat /\ Top >= 1
  BY IsFacts, IntervalFacts
<1>2. /\ f[0] = [from |-> 0, list |-> <<>>]
      /\ \A i \in 1..n : f[i] = Gap(f[i - 1], s[i])
  BY <1>1, GapsTurns
<1> HIDE DEF n, f
<1>3. Good(0)
  <2>1. /\ Apart(<<>>) /\ DOMAIN <<>> = {} /\ \A v : ~Holds(<<>>, v)
    BY DEF Apart, Holds
  <2>2. \A v \in Values : ~(v < 0)
    BY IntervalFacts
  <2>3. f[0].from = 0 /\ f[0].list = <<>>
    BY <1>2
  <2> QED
    BY <1>2, <2>1, <2>2, <2>3
<1>4. ASSUME NEW i \in 1..n, Good(i - 1) PROVE Good(i)
  <2> DEFINE from == f[i - 1].from
             list == f[i - 1].list
             x == s[i]
             g == f[i].list
  <2>1. /\ i \in Nat /\ i - 1 \in Nat /\ from \in Nat /\ Apart(list)
        /\ x \in Intervals /\ x.lower < x.upper
        /\ x.lower \in Nat /\ x.upper \in Nat
        /\ x.lower \in Values /\ x.upper \in Values
        /\ \A j \in DOMAIN list : list[j].upper < from
        /\ \A v \in Values : Holds(list, v) <=>
              v < from /\ \A h \in 1..(i - 1) : ~IsInside(s[h], v)
    <3>1. i \in Nat /\ i - 1 \in Nat
      BY <1>1
    <3>2. /\ x \in Intervals /\ x.lower < x.upper
          /\ x.lower \in Nat /\ x.upper \in Nat
          /\ x.lower \in Values /\ x.upper \in Values
      BY <1>1
    <3>3. /\ from \in Nat /\ Apart(list)
          /\ \A j \in DOMAIN list : list[j].upper < from
          /\ \A v \in Values : Holds(list, v) <=>
                v < from /\ \A h \in 1..(i - 1) : ~IsInside(s[h], v)
      BY <1>4
    <3> QED
      BY <3>1, <3>2, <3>3
  <2>2. from <= x.lower /\ \A h \in 1..(i - 1) : s[h].upper <= from
    <3>1. CASE i = 1
      BY <1>4, <2>1, <3>1
    <3>2. CASE i > 1
      <4>1. i - 1 \in 1..n /\ i - 1 < i /\ from = s[i - 1].upper
        BY <1>1, <1>4, <2>1, <3>2
      <4>2. from < x.lower
        BY <1>1, <4>1
      <4>3. ASSUME NEW h \in 1..(i - 1) PROVE s[h].upper <= from
        <5>1. h \in 1..n /\ (h = i - 1 \/ h < i - 1)
          BY <1>1, <2>1
        <5> QED
          BY <1>1, <4>1, <5>1
      <4> QED
        BY <1>1, <2>1, <4>2, <4>3
    <3> QED
      BY <2>1, <3>1, <3>2
  <2>3. Greatest(from, x.upper) = x.upper
    BY <2>1, <2>2 DEF Greatest
  <2>4. f[i] = [from |-> x.upper,
                list |-> IF from < x.lower
                         THEN Append(list, Intvl(from, x.lower)) ELSE list]
    BY <1>2, <2>3 DEF Gap
  <2>5. \A h : h \in 1..i <=> h \in 1..(i - 1) \/ h = i
    BY <2>1
  <2> HIDE DEF from, list, x
  <2>6. /\ Apart(g) /\ \A j \in DOMAIN g : g[j].upper < x.upper
        /\ \A v \in Values : Holds(g, v) <=>
              v < x.upper /\ \A h \in 1..i : ~IsInside(s[h], v)
    <3>1. CASE from < x.lower
      <4> DEFINE y == Intvl(from, x.lower)
      <4>1. from \in Values
        BY <2>1, <3>1, IntervalFacts
      <4>2. y \in Intervals /\ y.lower = from /\ y.upper = x.lower
        BY <2>1, <4>1, IntervalFacts
      <4>3. g = Append(list, y)
        BY <2>4, <3>1
      <4> HIDE DEF y, g
      <4>4. list \in Seq(Intervals) /\ DOMAIN list = 1..Len(list)
            /\ Len(list) \in Nat
            /\ \A j \in DOMAIN list : list[j].upper \in Nat
        <5>1. list \in Seq(Intervals)
          BY <2>1 DEF Apart
        <5> QED
          BY <5>1, IntervalFacts
      <4>5. /\ Apart(g)
            /\ DOMAIN g = 1..(Len(list) + 1) /\ g[Len(list) + 1] = y
            /\ \A j \in DOMAIN list : g[j] = list[j]
            /\ \A v \in Values :
                  Holds(g, v) <=> Holds(list, v) \/ IsInside(y, v)
        BY <2>1, <3>1, <4>2, <4>3, BehindFacts
      <4>6. \A j \in DOMAIN g : g[j].upper < x.upper
        <5> TAKE j \in DOMAIN g
        <5>1. j \in DOMAIN list \/ j = Len(list) + 1
          BY <4>4, <4>5
        <5>2. CASE j \in DOMAIN list
          BY <2>1, <2>2, <4>4, <4>5, <5>2
        <5>3. CASE j = Len(list) + 1
          BY <2>1, <4>2, <4>5, <5>3
        <5> QED
          BY <5>1, <5>2, <5>3
      <4>7. ASSUME NEW v \in Values
            PROVE  Holds(g, v) <=>
                     v < x.upper /\ \A h \in 1..i : ~IsInside(s[h], v)
        <5>1. v \in Nat /\ \A h \in 1..(i - 1) : IsInside(s[h], v) => v < from
          <6>1. v \in Nat /\ \A h \in 1..(i - 1) :
                               h \in 1..n /\ s[h].upper \in Nat
            BY <1>1, <2>1, IntervalFacts
          <6> QED
            BY <2>1, <2>2, <6>1 DEF IsInside
        <5>2. IsInside(s[i], v) <=> x.lower <= v /\ v < x.upper
          BY DEF IsInside, x
        <5>3. IsInside(y, v) <=> from <= v /\ v < x.lower
          BY <4>2 DEF IsInside
        <5>4. Holds(list, v) <=>
                v < from /\ \A h \in 1..(i - 1) : ~IsInside(s[h], v)
          BY <2>1
        <5>5. (\A h \in 1..i : ~IsInside(s[h], v)) <=>
                /\ \A h \in 1..(i - 1) : ~IsInside(s[h], v)
                /\ ~IsInside(s[i], v)
          BY <2>5
        <5>6. CASE v < from
          BY <2>1, <2>2, <3>1, <4>5, <5>1, <5>2, <5>3, <5>4, <5>5, <5>6
        <5>7. CASE from <= v
          BY <2>1, <2>2, <3>1, <4>5, <5>1, <5>2, <5>3, <5>4, <5>5, <5>7
        <5> QED
          BY <2>1, <5>1, <5>6, <5>7
      <4> QED
        BY <4>5, <4>6, <4>7
    <3>2. CASE ~(from < x.lower)
      <4>1. g = list /\ from = x.lower
        BY <2>1, <2>2, <2>4, <3>2
      <4>2. \A j \in DOMAIN list : list[j].upper \in Nat
        BY <2>1, IntervalFacts DEF Apart
      <4>3. ASSUME NEW v \in Values
            PROVE  Holds(g, v) <=>
                     v < x.upper /\ \A h \in 1..i : ~IsInside(s[h], v)
        <5>1. v \in Nat /\ \A h \in 1..(i - 1) : IsInside(s[h], v) => v < from
          <6>1. v \in Nat /\ \A h \in 1..(i - 1) :
                               h \in 1..n /\ s[h].upper \in Nat
            BY <1>1, <2>1, IntervalFacts
          <6> QED
            BY <2>1, <2>2, <6>1 DEF IsInside
        <5>2. IsInside(s[i], v) <=> x.lower <= v /\ v < x.upper
          BY DEF IsInside, x
        <5>3. (\A h \in 1..i : ~IsInside(s[h], v)) <=>
                /\ \A h \in 1..(i - 1) : ~IsInside(s[h], v)
                /\ ~IsInside(s[i], v)
          BY <2>5
        <5> QED
          BY <2>1, <4>1, <5>1, <5>2, <5>3
      <4> QED
        BY <2>1, <4>1, <4>2, <4>3
    <3> QED
      BY <3>1, <3>2
  <2>7. f[i].from = x.upper /\ f[i] = [from |-> f[i].from, list |-> g]
    BY <2>4
  <2> HIDE DEF g
  <2>8. i # 0
    BY <2>1
  <2>9. x = s[i] /\ g = f[i].list
    BY DEF x, g
  <2> QED
    BY <2>1, <2>6, <2>7, <2>8, <2>9
<1>5. Good(n)
  <2> DEFINE Bad == {i \in 0..n : ~Good(i)}
  <2> HIDE DEF Good
  <2> SUFFICES ASSUME Bad # {} PROVE FALSE
    BY <1>1
  <2>1. Bad \in SUBSET Nat
    BY <1>1
  <2> HIDE DEF Bad
  <2>2. PICK m \in Bad : \A k \in Bad : m <= k
    BY <2>1, LeastOf
  <2>3. m \in 0..n /\ ~Good(m)
    BY <2>2 DEF Bad
  <2>4. m \in 1..n
    BY <1>3, <2>3
  <2>5. m - 1 \notin Bad
    BY <1>1, <2>2, <2>4
  <2>6. Good(m - 1)
    BY <1>1, <2>4, <2>5 DEF Bad
  <2> QED
    BY <1>4, <2>3, <2>4, <2>6
<1> DEFINE from == f[n].from
           list == f[n].list
           last == Intvl(from, Top)
<1>6. /\ Apart(list) /\ from \in Nat /\ from <= Top
      /\ \A j \in DOMAIN list : list[j].upper < from
      /\ \A h \in 1..n : s[h].upper <= from
      /\ \A v \in Values : Holds(list, v) <=>
            v < from /\ \A h \in 1..n : ~IsInside(s[h], v)
  <2>1. \A h \in 1..n : s[h].upper <= from
    <3> TAKE h \in 1..n
    <3>1. from = s[n].upper /\ n \in 1..n /\ (h = n \/ h < n)
      BY <1>1, <1>5
    <3> QED
      BY <1>1, <3>1
  <2>2. from <= Top
    <3>1. CASE n = 0
      BY <1>1, <1>5, <3>1
    <3>2. CASE n # 0
      BY <1>1, <1>5, <3>2
    <3> QED
      BY <3>1, <3>2
  <2> QED
    BY <1>5, <2>1, <2>2
<1>7. Complement(s) = IF from < Top THEN Append(list, last) ELSE list
  BY DEF Complement, f, n
<1> HIDE DEF from, list
<1>8. ASSUME NEW v \in Values
      PROVE  /\ v \in P <=> \E h \in 1..n : IsInside(s[h], v)
             /\ v \in P => v < from
             /\ v \in Points <=> v < Top
             /\ v \in Nat /\ v <= Top
  <2>1. v \in P <=> \E h \in 1..n : IsInside(s[h], v)
    BY <1>1, IsFacts
  <2>2. v \in Nat /\ v <= Top /\ (v \in Points <=> v < Top)
    BY <1>1, IntervalFacts DEF Points
  <2>3. v \in P => v < from
    BY <1>1, <1>6, <2>1, <2>2 DEF IsInside
  <2> QED
    BY <2>1, <2>2, <2>3
<1>9. CASE from < Top
  <2>1. /\ last \in Intervals /\ last.lower = from /\ last.upper = Top
    <3>1. from \in Nat /\ from <= Top
      BY <1>6
    <3>2. from \in Values /\ Top \in Values
      BY <3>1, TopAssumption DEF Values
    <3> QED
      BY <3>2, IntervalFacts
  <2> HIDE DEF last
  <2>2. /\ Apart(Append(list, last))
        /\ \A v \in Values : Holds(Append(list, last), v) <=>
              Holds(list, v) \/ IsInside(last, v)
    BY <1>6, <1>9, <2>1, BehindFacts
  <2>3. \A v \in Values : Holds(Append(list, last), v) <=> v \in Points \ P
    <3> TAKE v \in Values
    <3>1. IsInside(last, v) <=> from <= v /\ v < Top
      BY <2>1 DEF IsInside
    <3>2. Holds(list, v) <=> v < from /\ v \notin P
      BY <1>6, <1>8
    <3>3. Holds(Append(list, last), v) <=> Holds(list, v) \/ IsInside(last, v)
      BY <2>2
    <3>4. /\ v \in P => v < from
          /\ v \in Points <=> v < Top
          /\ v \in Nat
      BY <1>8
    <3> QED
      BY <1>1, <1>6, <1>9, <3>1, <3>2, <3>3, <3>4
  <2> QED
    BY <1>7, <1>9, <2>2, <2>3 DEF Is
<1>10. CASE ~(from < Top)
  <2>1. \A v \in Values : Holds(list, v) <=> v \in Points \ P
    BY <1>1, <1>6, <1>8, <1>10
  <2> QED
    BY <1>6, <1>7, <1>10, <2>1 DEF Is
<1> QED
  BY <1>9, <1>10

(* operator-= and operator^=.                                              *)
LEMMA DifferenceIs ==
    ASSUME NEW s, NEW t, NEW P \in SUBSET Points, NEW Q,
           Is(s, P), Is(t, Q)
    PROVE  Is(Difference(s, t), P \ Q)
<1>1. Is(Difference(s, t), P \cap (Points \ Q))
  BY ComplementIs, IntersectionIs DEF Difference
<1>2. P \cap (Points \ Q) = P \ Q
  OBVIOUS
<1> QED
  BY <1>1, <1>2

LEMMA SymmetricIs ==
    ASSUME NEW s, NEW t, NEW P \in SUBSET Points, NEW Q \in SUBSET Points,
           Is(s, P), Is(t, Q)
    PROVE  Is(Symmetric(s, t), (P \ Q) \cup (Q \ P))
<1>1. P \cup Q \in SUBSET Points
  OBVIOUS
<1>2. Is(Symmetric(s, t), (P \cup Q) \ (P \cap Q))
  BY <1>1, UnionIs, IntersectionIs, DifferenceIs DEF Symmetric
<1>3. (P \cup Q) \ (P \cap Q) = (P \ Q) \cup (Q \ P)
  OBVIOUS
<1> QED
  BY <1>2, <1>3

-----------------------------------------------------------------------------
(* compare() is zero for equal lists only, and turns around with them.     *)
LEMMA CompareFacts ==
    ASSUME NEW s \in Seq(Intervals), NEW t \in Seq(Intervals)
    PROVE  /\ Compare(s, t) = 0 <=> s = t
           /\ Compare(t, s) = 0 - Compare(s, t)
<1> DEFINE m == Least(Len(s), Len(t))
           D(a, b) == {i \in 1..m : a[i] # b[i]}
           First(a, b) == CHOOSE j \in D(a, b) : \A k \in D(a, b) : j <= k
<1>1. /\ Len(s) \in Nat /\ Len(t) \in Nat
      /\ m = Least(Len(t), Len(s)) /\ m \in Nat
      /\ m <= Len(s) /\ m <= Len(t)
  BY DEF Least
<1>2. D(s, t) = D(t, s)
  OBVIOUS
<1>3. First(s, t) = First(t, s)
  BY <1>2
<1>4. /\ Compare(s, t) =
           IF D(s, t) # {}
           THEN IF Before(s[First(s, t)], t[First(s, t)]) THEN -1 ELSE 1
           ELSE CASE Len(s) < Len(t) -> -1
                  [] Len(s) > Len(t) -> 1
                  [] OTHER -> 0
      /\ Compare(t, s) =
           IF D(t, s) # {}
           THEN IF Before(t[First(t, s)], s[First(t, s)]) THEN -1 ELSE 1
           ELSE CASE Len(t) < Len(s) -> -1
                  [] Len(t) > Len(s) -> 1
                  [] OTHER -> 0
  BY <1>1 DEF Compare
<1>5. CASE D(s, t) # {}
  <2> DEFINE i == First(s, t)
  <2>1. i \in D(s, t)
    <3>1. D(s, t) \in SUBSET Nat
      OBVIOUS
    <3> HIDE DEF D
    <3> QED
      BY <1>5, <3>1, LeastOf
  <2>2. /\ s[i] \in Intervals /\ t[i] \in Intervals /\ s[i] # t[i]
        /\ s # t
    <3> HIDE DEF i
    <3> QED
      BY <1>1, <2>1
  <2> HIDE DEF D, First
  <2>3. Before(s[i], t[i]) <=> ~Before(t[i], s[i])
    BY <2>2, BeforeFacts
  <2>4. /\ Compare(s, t) = IF Before(s[i], t[i]) THEN -1 ELSE 1
        /\ Compare(t, s) = IF Before(t[i], s[i]) THEN -1 ELSE 1
    BY <1>2, <1>3, <1>4, <1>5
  <2> HIDE DEF i
  <2> QED
    BY <2>2, <2>3, <2>4
<1>6. CASE D(s, t) = {}
  <2>1. \A i \in 1..m : s[i] = t[i]
    BY <1>6
  <2>2. Len(s) = Len(t) => s = t
    <3>1. ASSUME Len(s) = Len(t) PROVE s = t
      <4>1. m = Len(s) /\ m = Len(t)
        BY <3>1 DEF Least
      <4> HIDE DEF m
      <4> QED
        BY <2>1, <3>1, <4>1
    <3> QED
      BY <3>1
  <2> HIDE DEF D, First
  <2>3. /\ Compare(s, t) = CASE Len(s) < Len(t) -> -1
                             [] Len(s) > Len(t) -> 1
                             [] OTHER -> 0
        /\ Compare(t, s) = CASE Len(t) < Len(s) -> -1
                             [] Len(t) > Len(s) -> 1
                             [] OTHER -> 0
    BY <1>2, <1>4, <1>6
  <2>4. Len(s) < Len(t) \/ Len(s) > Len(t) \/ Len(s) = Len(t)
    BY <1>1
  <2> QED
    BY <1>1, <2>2, <2>3, <2>4
<1> QED
  BY <1>5, <1>6

-----------------------------------------------------------------------------
(* The set of the program and the set of numbers.                          *)

IInv == points \in SUBSET Points /\ Is(set, points)

(* The operators that take a set.                                          *)
LEMMA ReduceKeeps ==
    ASSUME IInv, NEW t, NEW Q \in SUBSET Points, Is(t, Q), Reduce(t, Q)
    PROVE  IInv'
<1>1. CASE set' = Intersection(set, t) /\ points' = points \cap Q
  BY <1>1, IntersectionIs DEF IInv
<1>2. CASE set' = Difference(set, t) /\ points' = points \ Q
  BY <1>2, DifferenceIs DEF IInv
<1>3. CASE /\ set' = Symmetric(set, t)
           /\ points' = (points \ Q) \cup (Q \ points)
  BY <1>3, SymmetricIs DEF IInv
<1> QED
  BY <1>1, <1>2, <1>3 DEF Reduce

(* Those that take an interval, which holds the numbers Q.                 *)
LEMMA OperateKeeps ==
    ASSUME IInv, NEW x \in Intervals, NEW Q \in SUBSET Points,
           \A v \in Values : v \in Q <=> IsInside(x, v),
           OperateInterval(x, Q)
    PROVE  IInv'
<1>1. Is(OfInterval(x), Q)
  BY NormalizeIs DEF OfInterval
<1>2. CASE Reduce(OfInterval(x), Q)
  BY <1>1, <1>2, ReduceKeeps
<1>3. CASE IsEmptyInterval(x) /\ set' = set /\ points' = points \cup Q
  <2>1. \A v \in Values : v \notin Q
    BY <1>3, IntervalFacts DEF IsEmptyInterval, IsInside
  <2> QED
    BY <1>3, <2>1 DEF IInv, Is
<1>4. CASE /\ set' = Normalize(Range(set) \cup {x})
           /\ points' = points \cup Q
  <2>1. Range(set) \cup {x} \in SUBSET Intervals
    BY IsFacts DEF IInv
  <2>2. ASSUME NEW v \in Values
        PROVE  v \in points \cup Q <=>
                 \E y \in Range(set) \cup {x} : IsInside(y, v)
    <3>1. v \in points <=> \E y \in Range(set) : IsInside(y, v)
      BY IsFacts DEF IInv
    <3> QED
      BY <3>1
  <2>3. Is(Normalize(Range(set) \cup {x}), points \cup Q)
    BY <2>1, <2>2, NormalizeIs
  <2> QED
    BY <1>4, <2>3 DEF IInv
<1> QED
  BY <1>2, <1>3, <1>4 DEF OperateInterval

(* A single number: the interval of the largest one is empty, because the  *)
(* number after it wraps around.                                           *)
LEMMA SingleHolds ==
    ASSUME NEW v \in Values
    PROVE  /\ Single(v) \in Intervals
           /\ \A w \in Values :
                 w \in {v} \cap Points <=> IsInside(Single(v), w)
<1>1. Top \in Nat /\ v \in Nat /\ v <= Top
      /\ \A w \in Values : w \in Nat /\ (w \in Points <=> w < Top)
  BY IntervalFacts DEF Points
<1>2. CASE v < Top
  <2>1. (v + 1) % (Top + 1) = v + 1
    BY <1>1, <1>2
  <2>2. v \in Values /\ v + 1 \in Values
    BY <1>1, <1>2, IntervalFacts
  <2>3. /\ Single(v) \in Intervals /\ Single(v).lower = v
        /\ Single(v).upper = v + 1
    BY <2>1, <2>2, IntervalFacts DEF Single
  <2> QED
    BY <1>1, <1>2, <2>3 DEF IsInside
<1>3. CASE v = Top
  <2>1. (v + 1) % (Top + 1) = 0
    BY <1>1, <1>3
  <2>2. v \in Values /\ 0 \in Values
    BY <1>1, IntervalFacts
  <2>3. /\ Single(v) \in Intervals /\ Single(v).lower = v
        /\ Single(v).upper = 0
    BY <2>1, <2>2, IntervalFacts DEF Single
  <2> QED
    BY <1>1, <1>3, <2>3 DEF IsInside
<1> QED
  BY <1>1, <1>2, <1>3

(* The list of all numbers.                                                *)
LEMMA FullIs == Is(<<Intvl(0, Top)>>, Points)
<1> DEFINE x == Intvl(0, Top)
           s == <<x>>
<1>1. /\ Top \in Nat /\ Top >= 1
      /\ \A v \in Values : v \in Nat /\ (v \in Points <=> v < Top)
  BY IntervalFacts DEF Points
<1>2. x \in Intervals /\ x.lower = 0 /\ x.upper = Top
  <2>1. 0 \in Values /\ Top \in Values
    BY <1>1, IntervalFacts
  <2> QED
    BY <2>1, IntervalFacts
<1> HIDE DEF x
<1>3. s \in Seq(Intervals) /\ DOMAIN s = {1} /\ s[1] = x
  BY <1>2
<1> HIDE DEF s
<1>4. Apart(s)
  BY <1>1, <1>2, <1>3 DEF Apart
<1>5. \A v \in Values : Holds(s, v) <=> v \in Points
  BY <1>1, <1>2, <1>3, HoldsFacts DEF IsInside
<1> QED
  BY <1>4, <1>5 DEF Is, s, x

(* After any operations the list holds the numbers it should.              *)
THEOREM IntervalSetInvariant == Spec => []IInv
<1>1. Init => IInv
  BY EmptyIs DEF Init, IInv
<1>2. IInv /\ [Next]_vars => IInv'
  <2> SUFFICES ASSUME IInv, [Next]_vars PROVE IInv'
    OBVIOUS
  <2>1. CASE WithSet
    <3>1. PICK Q \in SUBSET Points :
             \/ Reduce(Runs(Q), Q)
             \/ set' = Union2(set, Runs(Q)) /\ points' = points \cup Q
      BY <2>1 DEF WithSet
    <3>2. Is(Runs(Q), Q)
      BY RunsIs
    <3>3. CASE Reduce(Runs(Q), Q)
      BY <3>2, <3>3, ReduceKeeps
    <3>4. CASE set' = Union2(set, Runs(Q)) /\ points' = points \cup Q
      BY <3>2, <3>4, UnionIs DEF IInv
    <3> QED
      BY <3>1, <3>3, <3>4
  <2>2. CASE WithInterval
    <3>1. PICK x \in Intervals : OperateInterval(x, Inside(x))
      BY <2>2 DEF WithInterval
    <3>2. /\ Inside(x) \in SUBSET Points
          /\ \A v \in Values : v \in Inside(x) <=> IsInside(x, v)
      BY IntervalFacts DEF Inside, IsInside, Points
    <3> QED
      BY <3>1, <3>2, OperateKeeps
  <2>3. CASE WithValue
    <3>1. PICK v \in Values : OperateInterval(Single(v), {v} \cap Points)
      BY <2>3 DEF WithValue
    <3> QED
      BY <3>1, SingleHolds, OperateKeeps
  <2>4. CASE Invert
    BY <2>4, ComplementIs DEF Invert, IInv
  <2>5. CASE SetEmpty
    BY <2>5, EmptyIs DEF SetEmpty, IInv
  <2>6. CASE SetFull
    BY <2>6, FullIs DEF SetFull, IInv
  <2>7. CASE UNCHANGED vars
    BY <2>7 DEF vars, IInv
  <2> QED
    BY <2>1, <2>2, <2>3, <2>4, <2>5, <2>6, <2>7 DEF Next
<1> QED
  BY <1>1, <1>2, PTL DEF Spec

(* It is the one and only list for them.                                   *)
THEOREM IntervalSetCanonical == Spec => []IsCanonical
<1>1. IInv => IsCanonical
  BY OnlyRuns DEF IInv, IsCanonical
<1> QED
  BY <1>1, IntervalSetInvariant, PTL

(* The predicates and compare() tell of the list what is true of the       *)
(* numbers.                                                                *)
THEOREM IntervalSetComparisons == Spec => []ComparisonsAgree
<1>1. ASSUME IInv PROVE ComparisonsAgree
  <2>1. /\ points \in SUBSET Points /\ Is(set, points)
        /\ set = Runs(points) /\ points \in SUBSET Values
        /\ set \in Seq(Intervals)
        /\ \A v \in Values : Holds(set, v) <=> v \in points
    BY <1>1, OnlyRuns, IntervalFacts DEF IInv, Is, Apart, Points
  <2>2. IsEmpty(set) <=> points = {}
    <3>1. ASSUME set = <<>> PROVE points = {}
      <4>1. Is(set, {})
        BY <3>1, EmptyIs
      <4> QED
        BY <2>1, <4>1 DEF Is
    <3>2. ASSUME points = {} PROVE set = <<>>
      BY <2>1, <3>2, EmptyIs, OnlyRuns
    <3> QED
      BY <3>1, <3>2 DEF IsEmpty
  <2>3. IsFull(set) <=> points = Points
    <3>1. ASSUME IsFull(set) PROVE points = Points
      <4>1. 1 \in DOMAIN set /\ set[1] = Intvl(0, Top)
        BY <2>1, <3>1 DEF IsFull
      <4>2. ASSUME NEW v \in Points PROVE v \in points
        <5>1. v \in Values /\ v \in Nat /\ v < Top
          BY IntervalFacts DEF Points
        <5>2. IsInside(set[1], v)
          BY <4>1, <5>1 DEF IsInside, Intvl
        <5> QED
          BY <2>1, <4>1, <5>1, <5>2, IsFacts
      <4> QED
        BY <2>1, <4>2
    <3>2. ASSUME points = Points PROVE IsFull(set)
      <4>1. set = <<Intvl(0, Top)>>
        BY <2>1, <3>2, FullIs, OnlyRuns
      <4> QED
        BY <4>1 DEF IsFull
    <3> QED
      BY <3>1, <3>2
  <2>4. ASSUME NEW Q \in SUBSET Points
        PROVE  /\ Compare(set, Runs(Q)) = 0 <=> Q = points
               /\ Compare(Runs(Q), set) = 0 - Compare(set, Runs(Q))
    <3>1. Is(Runs(Q), Q) /\ Runs(Q) \in Seq(Intervals)
          /\ Q \in SUBSET Values
      BY RunsIs, IntervalFacts DEF Is, Apart, Points
    <3>2. set = Runs(Q) <=> Q = points
      <4>1. ASSUME set = Runs(Q) PROVE Q = points
        BY <2>1, <3>1, <4>1 DEF Is
      <4> QED
        BY <2>1, <4>1
    <3> QED
      BY <2>1, <3>1, <3>2, CompareFacts
  <2> QED
    BY <2>1, <2>2, <2>3, <2>4 DEF ComparisonsAgree
<1> QED
  BY <1>1, IntervalSetInvariant, PTL

=============================================================================
