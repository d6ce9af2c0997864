--------------------------- MODULE DctPoolProofs ---------------------------
(***************************************************************************)
(* Proofs about DctPool, for every number of points, workers and results   *)
(* and every kind of points: no pair is in two places (EachOnce), and the  *)
(* main thread stops when all pairs have been dealt with (AllDone).        *)
(*                                                                         *)
(* A pair belongs to the worker whose number is that of its first point,   *)
(* modulo the number of workers.  The pairs that lie before the cursor of  *)
(* their worker are exactly those that have been handed over or skipped:   *)
(* what lies before says that none comes twice (Behind), what has been     *)
(* handed over says that none is missed (Covered).                         *)
(***************************************************************************)
EXTENDS DctPool, FiniteSetTheorems, TLAPS

Owner(p) == p[1] % NWorkers
Before(p) == \/ p[1] < row[Owner(p)]
             \/ p[1] = row[Owner(p)] /\ p[2] < col[Owner(p)]
Out == results \cup hand \cup saved \cup skipped
Finished == {w \in Workers : pc[w] \in {"finished", "done"}}

Cursors == \A w \in Workers :
    /\ row[w] % NWorkers = w
    /\ pc[w] = "row" => col[w] = 0
    /\ pc[w] \in {"col", "push", "told"} =>
         row[w] < NPoints /\ row[w] < col[w]
    /\ pc[w] = "push" => col[w] < NPoints
    /\ pc[w] \in {"finish", "finished", "done"} => row[w] >= NPoints

Behind == \A p \in Out : Before(p)
Covered == \A p \in Pairs : MayCompute(p) /\ Before(p) => p \in Out

Apart == /\ results \cap (hand \cup saved \cup skipped) = {}
         /\ hand \cap (saved \cup skipped) = {}
         /\ saved \cap skipped = {}

Counted == /\ IsFiniteSet(results)
           /\ resultscnt = Cardinality(results)
           /\ resultscnt <= Limit + 1
           /\ finished = Cardinality(Finished)

MainKnows == /\ main \in {"look", "join", "done"} => hand = {}
             /\ main \in {"join", "done"} =>
                  results = {} /\ Finished = Workers

IInv == TypeOK /\ Cursors /\ Behind /\ Covered /\ Apart /\ Counted /\ MainKnows

-----------------------------------------------------------------------------
(* A multiple of m that lies strictly between -m and m is zero.            *)
LEMMA NoMultiple ==
  ASSUME NEW m \in Nat \ {0}, NEW d \in Int, m * d < m, -m < m * d
  PROVE  m * d = 0
<1>1. CASE d >= 1
  BY <1>1, SMTT(30)
<1>2. CASE d =< -1
  <2>1. m * d =< -m BY <1>2, SMTT(30)
  <2> QED BY <2>1
<1>3. CASE d = 0
  BY <1>3
<1> QED BY <1>1, <1>2, <1>3

(* Numbers that are less than m apart and have the same remainder modulo m *)
(* are equal.                                                              *)
LEMMA SameRemainder ==
  ASSUME NEW a \in Nat, NEW b \in Nat, NEW m \in Nat \ {0},
         a % m = b % m, a - b < m, b - a < m
  PROVE  a = b
<1> DEFINE q == a \div m  r == b \div m  x == a % m  u == m * q  v == m * r
<1>1. x \in Int /\ q \in Int /\ a = u + x
  BY SMTT(30)
<1>2. r \in Int /\ b = v + x
  BY SMTT(30)
<1>3. u \in Int /\ v \in Int
  BY <1>1, <1>2
<1>4. m * (q - r) = u - v
  BY <1>1, <1>2
<1> HIDE DEF q, r, x, u, v
<1>5. u - v = a - b
  BY <1>1, <1>2, <1>3
<1>6. m * (q - r) = 0
  BY <1>1, <1>2, <1>4, <1>5, NoMultiple
<1> QED BY <1>4, <1>5, <1>6

(* Adding m does not change the remainder.                                 *)
LEMMA NextRemainder ==
  ASSUME NEW a \in Nat, NEW m \in Nat \ {0}
  PROVE  (a + m) % m = a % m
<1> DEFINE q == a \div m  r == (a + m) \div m  x == a % m  y == (a + m) % m
           u == m * q  v == m * r
<1>1. x \in 0..(m - 1) /\ q \in Int /\ a = u + x
  BY SMTT(30)
<1>2. y \in 0..(m - 1) /\ r \in Int /\ a + m = v + y
  BY SMTT(30)
<1>3. u \in Int /\ v \in Int
  BY <1>1, <1>2
<1>4. m * (r - q - 1) = v - u - m
  BY <1>1, <1>2
<1> HIDE DEF q, r, x, y, u, v
<1>5. v - u - m = x - y
  BY <1>1, <1>2, <1>3
<1>6. x - y < m /\ -m < x - y
  BY <1>1, <1>2
<1>7. x - y = 0
  BY <1>1, <1>2, <1>4, <1>5, <1>6, NoMultiple
<1> QED BY <1>1, <1>2, <1>7 DEF x, y

(* Every pair has an owner, and a worker's number is its own remainder.    *)
LEMMA OwnerType ==
  /\ \A p \in Pairs : p[1] \in Points /\ p[2] \in Points /\ p[1] < p[2]
                      /\ Owner(p) \in Workers
  /\ \A w \in Workers : w % NWorkers = w
<1>1. \A a \in Nat : a % NWorkers \in 0..(NWorkers - 1)
  BY DctAssumption, SMTT(30)
<1>2. \A w \in Workers : w % NWorkers = w
  BY DctAssumption, SMTT(30) DEF Workers
<1>3. ASSUME NEW p \in Pairs
      PROVE  p[1] \in Points /\ p[2] \in Points /\ p[1] < p[2]
  BY DEF Pairs
<1>4. \A p \in Pairs : p[1] \in Nat
  BY <1>3, DctAssumption DEF Points
<1> QED BY <1>1, <1>2, <1>3, <1>4 DEF Owner, Workers

-----------------------------------------------------------------------------
(* The cursor of worker w moves on by one point.                           *)
LEMMA NextCol ==
  ASSUME IInv, NEW w \in Workers, row' = row,
         col' = [col EXCEPT ![w] = @ + 1],
         pc[w] \in {"col", "push"}, col[w] < NPoints,
         Out \subseteq Out', Out' \subseteq Out \cup {Cursor(w)},
         MayCompute(Cursor(w)) => Cursor(w) \in Out'
  PROVE  Behind' /\ Covered'
<1>0. PICK c : c = Cursor(w)
  OBVIOUS
<1>1. /\ row \in [Workers -> Nat] /\ col \in [Workers -> Nat]
      /\ row[w] % NWorkers = w
  BY DEF IInv, TypeOK, Cursors
<1>2. \A v \in Workers : col'[v] = IF v = w THEN col[w] + 1 ELSE col[v]
  BY <1>1
<1>3. \A p \in Pairs : p[2] \in Nat /\ Owner(p) \in Workers
  BY OwnerType, DctAssumption DEF Points
<1>4. \A p \in Pairs : Before(p) => Before(p)'
  BY <1>1, <1>2, <1>3 DEF Before, Owner
<1>5. Before(c)'
  BY <1>0, <1>1, <1>2 DEF Before, Owner, Cursor
<1>6. ASSUME NEW p \in Pairs, Before(p)', ~Before(p)
      PROVE  p = c
  <2>1. Owner(p) = w /\ p[1] = row[w] /\ p[2] = col[w]
    BY <1>1, <1>2, <1>3, <1>6 DEF Before, Owner
  <2> QED BY <1>0, <2>1 DEF Pairs, Cursor
<1>7. Out \subseteq Pairs
  BY DEF IInv, TypeOK, Out
<1>8. Behind'
  <2>1. \A p \in Out : Before(p)' BY <1>4, <1>7 DEF IInv, Behind
  <2> QED BY <1>0, <2>1, <1>5 DEF Behind
<1>9. Covered'
  <2> SUFFICES ASSUME NEW p \in Pairs, MayCompute(p), Before(p)'
               PROVE  p \in Out'
    BY DEF Covered, MayCompute
  <2>1. CASE Before(p) BY <2>1 DEF IInv, Covered
  <2>2. CASE ~Before(p) BY <1>0, <2>2, <1>6
  <2> QED BY <2>1, <2>2
<1> QED BY <1>8, <1>9

(* Worker w goes on to its next row when it is done with this one.         *)
LEMMA RowDone ==
  ASSUME IInv, NEW w \in Workers, NextRow(w), Out' = Out,
         \A p \in Pairs : p[1] = row[w] /\ MayCompute(p) => p \in Out
  PROVE  Behind' /\ Covered'
<1>1. /\ row \in [Workers -> Nat] /\ col \in [Workers -> Nat]
      /\ row[w] % NWorkers = w /\ NWorkers \in Nat \ {0}
  BY DctAssumption DEF IInv, TypeOK, Cursors
<1>2. /\ \A v \in Workers : row'[v] = IF v = w THEN row[w] + NWorkers
                                              ELSE row[v]
      /\ \A v \in Workers : col'[v] = IF v = w THEN 0 ELSE col[v]
  BY <1>1 DEF NextRow
<1>3. \A p \in Pairs : p[1] \in Nat /\ p[2] \in Nat /\ Owner(p) \in Workers
  BY OwnerType, DctAssumption DEF Points
<1>4. \A p \in Pairs : Before(p) => Before(p)'
  BY <1>1, <1>2, <1>3 DEF Before, Owner
<1>5. Out \subseteq Pairs
  BY DEF IInv, TypeOK, Out
<1>6. Behind'
  BY <1>4, <1>5 DEF IInv, Behind
<1>7. ASSUME NEW p \in Pairs, Before(p)', ~Before(p)
      PROVE  p[1] = row[w]
  <2>1. /\ Owner(p) = w /\ p[1] >= row[w] /\ p[1] < row[w] + NWorkers
    BY <1>1, <1>2, <1>3, <1>7 DEF Before, Owner
  <2>2. p[1] \in Nat /\ row[w] \in Nat /\ p[1] % NWorkers = row[w] % NWorkers
    BY <1>1, <1>3, <2>1 DEF Owner
  <2>3. p[1] - row[w] < NWorkers /\ row[w] - p[1] < NWorkers
    BY <2>1, <2>2, <1>1
  <2> QED BY <2>2, <2>3, <1>1, SameRemainder
<1>8. Covered'
  <2> SUFFICES ASSUME NEW p \in Pairs, MayCompute(p), Before(p)'
               PROVE  p \in Out
    BY DEF Covered, MayCompute
  <2>1. CASE Before(p) BY <2>1 DEF IInv, Covered
  <2>2. CASE ~Before(p) BY <2>2, <1>7
  <2> QED BY <2>1, <2>2
<1> QED BY <1>6, <1>8

(* Where no worker moves and no pair comes or goes.                        *)
LEMMA Still ==
  ASSUME IInv, UNCHANGED <<row, col>>, Out' = Out
  PROVE  Behind' /\ Covered'
BY DEF IInv, Behind, Covered, Before, Owner, MayCompute

-----------------------------------------------------------------------------
(* The workers that have finished are finitely many, and all when there    *)
(* are as many as there are workers.                                       *)
LEMMA FinishedFinite ==
  /\ IsFiniteSet(Finished)
  /\ Cardinality(Finished) >= NWorkers => Finished = Workers
<1>1. IsFiniteSet(Workers) /\ Cardinality(Workers) = NWorkers
  <2>1. NWorkers - 1 \in Int /\ 0 \in Int
    BY DctAssumption
  <2>2. IsFiniteSet(0..(NWorkers - 1))
        /\ Cardinality(0..(NWorkers - 1)) =
             IF 0 > NWorkers - 1 THEN 0 ELSE (NWorkers - 1) - 0 + 1
    BY <2>1, FS_Interval
  <2> QED BY <2>2, DctAssumption DEF Workers
<1>2. Finished \subseteq Workers
  BY DEF Finished
<1>3. /\ IsFiniteSet(Finished)
      /\ Cardinality(Finished) <= Cardinality(Workers)
      /\ Cardinality(Finished) = Cardinality(Workers) => Finished = Workers
  BY <1>1, <1>2, FS_Subset
<1>4. Cardinality(Finished) \in Nat
  BY <1>3, FS_CardinalityType
<1> QED BY <1>1, <1>3, <1>4, DctAssumption

THEOREM DctInit == Init => IInv
<1> SUFFICES ASSUME Init PROVE IInv
  OBVIOUS
<1> USE DEF Init
<1>1. TypeOK
  BY DctAssumption DEF TypeOK, Workers
<1>2. Cursors
  BY OwnerType DEF Cursors
<1>3. Out = {} /\ Finished = {}
  BY DEF Out, Finished
<1>4. Behind
  BY <1>3 DEF Behind
<1>5. Covered
  <2> SUFFICES ASSUME NEW p \in Pairs, Before(p) PROVE FALSE
    BY DEF Covered
  <2>1. /\ Owner(p) \in Workers /\ p[1] \in Nat /\ p[2] \in Nat
        /\ NWorkers \in Nat \ {0}
    BY OwnerType, DctAssumption DEF Points
  <2>2. p[1] < p[1] % NWorkers
    BY <2>1 DEF Before, Owner
  <2>3. \A a \in Nat, m \in Nat \ {0} : a % m <= a
    BY SMTT(30)
  <2> QED BY <2>1, <2>2, <2>3, SMT DEF Owner, Workers
<1>6. Apart
  BY DEF Apart
<1>7. Counted
  BY <1>3, FS_EmptySet, DctAssumption DEF Counted
<1>8. MainKnows
  BY DEF MainKnows
<1> QED BY <1>1, <1>2, <1>4, <1>5, <1>6, <1>7, <1>8 DEF IInv

-----------------------------------------------------------------------------
(* Every step of a worker keeps the invariant.                             *)

LEMMA RowKeeps == ASSUME IInv, NEW w \in Workers, Row(w) PROVE IInv'
<1> USE DEF IInv
<1>0. row[w] \in Nat /\ row[w] % NWorkers = w /\ NWorkers \in Nat \ {0}
  BY DctAssumption DEF TypeOK, Cursors
<1>1. /\ row[w] \in Nat /\ row[w] % NWorkers = w /\ NWorkers \in Nat \ {0}
      /\ (row[w] + NWorkers) % NWorkers = w
  BY <1>0, NextRemainder
<1>2. TypeOK'
  <2>1. UNCHANGED <<mainVars, results, resultscnt, finished, waiting, skipped>>
    BY DEF Row
  <2>2. pc' \in [Workers -> {"row", "col", "push", "told", "finish",
                             "finished", "done"}]
    BY DEF TypeOK, Row
  <2>3. row[w] + NWorkers \in Nat /\ row[w] + 1 \in Nat
    BY <1>0
  <2>4. row' \in [Workers -> Nat] /\ col' \in [Workers -> Nat]
    BY <2>3 DEF TypeOK, Row, NextRow
  <2> QED BY <2>1, <2>2, <2>4 DEF TypeOK, mainVars
<1>3. Cursors'
  BY <1>1 DEF TypeOK, Cursors, Row, NextRow
<1>4. Out' = Out
  BY DEF Out, Row, mainVars
<1>5. Behind' /\ Covered'
  <2>1. CASE row[w] < NPoints /\ Kind[row[w]] = "null" /\ NextRow(w)
    <3>1. \A p \in Pairs : p[1] = row[w] => ~MayCompute(p)
      BY <2>1 DEF MayCompute
    <3> QED BY <2>1, <3>1, <1>4, RowDone
  <2>2. CASE UNCHANGED <<row, col>>
    BY <2>2, <1>4, Still
  <2>3. CASE col' = [col EXCEPT ![w] = row[w] + 1] /\ UNCHANGED row
             /\ pc[w] = "row"
    <3>1. col[w] = 0 /\ col \in [Workers -> Nat] /\ row \in [Workers -> Nat]
      BY <2>3 DEF TypeOK, Cursors
    <3>2. \A p \in Pairs : /\ p[1] \in Nat /\ p[2] \in Nat /\ p[1] < p[2]
                           /\ Owner(p) \in Workers
      BY OwnerType, DctAssumption DEF Points
    <3>3. \A p \in Pairs : Before(p)' <=> Before(p)
      BY <2>3, <3>1, <3>2 DEF Before, Owner
    <3>4. Out \subseteq Pairs
      BY DEF TypeOK, Out
    <3> QED BY <3>3, <3>4, <1>4 DEF Behind, Covered, MayCompute
  <2> QED BY <2>1, <2>2, <2>3 DEF Row
<1>6. Apart'
  BY DEF Apart, Row, mainVars
<1>7. Finished' = Finished
  BY DEF Finished, Row, TypeOK
<1>8. Counted' /\ MainKnows'
  BY <1>7 DEF Counted, MainKnows, Row, mainVars
<1> QED BY <1>2, <1>3, <1>5, <1>6, <1>8

(* Where the cursor of a worker is a pair.                                 *)
LEMMA CursorType ==
  ASSUME IInv, NEW w \in Workers, pc[w] \in {"col", "push"},
         col[w] < NPoints
  PROVE  Cursor(w) \in Pairs /\ ~Before(Cursor(w)) /\ Cursor(w) \notin Out
<1>1. /\ row[w] \in Nat /\ col[w] \in Nat /\ row[w] < NPoints
      /\ row[w] < col[w] /\ row[w] % NWorkers = w
  BY DEF IInv, TypeOK, Cursors
<1>2. Cursor(w) \in Pairs
  BY <1>1, DctAssumption DEF Cursor, Pairs, Points
<1>3. ~Before(Cursor(w))
  BY <1>1 DEF Before, Owner, Cursor
<1> QED BY <1>2, <1>3 DEF IInv, Behind

LEMMA ColKeeps == ASSUME IInv, NEW w \in Workers, Col(w) PROVE IInv'
<1> USE DEF IInv
<1>0. /\ pc[w] = "col" /\ row[w] \in Nat /\ col[w] \in Nat
      /\ row[w] < NPoints /\ row[w] < col[w] /\ NPoints \in Nat
      /\ row[w] % NWorkers = w /\ NWorkers \in Nat \ {0}
      /\ (row[w] + NWorkers) % NWorkers = w
  BY DctAssumption, NextRemainder DEF TypeOK, Cursors, Col
<1>1. TypeOK'
  BY <1>0, CursorType DEF TypeOK, Col, NextRow, mainVars
<1>2. Cursors'
  BY <1>0 DEF TypeOK, Cursors, Col, NextRow
<1>3. Behind' /\ Covered'
  <2>1. CASE col[w] >= NPoints /\ NextRow(w) /\ UNCHANGED skipped
    <3>1. ASSUME NEW p \in Pairs, p[1] = row[w], MayCompute(p)
          PROVE  p \in Out
      <4>1. Owner(p) = w
        BY <3>1, <1>0 DEF Owner
      <4>2. p[2] \in Nat /\ p[2] < NPoints
        BY OwnerType, DctAssumption DEF Points
      <4>3. Before(p)
        BY <2>1, <1>0, <3>1, <4>1, <4>2 DEF Before
      <4> QED BY <4>3, <3>1 DEF Covered
    <3>2. Out' = Out
      BY <2>1 DEF Out, Col, mainVars
    <3> QED BY <2>1, <3>1, <3>2, RowDone
  <2>2. CASE /\ col[w] < NPoints /\ ~MayCompute(Cursor(w)) /\ UNCHANGED row
             /\ col' = [col EXCEPT ![w] = @ + 1] /\ UNCHANGED skipped
    <3>1. Out' = Out
      BY <2>2 DEF Out, Col, mainVars
    <3> QED BY <2>2, <3>1, <1>0, NextCol
  <2>3. CASE /\ col[w] < NPoints /\ skipped' = skipped \cup {Cursor(w)}
             /\ col' = [col EXCEPT ![w] = @ + 1] /\ UNCHANGED row
    <3>1. Out' = Out \cup {Cursor(w)}
      BY <2>3 DEF Out, Col, mainVars
    <3> QED BY <2>3, <3>1, <1>0, NextCol
  <2>4. CASE UNCHANGED <<row, col, skipped>>
    <3>1. Out' = Out
      BY <2>4 DEF Out, Col, mainVars
    <3> QED BY <2>4, <3>1, Still
  <2> QED BY <2>1, <2>2, <2>3, <2>4 DEF Col
<1>4. Apart'
  <2>1. CASE UNCHANGED skipped
    BY <2>1 DEF Apart, Col, mainVars
  <2>2. CASE col[w] < NPoints /\ skipped' = skipped \cup {Cursor(w)}
    <3>1. Cursor(w) \notin Out
      BY <2>2, <1>0, CursorType
    <3> QED BY <2>2, <3>1 DEF Apart, Out, Col, mainVars
  <2> QED BY <2>1, <2>2 DEF Col
<1>5. Finished' = Finished
  BY DEF Finished, Col, TypeOK
<1>6. Counted' /\ MainKnows'
  BY <1>5 DEF Counted, MainKnows, Col, mainVars
<1> QED BY <1>1, <1>2, <1>3, <1>4, <1>6

LEMMA PushKeeps == ASSUME IInv, NEW w \in Workers, Push(w) PROVE IInv'
<1> USE DEF IInv
<1>0. /\ pc[w] = "push" /\ row[w] \in Nat /\ col[w] \in Nat
      /\ row[w] < col[w] /\ col[w] < NPoints
  BY DEF TypeOK, Cursors, Push
<1>1. PICK c : c = Cursor(w)
  OBVIOUS
<1>2. c \in Pairs /\ c \notin Out
  BY <1>0, <1>1, CursorType
<1>3. TypeOK'
  BY <1>0, <1>1, <1>2 DEF TypeOK, Push, mainVars
<1>4. Cursors'
  BY <1>0 DEF TypeOK, Cursors, Push
<1>5. Out' = Out \cup {Cursor(w)}
  BY DEF Out, Push, mainVars
<1>6. Behind' /\ Covered'
  BY <1>0, <1>5, NextCol DEF Push
<1>7. Apart'
  BY <1>1, <1>2 DEF Apart, Out, Push, mainVars
<1>8. Finished' = Finished
  BY DEF Finished, Push, TypeOK
<1>9. Counted'
  <2>1. results' = results \cup {c} /\ c \notin results
    BY <1>1, <1>2 DEF Out, Push
  <2>2. /\ IsFiniteSet(results')
        /\ Cardinality(results') = Cardinality(results) + 1
    BY <2>1, FS_AddElement DEF Counted
  <2> QED BY <2>2, <1>8, DctAssumption DEF Counted, Push, TypeOK
<1>10. MainKnows'
  BY <1>0, <1>8 DEF MainKnows, Push, mainVars, Finished
<1> QED BY <1>3, <1>4, <1>6, <1>7, <1>9, <1>10

(* What a worker does without moving or handing over.                      *)
LEMMA OtherWorkerKeeps ==
  ASSUME IInv, NEW w \in Workers,
         PushWaits(w) \/ Told(w) \/ Finish(w) \/ FinishTold(w)
  PROVE  IInv'
<1> USE DEF IInv
<1>1. UNCHANGED <<row, col, skipped, mainVars, results, resultscnt>>
  BY DEF PushWaits, Told, Finish, FinishTold, workerVars
<1>2. TypeOK'
  BY <1>1 DEF TypeOK, PushWaits, Told, Finish, FinishTold, workerVars,
              mainVars, Broadcast, Threads
<1>3. Cursors'
  BY <1>1 DEF TypeOK, Cursors, PushWaits, Told, Finish, FinishTold,
              workerVars
<1>4. Out' = Out
  BY <1>1 DEF Out, mainVars
<1>5. Behind' /\ Covered'
  BY <1>1, <1>4, Still
<1>6. Apart'
  BY <1>1 DEF Apart, mainVars
<1>7. Finished' = (IF Finish(w) THEN Finished \cup {w} ELSE Finished)
      /\ (Finish(w) => w \notin Finished)
  BY DEF Finished, PushWaits, Told, Finish, FinishTold, workerVars, TypeOK
<1>8. finished' = Cardinality(Finished')
  <2>1. CASE Finish(w)
    <3>1. Cardinality(Finished \cup {w}) = Cardinality(Finished) + 1
      BY <2>1, <1>7, FinishedFinite, FS_AddElement
    <3> QED BY <2>1, <3>1, <1>7 DEF Counted, Finish
  <2>2. CASE ~Finish(w)
    BY <2>2, <1>7 DEF Counted, PushWaits, Told, FinishTold
  <2> QED BY <2>1, <2>2
<1>9. Counted'
  BY <1>1, <1>8 DEF Counted
<1>10. MainKnows'
  <2>1. Finished' \subseteq Workers
    BY DEF Finished
  <2> QED BY <1>1, <1>7, <2>1 DEF MainKnows, mainVars
<1> QED BY <1>2, <1>3, <1>5, <1>6, <1>9, <1>10

-----------------------------------------------------------------------------
(* Every step of the main thread keeps the invariant.                      *)

LEMMA LookKeeps == ASSUME IInv, Look PROVE IInv'
<1> USE DEF IInv
<1>1. UNCHANGED <<row, col, pc, skipped, finished, saved>> /\ hand = {}
  BY DEF Look, workerVars, MainKnows
<1>2. Finished' = Finished
  BY <1>1 DEF Finished
<1>3. Cursors'
  BY <1>1 DEF Cursors
<1>4. CASE UNCHANGED <<hand, results, resultscnt, main>>
  <2>1. TypeOK'
    BY <1>1, <1>4 DEF TypeOK, Look, Threads
  <2>2. Out' = Out
    BY <1>1, <1>4 DEF Out
  <2> QED BY <1>1, <1>2, <1>3, <1>4, <2>1, <2>2, Still
        DEF Apart, Counted, MainKnows
<1>5. CASE /\ results = {} /\ finished >= NWorkers /\ main' = "join"
           /\ UNCHANGED <<hand, results, resultscnt, waiting>>
  <2>1. TypeOK'
    BY <1>1, <1>5 DEF TypeOK
  <2>2. Out' = Out
    BY <1>1, <1>5 DEF Out
  <2>3. Finished = Workers
    BY <1>5, FinishedFinite DEF Counted
  <2> QED BY <1>1, <1>2, <1>3, <1>5, <2>1, <2>2, <2>3, Still
        DEF Apart, Counted, MainKnows
<1>6. ASSUME NEW p \in results, hand' = {p}, results' = results \ {p},
             resultscnt' = resultscnt - 1, main' = "tell", UNCHANGED waiting
      PROVE  IInv'
  <2>1. /\ IsFiniteSet(results')
        /\ Cardinality(results') = Cardinality(results) - 1
    BY <1>6, FS_RemoveElement DEF Counted
  <2>2. resultscnt' = Cardinality(results') /\ resultscnt' \in Nat
    BY <1>6, <2>1, FS_CardinalityType DEF Counted
  <2>3. TypeOK'
    BY <1>1, <1>6, <2>2 DEF TypeOK
  <2>4. Out' = Out
    BY <1>1, <1>6 DEF Out
  <2>5. Apart'
    BY <1>1, <1>6 DEF Apart
  <2>6. Counted'
    BY <1>1, <1>2, <1>6, <2>1, <2>2, DctAssumption DEF Counted, TypeOK
  <2>7. MainKnows'
    BY <1>6 DEF MainKnows
  <2> QED BY <1>1, <1>3, <2>3, <2>4, <2>5, <2>6, <2>7, Still
<1> QED BY <1>4, <1>5, <1>6 DEF Look

LEMMA OtherMainKeeps ==
  ASSUME IInv, Tell \/ Save \/ Join \/ Spurious \/ UNCHANGED vars
  PROVE  IInv'
<1> USE DEF IInv
<1>1. UNCHANGED <<row, col, pc, skipped, results, resultscnt, finished>>
  BY DEF Tell, Save, Join, Spurious, workerVars, vars
<1>2. Finished' = Finished
  BY <1>1 DEF Finished
<1>3. Cursors'
  BY <1>1 DEF Cursors
<1>4. \/ UNCHANGED <<hand, saved>>
      \/ saved' = saved \cup hand /\ hand' = {}
  BY DEF Tell, Save, Join, Spurious, mainVars, vars
<1>5. waiting' \subseteq waiting
  BY DEF Tell, Save, Join, Spurious, Broadcast, vars
<1>6. /\ main' \in {"look", "tell", "save", "join", "done"}
      /\ main' = "look" => hand' = {}
      /\ main' \in {"join", "done"} =>
           main \in {"join", "done"} /\ UNCHANGED hand
  BY DEF Tell, Save, Join, Spurious, mainVars, vars, TypeOK, MainKnows
<1>7. TypeOK'
  BY <1>1, <1>4, <1>5, <1>6 DEF TypeOK
<1>8. Out' = Out
  BY <1>1, <1>4 DEF Out
<1>9. Apart'
  BY <1>1, <1>4 DEF Apart
<1>10. Counted'
  BY <1>1, <1>2 DEF Counted
<1>11. MainKnows'
  BY <1>1, <1>2, <1>6 DEF MainKnows
<1> QED BY <1>1, <1>3, <1>7, <1>8, <1>9, <1>10, <1>11, Still

-----------------------------------------------------------------------------
(* The invariant holds of every behaviour of the pool.                     *)
THEOREM DctInvariant == Spec => []IInv
<1>1. IInv /\ [Next]_vars => IInv'
  BY RowKeeps, ColKeeps, PushKeeps, OtherWorkerKeeps, LookKeeps,
     OtherMainKeeps DEF Next, WorkerStep, MainStep
<1> QED BY <1>1, DctInit, PTL DEF Spec

(* No pair is computed by two workers or taken twice, and the list and its *)
(* count agree and stay within the limit.                                  *)
THEOREM DctEachOnce == Spec => []EachOnce
<1>1. IInv => EachOnce
  <2> SUFFICES ASSUME IInv PROVE EachOnce
    OBVIOUS
  <2>1. ASSUME NEW w \in Workers, pc[w] = "push"
        PROVE  Cursor(w) \notin Out
    BY <2>1, CursorType DEF IInv, Cursors
  <2>2. ASSUME NEW w \in Workers, NEW v \in Workers, Cursor(w) = Cursor(v)
        PROVE  w = v
    BY <2>2 DEF Cursor, IInv, Cursors
  <2>3. \A w \in Workers :
          InHand(w) \cap (results \cup hand \cup saved \cup skipped) = {}
    BY <2>1 DEF InHand, Out
  <2>4. \A w \in Workers : \A v \in Workers \ {w} :
          InHand(w) \cap InHand(v) = {}
    BY <2>2 DEF InHand
  <2> QED BY <2>3, <2>4 DEF EachOnce, IInv, Apart, Counted
<1> QED BY <1>1, DctInvariant, PTL

(* No pair that may be flown is missed: when the main thread stops taking  *)
(* results, all have been saved or found too far apart.                    *)
THEOREM DctAllDone == Spec => []AllDone
<1>1. IInv => AllDone
  <2> SUFFICES ASSUME IInv, main \in {"join", "done"}
               PROVE  /\ \A w \in Workers : pc[w] \in {"finished", "done"}
                      /\ results = {} /\ hand = {}
                      /\ {p \in Pairs : MayCompute(p)}
                           \subseteq saved \cup skipped
    BY DEF AllDone
  <2>1. Finished = Workers /\ results = {} /\ hand = {}
    BY DEF IInv, MainKnows
  <2>2. \A w \in Workers : pc[w] \in {"finished", "done"}
    BY <2>1 DEF Finished
  <2>3. \A w \in Workers : row[w] >= NPoints /\ row[w] \in Nat
    BY <2>2 DEF IInv, Cursors, TypeOK
  <2>4. ASSUME NEW p \in Pairs, MayCompute(p)
        PROVE  p \in saved \cup skipped
    <3>1. Owner(p) \in Workers /\ p[1] \in Nat /\ p[1] < NPoints
      BY OwnerType, DctAssumption DEF Points
    <3>2. Before(p)
      BY <2>3, <3>1, DctAssumption DEF Before
    <3> QED BY <3>2, <2>1, <2>4 DEF IInv, Covered, Out
  <2> QED BY <2>1, <2>2, <2>4
<1> QED BY <1>1, DctInvariant, PTL

=============================================================================
