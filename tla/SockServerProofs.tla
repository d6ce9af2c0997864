-------------------------- MODULE SockServerProofs --------------------------
EXTENDS SockServer, Integers, SequenceTheorems, FiniteSetTheorems,
        WellFoundedInduction, TLAPS

(* The types.  A router that is not made yet, or whose object is gone, has *)
(* nothing.                                                                *)
RouterType == [life : {"none", "run", "status", "dead", "gone"},
               sock : BOOLEAN, pid : BOOLEAN, poll : Clients \cup {None},
               recvqueue : Seq(Messages), sendqueue : Nat]
ClientType == [open : BOOLEAN, longpoll : Routers \cup {None},
               log : {"take", "keep", "drop"}, owed : 0..1]
ProcessType == [state : {"none", "live", "zombie", "reaped"},
                made : Seq(Made), out : Seq(Made)]
State == [table : [Sessions -> Routers \cup {None}],
          router : [Routers -> RouterType], client : [Clients -> ClientType],
          given : [Routers -> Seq(Messages)], timer : BOOLEAN,
          loop : {"runs", "quit", "undefined"}]
Processes == [Routers -> ProcessType]
Gone == [life |-> "gone", sock |-> FALSE, pid |-> FALSE, poll |-> None,
         recvqueue |-> <<>>, sendqueue |-> 0]

(* A session has a router of its own.                                      *)
Alive(r) == r.life \in {"run", "status", "dead"}
TableInv(s) ==
    /\ \A k \in Sessions : s.table[k] # None => Alive(s.router[s.table[k]])
    /\ \A j, k \in Sessions :
          s.table[j] = s.table[k] /\ s.table[j] # None => j = k

(* What an object has by its life; a session that is over has something to *)
(* tell.                                                                   *)
LifeInv(s, pr) ==
    \A p \in Routers :
        LET r == s.router[p]
        IN /\ r.life = "none" => /\ r = NoRouter /\ s.given[p] = <<>>
                                 /\ pr[p] = NoProcess
           /\ r.life = "gone" => r = Gone
           /\ r.life = "status" => r.recvqueue # <<>>

(* The messages of a router, from the process over its socket and the      *)
(* queue to the clients: those that are no logs stay in order, and those   *)
(* that are lost were written after all that are told.                     *)
Info(m) == m.kind = "info"
Has(q, m) == \E i \in DOMAIN q : q[i] = m
Ordered(q) == \A i, j \in DOMAIN q :
                 i < j /\ Info(q[i]) /\ Info(q[j]) => q[i].n < q[j].n
Before(q, r) == \A i \in DOMAIN q, j \in DOMAIN r :
                   Info(q[i]) /\ Info(r[j]) => q[i].n < r[j].n
Written(q, made) == \A i \in DOMAIN q :
                       Info(q[i]) => /\ q[i].n \in DOMAIN made
                                     /\ made[q[i].n] = q[i]
Once(q) == \A i, j \in DOMAIN q :
              q[i] = Terminate /\ q[j] = Terminate => i = j
Above(k, q) == \A i \in DOMAIN q : Info(q[i]) => q[i].n < k

Stream(g, q, sock, life, made, out) ==
    /\ Written(g, made) /\ Written(q, made) /\ Written(out, made)
    /\ Ordered(g) /\ Ordered(q) /\ Ordered(out)
    /\ Before(g, q) /\ Before(g, out) /\ Before(q, out)
    /\ Once(g) /\ Once(q) /\ ~(Has(g, Terminate) /\ Has(q, Terminate))
    /\ life \in {"none", "run"} => ~Has(g, Terminate) /\ ~Has(q, Terminate)
    /\ \A k \in DOMAIN made : Info(made[k]) =>
          \/ Has(g, made[k]) \/ Has(q, made[k])
          \/ sock /\ Has(out, made[k])
          \/ ~sock /\ Above(k, g) /\ Above(k, q)
    /\ \A k \in DOMAIN made : made[k].n = k
StreamOf(s, pr, p) ==
    Stream(s.given[p], s.router[p].recvqueue, s.router[p].sock,
           s.router[p].life, pr[p].made, pr[p].out)

Base(s, pr) == /\ s \in State /\ pr \in Processes
               /\ TableInv(s) /\ LifeInv(s, pr)
               /\ \A p \in Routers : StreamOf(s, pr, p)

(* A router and the client that waits for it.                              *)
Linked(s) ==
    \A p \in Routers : LET c == s.router[p].poll
                       IN c # None => s.client[c].longpoll = p
Waiting(r, log) ==
    /\ \A i \in DOMAIN r.recvqueue : r.recvqueue[i].kind = "log"
    /\ r.recvqueue # <<>> => log # "take"
    /\ r.life = "run" \/ log # "take"
Hears(r, cs) ==
    r.poll # None => /\ cs[r.poll].owed = 1
                     /\ Waiting(r, cs[r.poll].log)
Heard(s, p) == Hears(s.router[p], s.client)
Told(s, c) ==
    s.client[c].owed = 1 =>
      /\ s.client[c].longpoll # None
      /\ s.router[s.client[c].longpoll].poll = c

(* The state in the middle of a handler: the client of router x may have   *)
(* something to be told, and the clients in D wait for nothing.            *)
Good(s, pr, x, D) ==
    /\ Base(s, pr) /\ Linked(s)
    /\ \A p \in Routers \ {x} : Heard(s, p)
    /\ \A c \in Clients \ D : Told(s, c)

(* What a call for router p leaves of the others: a dead one may leave the *)
(* table, and a dead one that nothing refers to is gone.                   *)
Calm(s, t, p) ==
    /\ \A q \in Routers \ {p} :
          \/ t.router[q] = s.router[q]
          \/ s.router[q].life = "dead" /\ t.router[q] = Gone
    /\ \A k \in Sessions :
          \/ t.table[k] = s.table[k]
          \/ /\ t.table[k] = None /\ s.table[k] # None
             /\ s.table[k] = p \/ s.router[s.table[k]].life = "dead"

(* Nobody calls back client c; it holds on to router p.                    *)
Unpolled(s, c) == \A p \in Routers : s.router[p].poll # c
Held(s, c, p) == s.client[c].longpoll = p /\ Alive(s.router[p])

(* What a call leaves of the clients, except those in D.                   *)
Kept(s, t, D) ==
    /\ t.loop = "undefined" => s.loop = "undefined"
    /\ \A c \in Clients \ D :
          /\ t.client[c] = s.client[c]
          /\ Unpolled(s, c) => Unpolled(t, c)
          /\ \A p \in Routers : Held(s, c, p) => Held(t, c, p)

(* Client c receives from router p; router p tells the client that waits   *)
(* for it.  A dead router in the table stays, and a router nobody waits    *)
(* for lives on.                                                           *)
Eases(r, z) == \A log : Waiting(r, log) => Waiting(z, log)
Receives(s, t, p, c) ==
    /\ Kept(s, t, {}) /\ Calm(s, t, p) /\ t.client = s.client
    /\ t.router[p].poll \in {s.router[p].poll, None}
    /\ Eases(s.router[p], t.router[p])
    /\ s.router[p].life \in {"run", "status"} /\ t.given[p] = s.given[p]
         => Waiting(t.router[p], s.client[c].log)
    /\ s.router[p].life = "dead" =>
          t.router[p].life = "dead" /\ t.table = s.table
Tells(s, t, p) ==
    /\ Kept(s, t, {s.router[p].poll}) /\ Calm(s, t, p)
    /\ t.router[p].poll = None
    /\ s.router[p].poll = None /\ Alive(s.router[p]) => Alive(t.router[p])
    /\ s.router[p].life = "dead" /\ (\E k \in Sessions : s.table[k] = p)
         => t.router[p].life = "dead"

Put(s, p, r, g) == [s EXCEPT !.router[p] = r, !.given[p] = g]
PutRouter(s, p, r) == [s EXCEPT !.router[p] = r]
PutClient(s, c, x) == [s EXCEPT !.client[c] = x]

IInv == Good(Now, process, None, {})
-----------------------------------------------------------------------------
(* Sequences of messages.                                                  *)

(* A set of numbers has a least one.                                       *)
LEMMA Least ==
    ASSUME NEW S \in SUBSET Nat, S # {}
    PROVE  \E m \in S : \A k \in S : m <= k
<1> DEFINE R == OpToRel(<, Nat)
<1>1. IsWellFoundedOn(R, Nat)
  BY NatLessThanWellFounded
<1>2. R = {q \in Nat \X Nat : q[1] < q[2]}
  BY DEF OpToRel
<1>3. \A x, y \in Nat : <<x, y>> \in R <=> x < y
  BY <1>2
<1> HIDE DEF R
<1>4. PICK x \in S : \A y \in S : <<y, x>> \notin R
  BY <1>1, WFMin
<1>5. \A y \in S : ~(y < x)
  BY <1>3, <1>4
<1> QED
  BY <1>5

(* Messages are records with a number.                                     *)
LEMMA MessageFacts ==
    ASSUME NEW m \in Messages
    PROVE  /\ m.n \in Nat /\ m.kind \in {"log", "info", "terminate"}
           /\ Info(m) => m # Terminate
           /\ m.kind = "terminate" <=> m = Terminate
           /\ m # Terminate => m \in Made
BY SockAssumption DEF Messages, Made, Terminate, Info

(* The server's own message.                                               *)
LEMMA TerminateFacts ==
    /\ Terminate \in Messages /\ Terminate.kind = "terminate"
    /\ ~Info(Terminate) /\ Terminate \notin Made /\ Made \subseteq Messages
BY DEF Messages, Made, Terminate, Info

(* A message at the end.                                                   *)
LEMMA AppendFacts ==
    ASSUME NEW T, NEW q \in Seq(T), NEW m \in T
    PROVE  LET a == Append(q, m)
               l == Len(q) + 1
           IN /\ a \in Seq(T) /\ a # <<>>
              /\ Len(q) \in Nat /\ DOMAIN q = 1..Len(q)
              /\ DOMAIN a = 1..l /\ a[l] = m
              /\ \A i \in DOMAIN q : i \in DOMAIN a /\ a[i] = q[i] /\ i < l
              /\ \A i \in DOMAIN a : i = l \/ i \in DOMAIN q
              /\ \A x : Has(a, x) <=> Has(q, x) \/ x = m
<1> DEFINE a == Append(q, m)
           l == Len(q) + 1
<1>1. /\ a \in Seq(T) /\ a # <<>>
      /\ Len(q) \in Nat /\ DOMAIN q = 1..Len(q)
      /\ DOMAIN a = 1..l /\ a[l] = m
      /\ \A i \in DOMAIN q : i \in DOMAIN a /\ a[i] = q[i] /\ i < l
      /\ \A i \in DOMAIN a : i = l \/ i \in DOMAIN q
      /\ l \in DOMAIN a
  OBVIOUS
<1> HIDE DEF a, l
<1>2. \A x : Has(a, x) <=> Has(q, x) \/ x = m
  BY <1>1 DEF Has
<1> QED
  BY <1>1, <1>2 DEF a, l

(* A message that is newer than the others keeps the order.                *)
LEMMA AppendOrdered ==
    ASSUME NEW q \in Seq(Messages), NEW m \in Messages, Ordered(q),
           \A i \in DOMAIN q : Info(q[i]) /\ Info(m) => q[i].n < m.n
    PROVE  Ordered(Append(q, m))
<1> DEFINE a == Append(q, m)
           l == Len(q) + 1
<1>1. /\ Len(q) \in Nat /\ DOMAIN q = 1..Len(q)
      /\ DOMAIN a = 1..l /\ a[l] = m
      /\ \A i \in DOMAIN q : a[i] = q[i]
      /\ \A i \in DOMAIN a : i = l \/ i \in DOMAIN q
  OBVIOUS
<1> HIDE DEF a
<1>2. ASSUME NEW i \in DOMAIN a, NEW j \in DOMAIN a, i < j,
             Info(a[i]), Info(a[j])
      PROVE  a[i].n < a[j].n
  <2>1. i \in DOMAIN q
    BY <1>1, <1>2
  <2> QED
    BY <1>1, <1>2, <2>1 DEF Ordered
<1>3. Ordered(a)
  BY <1>2 DEF Ordered
<1> QED
  BY <1>3 DEF a

(* The end is appended once.                                               *)
LEMMA AppendOnce ==
    ASSUME NEW q \in Seq(Messages), NEW m \in Messages, Once(q),
           m = Terminate => ~Has(q, Terminate)
    PROVE  Once(Append(q, m))
<1> DEFINE a == Append(q, m)
           l == Len(q) + 1
<1>1. /\ a[l] = m
      /\ \A i \in DOMAIN q : a[i] = q[i]
      /\ \A i \in DOMAIN a : i = l \/ i \in DOMAIN q
  BY AppendFacts
<1> HIDE DEF a, l
<1>2. Once(a)
  BY <1>1 DEF Once, Has
<1> QED
  BY <1>2 DEF a

(* One sequence after another.                                             *)
LEMMA ConcatFacts ==
    ASSUME NEW T, NEW g \in Seq(T), NEW q \in Seq(T)
    PROVE  LET a == g \o q
           IN /\ a \in Seq(T)
              /\ \A i \in DOMAIN a :
                    \/ i \in DOMAIN g /\ a[i] = g[i]
                    \/ /\ i > Len(g) /\ i - Len(g) \in DOMAIN q
                       /\ a[i] = q[i - Len(g)]
              /\ \A x : Has(a, x) <=> Has(g, x) \/ Has(q, x)
              /\ a = g <=> q = <<>>
<1> DEFINE a == g \o q
           n == Len(g)
<1>1. /\ a \in Seq(T) /\ n \in Nat /\ DOMAIN a = 1..(n + Len(q))
      /\ Len(q) \in Nat /\ DOMAIN q = 1..Len(q) /\ DOMAIN g = 1..n
      /\ \A i \in 1..n : a[i] = g[i]
      /\ \A i \in 1..Len(q) : a[n + i] = q[i]
      /\ Len(a) = n + Len(q)
  OBVIOUS
<1>2. \A i \in DOMAIN a : \/ i \in DOMAIN g /\ a[i] = g[i]
                          \/ /\ i > n /\ i - n \in DOMAIN q
                             /\ a[i] = q[i - n]
  <2> HIDE DEF a, n
  <2> TAKE i \in DOMAIN a
  <2>1. CASE i <= n
    BY <1>1, <2>1
  <2>2. CASE i > n
    <3>1. i - n \in 1..Len(q) /\ n + (i - n) = i
      BY <1>1, <2>2
    <3> QED
      BY <1>1, <2>2, <3>1
  <2> QED
    BY <1>1, <2>1, <2>2
<1>3. /\ \A i \in DOMAIN g : i \in DOMAIN a /\ a[i] = g[i]
      /\ \A i \in DOMAIN q : n + i \in DOMAIN a /\ a[n + i] = q[i]
  <2> HIDE DEF a, n
  <2> QED
    BY <1>1
<1>4. a = g <=> q = <<>>
  OBVIOUS
<1> HIDE DEF a, n
<1>5. \A x : Has(a, x) <=> Has(g, x) \/ Has(q, x)
  <2> TAKE x
  <2>1. Has(a, x) => Has(g, x) \/ Has(q, x)
    BY <1>2 DEF Has
  <2>2. Has(g, x) => Has(a, x)
    BY <1>3 DEF Has
  <2>3. Has(q, x) => Has(a, x)
    BY <1>3 DEF Has
  <2> QED
    BY <2>1, <2>2, <2>3
<1> QED
  BY <1>1, <1>2, <1>4, <1>5 DEF a, n

(* The order goes on from one sequence to the next.                        *)
LEMMA ConcatOrdered ==
    ASSUME NEW g \in Seq(Messages), NEW q \in Seq(Messages),
           Ordered(g), Ordered(q), Before(g, q)
    PROVE  Ordered(g \o q)
<1> DEFINE a == g \o q
           n == Len(g)
<1>1. /\ n \in Nat /\ DOMAIN g = 1..n /\ DOMAIN q = 1..Len(q)
      /\ Len(q) \in Nat /\ DOMAIN a = 1..(n + Len(q))
  OBVIOUS
<1>2. \A i \in DOMAIN a : \/ i \in DOMAIN g /\ a[i] = g[i]
                          \/ /\ i > n /\ i - n \in DOMAIN q
                             /\ a[i] = q[i - n]
  BY ConcatFacts
<1> HIDE DEF a, n
<1>3. ASSUME NEW i \in DOMAIN a, NEW j \in DOMAIN a, i < j,
             Info(a[i]), Info(a[j])
      PROVE  a[i].n < a[j].n
  <2>1. i \in Nat /\ j \in Nat
    BY <1>1
  <2>2. CASE j \in DOMAIN g /\ a[j] = g[j]
    <3>1. i \in DOMAIN g /\ ~(i > n)
      BY <1>1, <1>3, <2>1, <2>2
    <3>2. a[i] = g[i]
      BY <1>2, <3>1
    <3> QED
      BY <1>3, <2>2, <3>1, <3>2 DEF Ordered
  <2>3. CASE j > n /\ j - n \in DOMAIN q /\ a[j] = q[j - n]
    <3>1. CASE i \in DOMAIN g /\ a[i] = g[i]
      BY <1>3, <2>3, <3>1 DEF Before
    <3>2. CASE i > n /\ i - n \in DOMAIN q /\ a[i] = q[i - n]
      <4>1. i - n < j - n
        BY <1>1, <1>3, <2>1
      <4> QED
        BY <1>3, <2>3, <3>2, <4>1 DEF Ordered
    <3> QED
      BY <1>2, <3>1, <3>2
  <2> QED
    BY <1>2, <2>2, <2>3
<1>4. Ordered(a)
  BY <1>3 DEF Ordered
<1> QED
  BY <1>4 DEF a

(* The end is in one of two sequences.                                     *)
LEMMA ConcatOnce ==
    ASSUME NEW g \in Seq(Messages), NEW q \in Seq(Messages),
           Once(g), Once(q), ~(Has(g, Terminate) /\ Has(q, Terminate))
    PROVE  Once(g \o q)
<1> DEFINE a == g \o q
           n == Len(g)
<1>1. /\ n \in Nat /\ Len(q) \in Nat /\ DOMAIN a = 1..(n + Len(q))
  OBVIOUS
<1>2. \A i \in DOMAIN a : \/ i \in DOMAIN g /\ a[i] = g[i]
                          \/ /\ i > n /\ i - n \in DOMAIN q
                             /\ a[i] = q[i - n]
  BY ConcatFacts
<1> HIDE DEF a, n
<1>3. ASSUME NEW i \in DOMAIN a, NEW j \in DOMAIN a,
             a[i] = Terminate, a[j] = Terminate
      PROVE  i = j
  <2>1. i \in Nat /\ j \in Nat
    BY <1>1
  <2>2. CASE Has(g, Terminate)
    <3>1. i \in DOMAIN g /\ a[i] = g[i] /\ j \in DOMAIN g /\ a[j] = g[j]
      BY <1>2, <1>3, <2>2 DEF Has
    <3> QED
      BY <1>3, <3>1 DEF Once
  <2>3. CASE ~Has(g, Terminate)
    <3>1. /\ i - n \in DOMAIN q /\ a[i] = q[i - n]
          /\ j - n \in DOMAIN q /\ a[j] = q[j - n]
      BY <1>2, <1>3, <2>3 DEF Has
    <3>2. i - n = j - n
      BY <1>3, <3>1 DEF Once
    <3> QED
      BY <1>1, <2>1, <3>2
  <2> QED
    BY <2>2, <2>3
<1>4. Once(a)
  BY <1>3 DEF Once
<1> QED
  BY <1>4 DEF a

-----------------------------------------------------------------------------
(* The loop of Router::receive().                                          *)

(* What it has done after i messages: those that are no logs have been     *)
(* taken or left, and nothing is left that could have been taken.          *)
Split(queue, i, log, f) ==
    /\ f \in [taken : Seq(Messages), left : Seq(Messages)]
    /\ \A x : Has(f.taken, x) \/ Has(f.left, x) =>
                \E h \in 1..i : queue[h] = x
    /\ \A h \in 1..i : queue[h].kind # "log" \/ log # "drop" =>
          Has(f.taken, queue[h]) \/ Has(f.left, queue[h])
    /\ \A j \in DOMAIN f.left :
          \/ f.left[j].kind = "log" /\ log = "keep"
          \/ Len(f.taken) >= Batch
    /\ Ordered(f.taken) /\ Ordered(f.left) /\ Before(f.taken, f.left)
    /\ Once(f.taken) /\ Once(f.left)
    /\ ~(Has(f.taken, Terminate) /\ Has(f.left, Terminate))

(* One turn of the loop.                                                   *)
LEMMA SortSplits ==
    ASSUME NEW queue \in Seq(Messages), NEW log, Ordered(queue), Once(queue),
           NEW i \in 1..Len(queue), NEW f, Split(queue, i - 1, log, f)
    PROVE  Split(queue, i, log, Sort(f, queue[i], log))
<1> DEFINE m == queue[i]
           t == f.taken
           l == f.left
<1>1. /\ i \in Nat /\ i - 1 \in Nat /\ DOMAIN queue = 1..Len(queue)
      /\ Len(queue) \in Nat /\ m \in Messages /\ i \in 1..i
      /\ \A h \in 1..i : h \in 1..(i - 1) \/ h = i
      /\ \A h \in 1..(i - 1) : h \in 1..i /\ h \in DOMAIN queue /\ h < i
      /\ i \in DOMAIN queue
  OBVIOUS
<1>2. /\ t \in Seq(Messages) /\ l \in Seq(Messages)
      /\ f = [taken |-> t, left |-> l]
  BY DEF Split
<1>3. Batch \in Nat /\ Batch >= 1
  BY SockAssumption
<1> DEFINE Prefix(x, k) == \E h \in 1..k : queue[h] = x
<1>4. /\ \A x : Has(t, x) \/ Has(l, x) => Prefix(x, i - 1)
      /\ \A h \in 1..(i - 1) : queue[h].kind # "log" \/ log # "drop" =>
            Has(t, queue[h]) \/ Has(l, queue[h])
      /\ \A j \in DOMAIN l :
            (l[j].kind = "log" /\ log = "keep") \/ Len(t) >= Batch
      /\ Ordered(t) /\ Ordered(l) /\ Before(t, l)
      /\ Once(t) /\ Once(l) /\ ~(Has(t, Terminate) /\ Has(l, Terminate))
  BY DEF Split
<1>5. \A x : Prefix(x, i - 1) => Prefix(x, i)
  BY <1>1
<1>6. Prefix(m, i)
  BY <1>1
<1>7. ASSUME m = Terminate
      PROVE  ~Has(t, Terminate) /\ ~Has(l, Terminate)
  <2>1. ~Prefix(Terminate, i - 1)
    BY <1>1, <1>7 DEF Once
  <2> QED
    BY <1>4, <2>1
<1>8. ASSUME Info(m), NEW x, Prefix(x, i - 1), Info(x)
      PROVE  x.n < m.n
  BY <1>1, <1>8 DEF Ordered
<1>9. /\ \A j \in DOMAIN t : Info(t[j]) /\ Info(m) => t[j].n < m.n
      /\ \A j \in DOMAIN l : Info(l[j]) /\ Info(m) => l[j].n < m.n
  <2>1. /\ \A j \in DOMAIN t : Prefix(t[j], i - 1)
        /\ \A j \in DOMAIN l : Prefix(l[j], i - 1)
    BY <1>4 DEF Has
  <2> HIDE DEF Prefix, m, t, l
  <2> QED
    BY <1>8, <2>1
<1> HIDE DEF m, t, l
<1>10. CASE m.kind = "log" /\ log = "drop"
  <2>1. Sort(f, m, log) = f
    BY <1>10 DEF Sort
  <2>2. Split(queue, i, log, f)
    BY <1>1, <1>2, <1>4, <1>5, <1>10 DEF Split, m, t, l
  <2> QED
    BY <2>1, <2>2 DEF m
<1>11. CASE /\ ~(m.kind = "log" /\ log = "drop")
            /\ (m.kind = "log" /\ log = "keep") \/ Len(t) >= Batch
  <2> DEFINE a == Append(l, m)
             g == [taken |-> t, left |-> a]
  <2>1. Sort(f, m, log) = g
    <3>1. Sort(f, m, log) = [f EXCEPT !.left = Append(@, m)]
      BY <1>11 DEF Sort, t
    <3> QED
      BY <1>2, <3>1
  <2>2. /\ a \in Seq(Messages) /\ a[Len(l) + 1] = m
        /\ \A j \in DOMAIN l : a[j] = l[j]
        /\ \A j \in DOMAIN a : j = Len(l) + 1 \/ j \in DOMAIN l
        /\ \A x : Has(a, x) <=> Has(l, x) \/ x = m
    BY <1>1, <1>2, AppendFacts
  <2>3. Ordered(a)
    BY <1>1, <1>2, <1>4, <1>9, AppendOrdered
  <2>4. Once(a)
    BY <1>1, <1>2, <1>4, <1>7, AppendOnce
  <2> HIDE DEF a
  <2>5. ~(Has(t, Terminate) /\ Has(a, Terminate))
    BY <1>4, <1>7, <2>2
  <2>6. Before(t, a)
    BY <1>4, <1>9, <2>2 DEF Before
  <2>7. \A j \in DOMAIN a :
           (a[j].kind = "log" /\ log = "keep") \/ Len(t) >= Batch
    BY <1>4, <1>11, <2>2
  <2>8. \A x : Has(t, x) \/ Has(a, x) => Prefix(x, i)
    BY <1>4, <1>5, <1>6, <2>2
  <2>9. \A h \in 1..i : queue[h].kind # "log" \/ log # "drop" =>
           Has(t, queue[h]) \/ Has(a, queue[h])
    BY <1>1, <1>4, <2>2 DEF m
  <2> HIDE DEF g
  <2>10. g.taken = t /\ g.left = a
         /\ g \in [taken : Seq(Messages), left : Seq(Messages)]
    BY <1>2, <2>2 DEF g
  <2>11. Split(queue, i, log, g)
    BY <1>4, <2>3, <2>4, <2>5, <2>6, <2>7, <2>8, <2>9, <2>10 DEF Split
  <2> QED
    BY <2>1, <2>11 DEF m
<1>12. CASE /\ ~(m.kind = "log" /\ log = "drop")
            /\ ~((m.kind = "log" /\ log = "keep") \/ Len(t) >= Batch)
  <2> DEFINE a == Append(t, m)
             g == [taken |-> a, left |-> l]
  <2>1. Sort(f, m, log) = g
    <3>1. Sort(f, m, log) = [f EXCEPT !.taken = Append(@, m)]
      BY <1>12 DEF Sort, t
    <3> QED
      BY <1>2, <3>1
  <2>2. /\ a \in Seq(Messages) /\ a[Len(t) + 1] = m
        /\ \A j \in DOMAIN t : a[j] = t[j]
        /\ \A j \in DOMAIN a : j = Len(t) + 1 \/ j \in DOMAIN t
        /\ \A x : Has(a, x) <=> Has(t, x) \/ x = m
    BY <1>1, <1>2, AppendFacts
  <2>3. Ordered(a)
    BY <1>1, <1>2, <1>4, <1>9, AppendOrdered
  <2>4. Once(a)
    BY <1>1, <1>2, <1>4, <1>7, AppendOnce
  <2>5. \A j \in DOMAIN l : l[j].kind = "log" /\ log = "keep"
    BY <1>4, <1>12
  <2> HIDE DEF a
  <2>6. ~(Has(a, Terminate) /\ Has(l, Terminate))
    BY <1>4, <1>7, <2>2
  <2>7. Before(a, l)
    BY <2>5 DEF Before, Info
  <2>8. \A x : Has(a, x) \/ Has(l, x) => Prefix(x, i)
    BY <1>4, <1>5, <1>6, <2>2
  <2>9. \A h \in 1..i : queue[h].kind # "log" \/ log # "drop" =>
           Has(a, queue[h]) \/ Has(l, queue[h])
    BY <1>1, <1>4, <2>2 DEF m
  <2> HIDE DEF g
  <2>10. g.taken = a /\ g.left = l
         /\ g \in [taken : Seq(Messages), left : Seq(Messages)]
    BY <1>2, <2>2 DEF g
  <2>11. Split(queue, i, log, g)
    BY <1>4, <2>3, <2>4, <2>5, <2>6, <2>7, <2>8, <2>9, <2>10 DEF Split
  <2> QED
    BY <2>1, <2>11 DEF m
<1> QED
  BY <1>10, <1>11, <1>12

(* The recursive function exists: there is no first turn without one.      *)
LEMMA SortedTurns ==
    ASSUME NEW queue \in Seq(Messages), NEW log
    PROVE  /\ Sorted(queue, log)[0] = [taken |-> <<>>, left |-> <<>>]
           /\ \A i \in 1..Len(queue) :
                 Sorted(queue, log)[i] =
                    Sort(Sorted(queue, log)[i - 1], queue[i], log)
<1> DEFINE n == Len(queue)
           start == [taken |-> <<>>, left |-> <<>>]
           Is(f, m) == f = [i \in 0..m |-> IF i = 0 THEN start
                                    ELSE Sort(f[i - 1], queue[i], log)]
           Missing == {m \in Nat : ~ \E f : Is(f, m)}
<1>0. n \in Nat
  OBVIOUS
<1>1. Missing = {}
  <2> SUFFICES ASSUME Missing # {} PROVE FALSE
    OBVIOUS
  <2>1. PICK m \in Missing : \A k \in Missing : m <= k
    <3> HIDE DEF Missing
    <3>1. Missing \in SUBSET Nat
      BY DEF Missing
    <3> QED
      BY <3>1, Least
  <2>2. CASE m = 0
    <3>1. Is([i \in {0} |-> start], 0)
      <4>1. 0..0 = {0}
        OBVIOUS
      <4> QED
        BY <4>1
    <3> HIDE DEF Is
    <3> QED
      BY <2>2, <3>1
  <2>3. CASE m # 0
    <3>1. m - 1 \in Nat /\ m - 1 \notin Missing
      <4> HIDE DEF Is
      <4> QED
        BY <2>1, <2>3
    <3>2. PICK f : Is(f, m - 1)
      <4> HIDE DEF Is
      <4> QED
        BY <3>1
    <3> DEFINE g == [i \in 0..m |->
                       IF i = m THEN Sort(f[m - 1], queue[m], log) ELSE f[i]]
               h == [i \in 0..m |-> IF i = 0 THEN start
                                    ELSE Sort(g[i - 1], queue[i], log)]
    <3>3. \A i \in 0..(m-1) : f[i] = IF i = 0 THEN start
                                    ELSE Sort(f[i - 1], queue[i], log)
      BY <3>2
    <3>4. ASSUME NEW i \in 0..m
          PROVE  g[i] = h[i]
      <4>1. CASE i = m
        <5>1. g[i] = Sort(f[m - 1], queue[m], log) /\ g[m - 1] = f[m - 1]
          BY <2>3, <4>1
        <5> QED
          BY <2>3, <4>1, <5>1
      <4>2. CASE i # m
        <5>1. /\ g[i] = f[i] /\ (i # 0 => g[i - 1] = f[i - 1])
              /\ i \in 0..(m - 1)
          BY <4>2
        <5> HIDE DEF g
        <5> QED
          BY <5>1, <3>3
      <4> QED
        BY <4>1, <4>2
    <3>5. /\ g = [i \in DOMAIN g |-> g[i]] /\ DOMAIN g = 0..m
          /\ h = [i \in DOMAIN h |-> h[i]] /\ DOMAIN h = 0..m
      OBVIOUS
    <3> HIDE DEF g, h
    <3>6. g = h
      BY <3>4, <3>5
    <3>7. Is(g, m)
      BY <3>6 DEF h
    <3> HIDE DEF Is
    <3> QED
      BY <3>7
  <2> QED
    BY <2>2, <2>3
<1>2. \E f : Is(f, n)
  BY <1>0, <1>1
<1>3. Sorted(queue, log) = CHOOSE f : Is(f, n)
  BY DEF Sorted
<1>4. Is(Sorted(queue, log), n)
  <2> HIDE DEF Is
  <2> QED
   BY <1>2, <1>3
<1> QED
  BY <1>0, <1>4

(* What the loop has done at its end.                                      *)
LEMMA SortedSplits ==
    ASSUME NEW queue \in Seq(Messages), NEW log, Ordered(queue), Once(queue)
    PROVE  Split(queue, Len(queue), log, Sorted(queue, log)[Len(queue)])
<1> DEFINE n == Len(queue)
           f == Sorted(queue, log)
           Bad == {i \in 0..n : ~Split(queue, i, log, f[i])}
<1>1. n \in Nat
  OBVIOUS
<1>2. Split(queue, 0, log, f[0])
  <2> DEFINE g == [taken |-> <<>>, left |-> <<>>]
  <2>1. <<>> \in Seq(Messages) /\ DOMAIN <<>> = {} /\ ~Has(<<>>, Terminate)
    BY DEF Has
  <2>2. /\ g \in [taken : Seq(Messages), left : Seq(Messages)]
        /\ g.taken = <<>> /\ g.left = <<>>
    BY <2>1
  <2>3. 1..0 = {} /\ \A x : ~Has(<<>>, x)
    BY DEF Has
  <2> HIDE DEF g
  <2>4. Split(queue, 0, log, g)
    BY <2>1, <2>2, <2>3 DEF Split, Ordered, Before, Once
  <2> QED
    BY <2>4, SortedTurns DEF g
<1>3. ASSUME NEW i \in 1..n, Split(queue, i - 1, log, f[i - 1])
      PROVE  Split(queue, i, log, f[i])
  <2>1. f[i] = Sort(f[i - 1], queue[i], log)
    BY SortedTurns
  <2> HIDE DEF f
  <2> QED
    BY <1>3, <2>1, SortSplits
<1> HIDE DEF f
<1>4. Bad = {}
  <2> SUFFICES ASSUME Bad # {} PROVE FALSE
    OBVIOUS
  <2>1. PICK i \in Bad : \A k \in Bad : i <= k
    <3>1. Bad \in SUBSET Nat
      BY <1>1
    <3> HIDE DEF Bad
    <3> QED
      BY <3>1, Least
  <2>2. i # 0 /\ i \in 0..n
    BY <1>2, <2>1
  <2>3. i - 1 \in 0..n /\ i - 1 \notin Bad /\ i \in 1..n
    BY <1>1, <2>1, <2>2
  <2>4. Split(queue, i - 1, log, f[i - 1])
    BY <2>3
  <2> QED
    BY <1>3, <2>1, <2>3, <2>4
<1> QED
  BY <1>1, <1>4 DEF f

-----------------------------------------------------------------------------
(* What happens to the messages of a router.                               *)

(* A client receives: what is taken goes to it, what is left stays.        *)
LEMMA StreamReceive ==
    ASSUME NEW g \in Seq(Messages), NEW q \in Seq(Messages),
           NEW made \in Seq(Made), NEW out \in Seq(Made),
           NEW sock \in BOOLEAN, NEW life, Stream(g, q, sock, life, made, out),
           NEW log, NEW f, Split(q, Len(q), log, f)
    PROVE  Stream(g \o f.taken, f.left, sock, life, made, out)
<1> DEFINE t == f.taken
           l == f.left
           a == g \o t
<1>1. t \in Seq(Messages) /\ l \in Seq(Messages)
  BY DEF Split
<1>2. /\ a \in Seq(Messages)
      /\ \A x : Has(a, x) <=> Has(g, x) \/ Has(t, x)
  BY <1>1, ConcatFacts
<1>3. /\ DOMAIN q = 1..Len(q)
      /\ \A i \in DOMAIN q : q[i] \in Messages
      /\ \A k \in DOMAIN made : made[k] \in Made
  OBVIOUS
<1> HIDE DEF t, l
<1>4. \A x : Has(t, x) \/ Has(l, x) => Has(q, x)
  BY <1>3 DEF Split, Has, t, l
<1>5. \A x : Has(q, x) /\ x.kind # "log" => Has(t, x) \/ Has(l, x)
  BY <1>3 DEF Split, Has, t, l
<1>6. /\ Ordered(t) /\ Ordered(l) /\ Before(t, l) /\ Once(t) /\ Once(l)
      /\ ~(Has(t, Terminate) /\ Has(l, Terminate))
  BY DEF Split, t, l
<1>7. /\ \A i \in DOMAIN t : Has(q, t[i])
      /\ \A i \in DOMAIN l : Has(q, l[i])
  BY <1>4 DEF Has
<1>8. Before(g, t) /\ Before(g, l)
  BY <1>7 DEF Stream, Before, Has
<1>9. Ordered(a)
  BY <1>1, <1>6, <1>8, ConcatOrdered DEF Stream
<1>10. Once(a)
  BY <1>1, <1>4, <1>6, ConcatOnce DEF Stream
<1> HIDE DEF a
<1>11. \A i \in DOMAIN a : Has(g, a[i]) \/ Has(t, a[i])
  BY <1>2 DEF Has
<1>12. Before(a, l)
  BY <1>6, <1>8, <1>11 DEF Before, Has
<1>13. Before(a, out) /\ Before(l, out)
  <2>1. \A i \in DOMAIN a : Has(g, a[i]) \/ Has(q, a[i])
    BY <1>4, <1>11
  <2> QED
    BY <1>7, <2>1 DEF Stream, Before, Has
<1>14. Written(a, made) /\ Written(l, made)
  <2>1. \A i \in DOMAIN a : Has(g, a[i]) \/ Has(q, a[i])
    BY <1>4, <1>11
  <2> QED
    BY <1>7, <2>1 DEF Stream, Written, Has
<1>15. ~(Has(a, Terminate) /\ Has(l, Terminate))
  BY <1>2, <1>4, <1>6 DEF Stream
<1>16. life \in {"none", "run"} => ~Has(a, Terminate) /\ ~Has(l, Terminate)
  BY <1>2, <1>4 DEF Stream
<1>17. ASSUME NEW k \in DOMAIN made, Info(made[k])
       PROVE  \/ Has(a, made[k]) \/ Has(l, made[k])
              \/ sock /\ Has(out, made[k])
              \/ ~sock /\ Above(k, a) /\ Above(k, l)
  <2>1. Has(q, made[k]) => Has(t, made[k]) \/ Has(l, made[k])
    BY <1>5, <1>17 DEF Info
  <2>2. CASE Has(g, made[k]) \/ Has(q, made[k]) \/ (sock /\ Has(out, made[k]))
    BY <1>2, <2>1, <2>2
  <2>3. CASE ~sock /\ Above(k, g) /\ Above(k, q)
    <3>1. Above(k, a) /\ Above(k, l)
      BY <1>4, <1>7, <1>11, <2>3 DEF Above, Has
    <3> QED
      BY <2>3, <3>1
  <2> QED
    BY <1>17, <2>2, <2>3 DEF Stream
<1>18. /\ Written(out, made) /\ Ordered(out)
       /\ \A k \in DOMAIN made : made[k].n = k
  BY DEF Stream
<1>19. Stream(a, l, sock, life, made, out)
  BY <1>6, <1>9, <1>10, <1>12, <1>13, <1>14, <1>15, <1>16, <1>17, <1>18
  DEF Stream
<1> QED
  BY <1>19 DEF a, t, l

(* The session ends, and the server tells it.                              *)
LEMMA StreamEnds ==
    ASSUME NEW g \in Seq(Messages), NEW q \in Seq(Messages),
           NEW made \in Seq(Made), NEW out \in Seq(Made),
           NEW sock \in BOOLEAN, Stream(g, q, sock, "run", made, out)
    PROVE  Stream(g, Append(q, Terminate), sock, "status", made, out)
<1> DEFINE a == Append(q, Terminate)
           l == Len(q) + 1
<1>1. Terminate \in Messages /\ ~Info(Terminate)
  BY TerminateFacts
<1>2. /\ a \in Seq(Messages) /\ a[l] = Terminate
      /\ \A i \in DOMAIN q : a[i] = q[i]
      /\ \A i \in DOMAIN a : i = l \/ i \in DOMAIN q
      /\ \A x : Has(a, x) <=> Has(q, x) \/ x = Terminate
  BY <1>1, AppendFacts
<1>3. ~Has(g, Terminate) /\ ~Has(q, Terminate)
  BY DEF Stream
<1>4. Ordered(a)
  BY <1>1, AppendOrdered DEF Stream
<1>5. Once(a)
  BY <1>1, <1>3, AppendOnce DEF Stream
<1> HIDE DEF a, l
<1>6. Written(a, made) /\ Before(g, a) /\ Before(a, out)
  BY <1>1, <1>2 DEF Stream, Written, Before
<1>7. \A k \in DOMAIN made : Above(k, q) => Above(k, a)
  BY <1>1, <1>2 DEF Above
<1>8. \A x : Has(q, x) => Has(a, x)
  BY <1>2
<1>9. Stream(g, a, sock, "status", made, out)
  BY <1>3, <1>4, <1>5, <1>6, <1>7, <1>8 DEF Stream
<1> QED
  BY <1>9 DEF a

(* The server closes its socket, and reads no more of it.                  *)
LEMMA StreamCloses ==
    ASSUME NEW g \in Seq(Messages), NEW q \in Seq(Messages),
           NEW made \in Seq(Made), NEW out \in Seq(Made),
           NEW sock \in BOOLEAN, NEW life, Stream(g, q, sock, life, made, out)
    PROVE  Stream(g, q, FALSE, life, made, out)
<1>1. ASSUME NEW k \in DOMAIN made, Has(out, made[k]), Info(made[k])
      PROVE  Above(k, g) /\ Above(k, q)
  <2>1. made[k].n = k
    BY DEF Stream
  <2> QED
    BY <1>1, <2>1 DEF Stream, Before, Above, Has
<1> QED
  BY <1>1 DEF Stream

(* Its queue is thrown away.                                               *)
LEMMA StreamDrops ==
    ASSUME NEW g \in Seq(Messages), NEW q \in Seq(Messages),
           NEW made \in Seq(Made), NEW out \in Seq(Made),
           NEW sock \in BOOLEAN, NEW life, Stream(g, q, sock, life, made, out),
           NEW to \in {"dead", "gone"}
    PROVE  Stream(g, <<>>, FALSE, to, made, out)
<1>1. Stream(g, q, FALSE, life, made, out)
  BY StreamCloses
<1>2. DOMAIN <<>> = {} /\ \A x : ~Has(<<>>, x)
  BY DEF Has
<1>3. ASSUME NEW k \in DOMAIN made, Has(q, made[k]), Info(made[k])
      PROVE  Above(k, g)
  <2>1. made[k].n = k
    BY DEF Stream
  <2> QED
    BY <1>3, <2>1 DEF Stream, Before, Above, Has
<1> QED
  BY <1>1, <1>2, <1>3
  DEF Stream, Written, Ordered, Before, Once, Above

(* A message is read from the socket.                                      *)
LEMMA StreamReads ==
    ASSUME NEW g \in Seq(Messages), NEW q \in Seq(Messages),
           NEW made \in Seq(Made), NEW out \in Seq(Made), out # <<>>,
           NEW life, Stream(g, q, TRUE, life, made, out)
    PROVE  Stream(g, Append(q, Head(out)), TRUE, life, made, Tail(out))
<1> DEFINE m == Head(out)
           r == Tail(out)
           a == Append(q, m)
           l == Len(q) + 1
<1>1. /\ m \in Made /\ r \in Seq(Made) /\ 1 \in DOMAIN out /\ out[1] = m
      /\ \A i \in DOMAIN r : i + 1 \in DOMAIN out /\ r[i] = out[i + 1]
                             /\ i \in Nat /\ i >= 1
      /\ \A i \in DOMAIN out : i = 1 \/ (i - 1 \in DOMAIN r
                                          /\ r[i - 1] = out[i])
  OBVIOUS
<1>2. m \in Messages /\ m # Terminate
  BY <1>1, TerminateFacts
<1>3. /\ a \in Seq(Messages) /\ a[l] = m
      /\ \A i \in DOMAIN q : a[i] = q[i]
      /\ \A i \in DOMAIN a : i = l \/ i \in DOMAIN q
      /\ \A x : Has(a, x) <=> Has(q, x) \/ x = m
  BY <1>2, AppendFacts
<1>4. \A i \in DOMAIN q : Info(q[i]) /\ Info(m) => q[i].n < m.n
  BY <1>1 DEF Stream, Before
<1>5. Ordered(a)
  BY <1>2, <1>4, AppendOrdered DEF Stream
<1>6. Once(a)
  BY <1>2, AppendOnce DEF Stream
<1> HIDE DEF a, l, r, m
<1>7. Written(a, made) /\ Written(r, made)
  <2>1. Written(out, made) /\ Written(q, made)
    BY DEF Stream
  <2>2. Written(r, made)
    BY <1>1, <2>1 DEF Written
  <2>3. Info(m) => m.n \in DOMAIN made /\ made[m.n] = m
    BY <1>1, <2>1 DEF Written
  <2>4. Written(a, made)
    BY <1>3, <2>1, <2>3 DEF Written
  <2> QED
    BY <2>2, <2>4
<1>8. Before(g, a) /\ Before(g, r)
  <2>1. Before(g, q) /\ Before(g, out)
    BY DEF Stream
  <2>2. \A i \in DOMAIN g : Info(g[i]) /\ Info(m) => g[i].n < m.n
    BY <1>1, <2>1 DEF Before
  <2>3. Before(g, a)
    BY <1>3, <2>1, <2>2 DEF Before
  <2>4. Before(g, r)
    BY <1>1, <2>1 DEF Before
  <2> QED
    BY <2>3, <2>4
<1>9. Ordered(r)
  <2>1. \A i, j \in DOMAIN r : i < j => i + 1 < j + 1
    BY <1>1
  <2> QED
    BY <1>1, <2>1 DEF Stream, Ordered
<1>10. Before(a, r)
  <2>1. ASSUME NEW j \in DOMAIN r, Info(m), Info(r[j])
        PROVE  m.n < r[j].n
    <3>1. 1 < j + 1 /\ j + 1 \in DOMAIN out
      BY <1>1
    <3> QED
      BY <1>1, <2>1, <3>1 DEF Stream, Ordered
  <2>2. Before(q, r)
    BY <1>1 DEF Stream, Before
  <2> QED
    BY <1>3, <2>1, <2>2 DEF Before
<1>11. \A x : Has(out, x) => Has(r, x) \/ Has(a, x)
  <2> SUFFICES ASSUME NEW x, Has(out, x) PROVE Has(r, x) \/ x = m
    BY <1>3
  <2>1. PICK i \in DOMAIN out : out[i] = x
    BY DEF Has
  <2>2. CASE i = 1
    BY <1>1, <2>1, <2>2
  <2>3. CASE i # 1
    <3>1. i - 1 \in DOMAIN r /\ r[i - 1] = x
      BY <1>1, <2>1, <2>3
    <3> QED
      BY <3>1 DEF Has
  <2> QED
    BY <2>2, <2>3
<1>12. \A x : Has(q, x) => Has(a, x)
  BY <1>3
<1>13. ~Has(q, Terminate) => ~Has(a, Terminate)
  BY <1>2, <1>3
<1>14. Stream(g, a, TRUE, life, made, r)
  BY <1>5, <1>6, <1>7, <1>8, <1>9, <1>10, <1>11, <1>12, <1>13 DEF Stream
<1> QED
  BY <1>14 DEF a, m, r

(* A message is dropped from the socket of a session that is closed.       *)
LEMMA StreamForgets ==
    ASSUME NEW g \in Seq(Messages), NEW q \in Seq(Messages),
           NEW made \in Seq(Made), NEW out \in Seq(Made), out # <<>>,
           NEW life, Stream(g, q, FALSE, life, made, out)
    PROVE  Stream(g, q, FALSE, life, made, Tail(out))
<1> DEFINE r == Tail(out)
<1>1. \A i \in DOMAIN r : i + 1 \in DOMAIN out /\ r[i] = out[i + 1]
                          /\ i \in Nat
  OBVIOUS
<1> HIDE DEF r
<1>2. \A i, j \in DOMAIN r : i < j => i + 1 < j + 1
  BY <1>1
<1>3. Written(r, made) /\ Ordered(r) /\ Before(g, r) /\ Before(q, r)
  BY <1>1, <1>2 DEF Stream, Written, Ordered, Before
<1>4. Stream(g, q, FALSE, life, made, r)
  BY <1>3 DEF Stream
<1> QED
  BY <1>4 DEF r

(* A process reports.                                                      *)
LEMMA StreamReports ==
    ASSUME NEW g \in Seq(Messages), NEW q \in Seq(Messages),
           NEW made \in Seq(Made), NEW out \in Seq(Made), NEW m \in Made,
           m.n = Len(made) + 1,
           NEW life, Stream(g, q, TRUE, life, made, out)
    PROVE  Stream(g, q, TRUE, life, Append(made, m), Append(out, m))
<1> DEFINE n == Len(made) + 1
           a == Append(made, m)
           o == Append(out, m)
           l == Len(out) + 1
<1>1. /\ DOMAIN made = 1..Len(made) /\ Len(made) \in Nat
      /\ DOMAIN a = 1..n /\ a[n] = m /\ n \in DOMAIN a
      /\ \A k \in DOMAIN made : a[k] = made[k] /\ k \in DOMAIN a /\ k < n
      /\ \A k \in DOMAIN a : k = n \/ k \in DOMAIN made
      /\ m.n = n
  OBVIOUS
<1>2. /\ o[l] = m
      /\ \A i \in DOMAIN out : o[i] = out[i] /\ i \in DOMAIN o
      /\ \A i \in DOMAIN o : i = l \/ i \in DOMAIN out
      /\ \A x : Has(o, x) <=> Has(out, x) \/ x = m
  BY AppendFacts
<1>3. out \in Seq(Messages) /\ m \in Messages
  BY TerminateFacts
<1>4. /\ \A i \in DOMAIN g : Info(g[i]) => g[i].n < n
      /\ \A i \in DOMAIN q : Info(q[i]) => q[i].n < n
      /\ \A i \in DOMAIN out : Info(out[i]) => out[i].n < n
  BY <1>1 DEF Stream, Written
<1>5. Ordered(o)
  BY <1>1, <1>3, <1>4, AppendOrdered DEF Stream
<1> HIDE DEF n, a, o, l
<1>6. Written(g, a) /\ Written(q, a) /\ Written(o, a)
  BY <1>1, <1>2 DEF Stream, Written
<1>7. Before(g, o) /\ Before(q, o)
  <2>1. Before(g, out) /\ Before(q, out)
    BY DEF Stream
  <2>2. \A i \in DOMAIN g : Info(g[i]) => g[i].n < m.n
    BY <1>1, <1>4
  <2>3. \A i \in DOMAIN q : Info(q[i]) => q[i].n < m.n
    BY <1>1, <1>4
  <2>4. Before(g, o)
    BY <1>2, <2>1, <2>2 DEF Before
  <2>5. Before(q, o)
    BY <1>2, <2>1, <2>3 DEF Before
  <2> QED
    BY <2>4, <2>5
<1>8. ASSUME NEW k \in DOMAIN a, Info(a[k])
      PROVE  Has(g, a[k]) \/ Has(q, a[k]) \/ Has(o, a[k])
  BY <1>1, <1>2, <1>8 DEF Stream
<1>9. \A k \in DOMAIN a : a[k].n = k
  BY <1>1 DEF Stream
<1>10. Stream(g, q, TRUE, life, a, o)
  BY <1>5, <1>6, <1>7, <1>8, <1>9 DEF Stream
<1> QED
  BY <1>10 DEF a, o

(* A life after the end of the session.                                    *)
LEMMA StreamLife ==
    ASSUME NEW g, NEW q, NEW made, NEW out, NEW sock, NEW life,
           Stream(g, q, sock, life, made, out),
           NEW to, to \notin {"none", "run"}
    PROVE  Stream(g, q, sock, to, made, out)
BY DEF Stream

(* A session that begins.                                                  *)
LEMMA StreamBegins ==
    ASSUME NEW sock, NEW life
    PROVE  Stream(<<>>, <<>>, sock, life, <<>>, <<>>)
<1>1. DOMAIN <<>> = {} /\ \A x : ~Has(<<>>, x)
  BY DEF Has
<1> QED
  BY <1>1 DEF Stream, Written, Ordered, Before, Once

-----------------------------------------------------------------------------
(* States.                                                                 *)

(* What the types say of a state, a router, a client.                      *)
LEMMA StateFacts ==
    ASSUME NEW s \in State
    PROVE  /\ s.table \in [Sessions -> Routers \cup {None}]
           /\ s.router \in [Routers -> RouterType]
           /\ s.client \in [Clients -> ClientType]
           /\ s.given \in [Routers -> Seq(Messages)]
           /\ s.timer \in BOOLEAN /\ s.loop \in {"runs", "quit", "undefined"}
           /\ \A p \in Routers : /\ s.router[p] \in RouterType
                                 /\ s.given[p] \in Seq(Messages)
           /\ \A c \in Clients : s.client[c] \in ClientType
           /\ \A k \in Sessions : s.table[k] \in Routers \cup {None}
BY DEF State

(* The fields of a router.                                                 *)
LEMMA RouterFacts ==
    ASSUME NEW r \in RouterType
    PROVE  /\ r.life \in {"none", "run", "status", "dead", "gone"}
           /\ r.sock \in BOOLEAN /\ r.pid \in BOOLEAN
           /\ r.poll \in Clients \cup {None}
           /\ r.recvqueue \in Seq(Messages) /\ r.sendqueue \in Nat
BY DEF RouterType

(* The fields of a client.                                                 *)
LEMMA ClientFacts ==
    ASSUME NEW x \in ClientType
    PROVE  /\ x.open \in BOOLEAN /\ x.longpoll \in Routers \cup {None}
           /\ x.log \in {"take", "keep", "drop"} /\ x.owed \in 0..1
BY DEF ClientType

(* The routers without an object have nothing.                             *)
LEMMA NoRouterFacts ==
    /\ NoRouter \in RouterType /\ Gone \in RouterType
    /\ NoRouter.life = "none" /\ Gone.life = "gone"
    /\ ~NoRouter.sock /\ ~Gone.sock /\ ~Gone.pid /\ ~NoRouter.pid
    /\ NoRouter.poll = None /\ Gone.poll = None
    /\ NoRouter.recvqueue = <<>> /\ Gone.recvqueue = <<>>
    /\ NoRouter.sendqueue = 0 /\ Gone.sendqueue = 0
<1>1. <<>> \in Seq(Messages) /\ 0 \in Nat
  OBVIOUS
<1> QED
  BY <1>1 DEF NoRouter, Gone, RouterType

(* What ~Router() leaves.                                                  *)
LEMMA GoneIs ==
    [NoRouter EXCEPT !.life = "gone"] = Gone
<1> DEFINE a == [NoRouter EXCEPT !.life = "gone"]
<1>1. NoRouter \in RouterType /\ Gone \in RouterType
  BY NoRouterFacts
<1>2. /\ a \in RouterType /\ a.life = "gone" /\ a.sock = NoRouter.sock
      /\ a.pid = NoRouter.pid /\ a.poll = NoRouter.poll
      /\ a.recvqueue = NoRouter.recvqueue /\ a.sendqueue = NoRouter.sendqueue
  BY <1>1 DEF RouterType
<1>3. /\ NoRouter.sock = FALSE /\ NoRouter.pid = FALSE
      /\ NoRouter.poll = None /\ NoRouter.recvqueue = <<>>
      /\ NoRouter.sendqueue = 0
  BY DEF NoRouter
<1>4. /\ Gone.sock = FALSE /\ Gone.pid = FALSE /\ Gone.poll = None
      /\ Gone.recvqueue = <<>> /\ Gone.sendqueue = 0 /\ Gone.life = "gone"
  BY DEF Gone
<1>5. \A x, y \in RouterType :
         /\ x.life = y.life /\ x.sock = y.sock /\ x.pid = y.pid
         /\ x.poll = y.poll /\ x.recvqueue = y.recvqueue
         /\ x.sendqueue = y.sendqueue
         => x = y
  BY DEF RouterType
<1> HIDE DEF a
<1>6. a = Gone
  BY <1>1, <1>2, <1>3, <1>4, <1>5
<1> QED
  BY <1>6 DEF a

(* None is no client and no router.                                        *)
LEMMA NoneFacts ==
    None \notin Clients /\ None \notin Routers
BY SockAssumption

(* A router and a client are replaced.                                     *)
LEMMA PutState ==
    ASSUME NEW s \in State, NEW p \in Routers, NEW r \in RouterType,
           NEW g \in Seq(Messages)
    PROVE  LET t == Put(s, p, r, g)
           IN /\ t \in State /\ t.router[p] = r /\ t.given[p] = g
              /\ \A q \in Routers \ {p} : /\ t.router[q] = s.router[q]
                                          /\ t.given[q] = s.given[q]
              /\ t.table = s.table /\ t.client = s.client
              /\ t.timer = s.timer /\ t.loop = s.loop
BY DEF State, Put

(* A router is replaced, and what clients were given stays.                *)
LEMMA PutRouterState ==
    ASSUME NEW s \in State, NEW p \in Routers, NEW r \in RouterType
    PROVE  LET t == PutRouter(s, p, r)
           IN /\ t \in State /\ t.router[p] = r
              /\ \A q \in Routers \ {p} : t.router[q] = s.router[q]
              /\ t.table = s.table /\ t.client = s.client
              /\ t.given = s.given /\ t.timer = s.timer /\ t.loop = s.loop
              /\ t = Put(s, p, r, s.given[p])
<1>1. s.given = [s.given EXCEPT ![p] = s.given[p]]
  BY DEF State
<1>2. PutRouter(s, p, r) = Put(s, p, r, s.given[p])
  <2> DEFINE f == s.given
  <2>1. s.given = f /\ f = [f EXCEPT ![p] = f[p]]
    BY <1>1
  <2> HIDE DEF f
  <2>2. [s EXCEPT !.router[p] = r, !.given = f] = [s EXCEPT !.router[p] = r]
    BY <2>1 DEF State
  <2>3. [s EXCEPT !.router[p] = r, !.given[p] = f[p]] =
          [s EXCEPT !.router[p] = r, !.given = f]
    BY <2>1 DEF State
  <2> QED
    BY <2>2, <2>3 DEF PutRouter, Put, f
<1> QED
  BY <1>2 DEF State, PutRouter

(* A client is replaced.                                                   *)
LEMMA PutClientState ==
    ASSUME NEW s \in State, NEW c \in Clients, NEW x \in ClientType
    PROVE  LET t == PutClient(s, c, x)
           IN /\ t \in State /\ t.client[c] = x
              /\ \A d \in Clients \ {c} : t.client[d] = s.client[d]
              /\ t.table = s.table /\ t.router = s.router
              /\ t.given = s.given /\ t.timer = s.timer /\ t.loop = s.loop
BY DEF State, PutClient

(* What a router must satisfy that takes the place of another.             *)
Fits(s, pr, x, D, p, r, g) ==
    /\ Alive(s.router[p]) => Alive(r)
    /\ r.life = "none" => r = s.router[p] /\ g = s.given[p]
    /\ r.life = "gone" => r = Gone
    /\ r.life = "status" => r.recvqueue # <<>>
    /\ Stream(g, r.recvqueue, r.sock, r.life, pr[p].made, pr[p].out)
    /\ r.poll # None => s.client[r.poll].longpoll = p
    /\ p # x => Hears(r, s.client)
    /\ \A c \in Clients \ D :
          s.client[c].owed = 1 /\ s.client[c].longpoll = p => r.poll = c

(* The invariant of the other routers is what it was; x and D shrink to y  *)
(* and E.                                                                  *)
Moves(s, pr, qr, x, y, D, E, p, r) ==
    /\ \A c \in D \ E : s.client[c].longpoll = p
    /\ x = y \/ x = p \/ x = None
    /\ \A q \in Routers \ {p} : qr[q] = pr[q]
    /\ r.life = "none" => qr[p] = pr[p]
Polls(s, p, r) == r.poll \in {s.router[p].poll, None}

(* A router that fits keeps the invariant.                                 *)
LEMMA PutGood ==
    ASSUME NEW s, NEW pr, NEW qr \in Processes, NEW x, NEW y, NEW D, NEW E,
           NEW p \in Routers, Good(s, pr, x, D), NEW r \in RouterType,
           NEW g \in Seq(Messages), Fits(s, qr, y, E, p, r, g),
           Moves(s, pr, qr, x, y, D, E, p, r)
    PROVE  /\ Good(Put(s, p, r, g), qr, y, E)
           /\ Calm(s, Put(s, p, r, g), p)
           /\ Polls(s, p, r) => Kept(s, Put(s, p, r, g), {})
<1> DEFINE t == Put(s, p, r, g)
<1>1. s \in State /\ pr \in Processes
  BY DEF Good, Base
<1>2. /\ t \in State /\ t.router[p] = r
      /\ \A q \in Routers \ {p} : t.router[q] = s.router[q]
                                  /\ t.given[q] = s.given[q]
      /\ t.table = s.table /\ t.client = s.client
      /\ t.timer = s.timer /\ t.loop = s.loop /\ t.given[p] = g
  BY <1>1, PutState
<1>3. \A q \in Routers : q = p \/ t.router[q] = s.router[q]
  BY <1>2
<1>4. \A k \in Sessions : s.table[k] \in Routers \cup {None}
  BY <1>1, StateFacts
<1>5. \A c \in Clients : s.client[c].longpoll \in Routers \cup {None}
  BY <1>1, StateFacts, ClientFacts
<1> HIDE DEF t
<1>6. TableInv(t)
  <2>1. ASSUME NEW k \in Sessions, t.table[k] # None
        PROVE  Alive(t.router[t.table[k]])
    <3>1. s.table[k] \in Routers /\ Alive(s.router[s.table[k]])
      BY <1>2, <1>4, <2>1 DEF Good, Base, TableInv
    <3> QED
      BY <1>2, <1>3, <3>1 DEF Fits
  <2>2. \A j, k \in Sessions :
           t.table[j] = t.table[k] /\ t.table[j] # None => j = k
    BY <1>2 DEF Good, Base, TableInv
  <2> QED
    BY <2>1, <2>2 DEF TableInv
<1>7. LifeInv(t, qr)
  <2> SUFFICES ASSUME NEW q \in Routers
               PROVE  /\ t.router[q].life = "none" =>
                            /\ t.router[q] = NoRouter /\ t.given[q] = <<>>
                            /\ qr[q] = NoProcess
                      /\ t.router[q].life = "gone" => t.router[q] = Gone
                      /\ t.router[q].life = "status" =>
                            t.router[q].recvqueue # <<>>
    BY DEF LifeInv
  <2>1. /\ s.router[q].life = "none" =>
              /\ s.router[q] = NoRouter /\ s.given[q] = <<>>
              /\ pr[q] = NoProcess
        /\ s.router[q].life = "gone" => s.router[q] = Gone
        /\ s.router[q].life = "status" => s.router[q].recvqueue # <<>>
    BY DEF Good, Base, LifeInv
  <2>2. CASE q = p
    BY <1>2, <2>1, <2>2 DEF Fits, Moves
  <2>3. CASE q # p
    BY <1>2, <1>3, <2>1, <2>3 DEF Moves
  <2> QED
    BY <2>2, <2>3
<1>8. ASSUME NEW q \in Routers
      PROVE  StreamOf(t, qr, q)
  <2>1. CASE q = p
    BY <1>2, <2>1 DEF StreamOf, Fits
  <2>2. CASE q # p
    BY <1>2, <1>3, <2>2 DEF StreamOf, Good, Base, Moves
  <2> QED
    BY <2>1, <2>2
<1>9. Base(t, qr)
  BY <1>1, <1>2, <1>6, <1>7, <1>8 DEF Base
<1>10. Linked(t)
  BY <1>2, <1>3 DEF Linked, Good, Fits
<1>11. ASSUME NEW q \in Routers \ {y}
       PROVE  Heard(t, q)
  BY <1>2, <1>3, NoneFacts DEF Heard, Good, Fits, Moves
<1>12. ASSUME NEW c \in Clients \ E
       PROVE  Told(t, c)
  <2>1. Told(s, c) \/ s.client[c].longpoll = p
    BY DEF Good, Moves
  <2>2. s.client[c].longpoll \in Routers \cup {None}
    BY <1>5
  <2> QED
    BY <1>2, <1>3, <2>1, <2>2, NoneFacts DEF Told, Fits
<1>13. Good(t, qr, y, E)
  BY <1>9, <1>10, <1>11, <1>12 DEF Good
<1>14. Calm(s, t, p)
  BY <1>2 DEF Calm
<1>15. Polls(s, p, r) => Kept(s, t, {})
  BY <1>2, <1>3, NoneFacts DEF Polls, Kept, Unpolled, Held, Fits
<1> QED
  BY <1>13, <1>14, <1>15 DEF t

(* The same, when what clients were given stays.                           *)
LEMMA PutRouterGood ==
    ASSUME NEW s, NEW pr, NEW x, NEW y, NEW D, NEW E, NEW p \in Routers,
           Good(s, pr, x, D), NEW r \in RouterType,
           Fits(s, pr, y, E, p, r, s.given[p]),
           Moves(s, pr, pr, x, y, D, E, p, r)
    PROVE  /\ Good(PutRouter(s, p, r), pr, y, E)
           /\ Calm(s, PutRouter(s, p, r), p)
           /\ Polls(s, p, r) => Kept(s, PutRouter(s, p, r), {})
<1>1. s \in State /\ pr \in Processes
  BY DEF Good, Base
<1>2. s.given[p] \in Seq(Messages)
  BY <1>1, StateFacts
<1>3. PutRouter(s, p, r) = Put(s, p, r, s.given[p])
  BY <1>1, PutRouterState
<1> DEFINE g == s.given[p]
<1> HIDE DEF g
<1>4. g \in Seq(Messages) /\ Fits(s, pr, y, E, p, r, g)
  BY <1>2 DEF g
<1>5. /\ Good(Put(s, p, r, g), pr, y, E) /\ Calm(s, Put(s, p, r, g), p)
      /\ Polls(s, p, r) => Kept(s, Put(s, p, r, g), {})
  BY <1>1, <1>4, PutGood
<1> QED
  BY <1>3, <1>5 DEF g

(* A client that nobody calls back is replaced by one that is owed nothing *)
(* or whose turn it is.                                                    *)
LEMMA PutClientGood ==
    ASSUME NEW s, NEW pr, NEW x, NEW D, NEW E, NEW c \in Clients,
           Good(s, pr, x, D), Unpolled(s, c), NEW z \in ClientType,
           c \in E \/ z.owed = 0, D \subseteq E \cup {c}
    PROVE  /\ Good(PutClient(s, c, z), pr, x, E)
           /\ Unpolled(PutClient(s, c, z), c)
           /\ Kept(s, PutClient(s, c, z), {c})
           /\ \A p \in Routers : Calm(s, PutClient(s, c, z), p)
<1> DEFINE t == PutClient(s, c, z)
<1>1. s \in State /\ pr \in Processes
  BY DEF Good, Base
<1>2. /\ t \in State /\ t.client[c] = z
      /\ \A d \in Clients \ {c} : t.client[d] = s.client[d]
      /\ t.table = s.table /\ t.router = s.router
      /\ t.given = s.given /\ t.timer = s.timer /\ t.loop = s.loop
  BY <1>1, PutClientState
<1>3. \A q \in Routers : s.router[q].poll \in Clients \cup {None}
  BY <1>1, StateFacts, RouterFacts
<1> HIDE DEF t
<1>4. Base(t, pr)
  BY <1>1, <1>2 DEF Good, Base, TableInv, LifeInv, StreamOf
<1>5. ASSUME NEW q \in Routers, s.router[q].poll # None
      PROVE  t.client[s.router[q].poll] = s.client[s.router[q].poll]
  BY <1>2, <1>3, <1>5 DEF Unpolled
<1>6. Linked(t)
  BY <1>2, <1>5 DEF Good, Linked
<1>7. ASSUME NEW q \in Routers \ {x}
      PROVE  Heard(t, q)
  BY <1>2, <1>5 DEF Good, Heard, Hears
<1>8. ASSUME NEW d \in Clients \ E
      PROVE  Told(t, d)
  <2>1. CASE d = c
    BY <1>2, <1>8, <2>1 DEF Told
  <2>2. CASE d # c
    BY <1>2, <1>8, <2>2 DEF Told, Good
  <2> QED
    BY <2>1, <2>2
<1>9. Good(t, pr, x, E)
  BY <1>4, <1>6, <1>7, <1>8 DEF Good
<1>10. Unpolled(t, c)
  BY <1>2 DEF Unpolled
<1>11. Kept(s, t, {c})
  BY <1>2 DEF Kept, Unpolled, Held
<1>12. \A p \in Routers : Calm(s, t, p)
  BY <1>2 DEF Calm
<1> QED
  BY <1>9, <1>10, <1>11, <1>12 DEF t

(* One call after another leaves the other routers alone.                  *)
LEMMA CalmTrans ==
    ASSUME NEW s, NEW t, NEW u, NEW p, Calm(s, t, p), Calm(t, u, p),
           t \in State
    PROVE  Calm(s, u, p)
<1>1. Gone.life = "gone"
  BY NoRouterFacts
<1>2. \A k \in Sessions : t.table[k] \in Routers \cup {None}
  BY StateFacts
<1>3. ASSUME NEW q \in Routers \ {p}
      PROVE  \/ u.router[q] = s.router[q]
             \/ s.router[q].life = "dead" /\ u.router[q] = Gone
  BY <1>1 DEF Calm
<1>4. ASSUME NEW k \in Sessions
      PROVE  \/ u.table[k] = s.table[k]
             \/ /\ u.table[k] = None /\ s.table[k] # None
                /\ s.table[k] = p \/ s.router[s.table[k]].life = "dead"
  <2>1. CASE u.table[k] = t.table[k]
    BY <2>1 DEF Calm
  <2>2. CASE /\ u.table[k] = None /\ t.table[k] # None
             /\ t.table[k] = p \/ t.router[t.table[k]].life = "dead"
    <3>1. t.table[k] = s.table[k] /\ t.table[k] \in Routers
      BY <1>2, <2>2 DEF Calm
    <3>2. CASE t.table[k] = p
      BY <2>2, <3>1, <3>2
    <3>3. CASE t.table[k] # p
      <4>1. t.router[t.table[k]] = s.router[t.table[k]]
        BY <1>1, <2>2, <3>1, <3>3 DEF Calm
      <4> QED
        BY <2>2, <3>1, <3>3, <4>1
    <3> QED
      BY <3>2, <3>3
  <2> QED
    BY <2>1, <2>2 DEF Calm
<1> QED
  BY <1>3, <1>4 DEF Calm


(* One call after another leaves the clients alone.                        *)
LEMMA KeptTrans ==
    ASSUME NEW s, NEW t, NEW u, NEW D, NEW E, NEW F, Kept(s, t, D),
           Kept(t, u, E), D \subseteq F, E \subseteq F
    PROVE  Kept(s, u, F)
<1>1. ASSUME NEW c \in Clients \ F
      PROVE  /\ u.client[c] = s.client[c]
             /\ Unpolled(s, c) => Unpolled(u, c)
             /\ \A p \in Routers : Held(s, c, p) => Held(u, c, p)
  <2>1. c \in Clients \ D /\ c \in Clients \ E
    OBVIOUS
  <2> QED
    BY <2>1 DEF Kept
<1> QED
  BY <1>1 DEF Kept

-----------------------------------------------------------------------------
(* The calls of the server.                                                *)

(* Dead sessions may have left the table, and dead routers that nothing    *)
(* refers to are gone.                                                     *)
Swept(s, t) ==
    /\ t \in State /\ t.client = s.client /\ t.given = s.given
    /\ t.loop = "undefined" => s.loop = "undefined"
    /\ \A p \in Routers :
          \/ t.router[p] = s.router[p]
          \/ /\ s.router[p].life = "dead" /\ t.router[p] = Gone
             /\ \A k \in Sessions : t.table[k] # p
             /\ \A c \in Clients : s.client[c].longpoll # p
    /\ \A k \in Sessions :
          \/ t.table[k] = s.table[k]
          \/ /\ t.table[k] = None /\ s.table[k] # None
             /\ s.router[s.table[k]].life = "dead"

(* When dead routers are removed and deleted, the invariant holds on.      *)
LEMMA SweptGood ==
    ASSUME NEW s, NEW pr, NEW x, NEW D, NEW t, Good(s, pr, x, D), Swept(s, t)
    PROVE  /\ Good(t, pr, x, D)
           /\ Kept(s, t, {}) /\ \A p \in Routers : Calm(s, t, p)
           /\ \A p \in Routers : \A log :
                 Waiting(s.router[p], log) => Waiting(t.router[p], log)
<1>1. /\ s \in State /\ pr \in Processes /\ t \in State
      /\ t.client = s.client /\ t.given = s.given
  BY DEF Good, Base, Swept
<1>2. ASSUME NEW p \in Routers
      PROVE  \/ t.router[p] = s.router[p]
             \/ /\ s.router[p].life = "dead" /\ t.router[p] = Gone
                /\ \A k \in Sessions : t.table[k] # p
                /\ \A c \in Clients : s.client[c].longpoll # p
  BY DEF Swept
<1>3. ASSUME NEW k \in Sessions, t.table[k] # None
      PROVE  /\ t.table[k] = s.table[k] /\ t.table[k] \in Routers
             /\ t.router[t.table[k]] = s.router[t.table[k]]
  <2>1. t.table[k] \in Routers
    BY <1>1, <1>3, StateFacts
  <2> QED
    BY <1>3, <2>1 DEF Swept
<1>4. ASSUME NEW c \in Clients, s.client[c].longpoll # None
      PROVE  /\ s.client[c].longpoll \in Routers
             /\ t.router[s.client[c].longpoll] =
                   s.router[s.client[c].longpoll]
  <2>1. s.client[c].longpoll \in Routers
    BY <1>1, <1>4, StateFacts, ClientFacts
  <2> QED
    BY <1>2, <2>1
<1>5. TableInv(t)
  BY <1>3 DEF Good, Base, TableInv
<1>6. LifeInv(t, pr)
  BY <1>1, <1>2, NoRouterFacts DEF Good, Base, LifeInv
<1>7. ASSUME NEW p \in Routers
      PROVE  StreamOf(t, pr, p)
  <2>1. StreamOf(s, pr, p)
    BY DEF Good, Base
  <2>2. CASE t.router[p] = s.router[p]
    BY <1>1, <2>1, <2>2 DEF StreamOf
  <2>3. CASE t.router[p] = Gone
    <3> DEFINE g == s.given[p]
               q == s.router[p].recvqueue
               o == s.router[p].sock
               l == s.router[p].life
               made == pr[p].made
               out == pr[p].out
    <3>1. /\ g \in Seq(Messages) /\ q \in Seq(Messages) /\ o \in BOOLEAN
          /\ made \in Seq(Made) /\ out \in Seq(Made)
      BY <1>1, StateFacts, RouterFacts DEF Processes, ProcessType
    <3>2. Stream(g, q, o, l, made, out)
      BY <2>1 DEF StreamOf
    <3> HIDE DEF g, q, o, l, made, out
    <3>3. Stream(g, <<>>, FALSE, "gone", made, out)
      BY <3>1, <3>2, StreamDrops
    <3>4. /\ Gone.recvqueue = <<>> /\ Gone.sock = FALSE
          /\ Gone.life = "gone"
      BY DEF Gone
    <3> QED
      BY <1>1, <2>3, <3>3, <3>4 DEF StreamOf, g, made, out
  <2> QED
    BY <1>2, <2>2, <2>3
<1>8. Linked(t)
  BY <1>1, <1>2, NoRouterFacts DEF Good, Linked
<1>9. ASSUME NEW p \in Routers, Heard(s, p)
      PROVE  Heard(t, p)
  BY <1>1, <1>2, <1>9, NoRouterFacts DEF Heard, Hears
<1>10. ASSUME NEW c \in Clients, Told(s, c)
       PROVE  Told(t, c)
  BY <1>1, <1>4, <1>10 DEF Told
<1>11. Good(t, pr, x, D)
  BY <1>1, <1>5, <1>6, <1>7, <1>8, <1>9, <1>10 DEF Good, Base
<1>12. Kept(s, t, {})
  <2>1. ASSUME NEW c \in Clients, Unpolled(s, c)
        PROVE  Unpolled(t, c)
    BY <1>2, <2>1, NoRouterFacts, NoneFacts DEF Unpolled
  <2>2. ASSUME NEW c \in Clients, NEW p \in Routers, Held(s, c, p)
        PROVE  Held(t, c, p)
    BY <1>1, <1>4, <2>2, NoneFacts DEF Held
  <2> QED
    BY <1>1, <2>1, <2>2 DEF Kept, Swept
<1>13. ASSUME NEW p \in Routers
       PROVE  Calm(s, t, p)
  BY <1>2 DEF Calm, Swept
<1>14. ASSUME NEW p \in Routers, NEW log, Waiting(s.router[p], log)
       PROVE  Waiting(t.router[p], log)
  <2>1. Gone.recvqueue = <<>> /\ DOMAIN <<>> = {}
    BY NoRouterFacts
  <2> QED
    BY <1>2, <1>14, <2>1 DEF Waiting
<1> QED
  BY <1>11, <1>12, <1>13, <1>14

(* ~Router() deletes dead routers nothing refers to.                       *)
LEMMA ReleaseSwept ==
    ASSUME NEW s \in State
    PROVE  /\ Swept(s, Release(s)) /\ Release(s).table = s.table
           /\ Release(s).loop = s.loop
<1> DEFINE referenced == Range(s.table) \cup
                         {s.client[c].longpoll : c \in Clients}
           R == [p \in Routers |->
                   IF s.router[p].life = "dead" /\ p \notin referenced
                   THEN Gone ELSE s.router[p]]
           t == [s EXCEPT !.router = R]
<1>1. [NoRouter EXCEPT !.life = "gone"] = Gone
  BY GoneIs
<1>2. Release(s) = t
  BY <1>1 DEF Release
<1>3. /\ \A k \in Sessions : s.table[k] \in referenced
      /\ \A c \in Clients : s.client[c].longpoll \in referenced
  BY DEF Range, State
<1> HIDE DEF referenced
<1>4. R \in [Routers -> RouterType]
  BY StateFacts, NoRouterFacts
<1>5. \A p \in Routers :
          \/ R[p] = s.router[p]
          \/ /\ s.router[p].life = "dead" /\ R[p] = Gone
             /\ p \notin referenced
  OBVIOUS
<1> HIDE DEF R
<1>6. /\ t \in State /\ t.router = R /\ t.table = s.table
      /\ t.client = s.client /\ t.given = s.given /\ t.loop = s.loop
  BY <1>4 DEF State
<1> HIDE DEF t
<1>7. Swept(s, t)
  BY <1>3, <1>5, <1>6 DEF Swept
<1> QED
  BY <1>2, <1>6, <1>7

(* Dead routers are removed from the table.                                *)
LEMMA EraseSwept ==
    ASSUME NEW s \in State, NEW ks \in SUBSET Sessions,
           \A k \in ks : /\ s.table[k] # None
                         /\ s.router[s.table[k]].life = "dead"
    PROVE  /\ Swept(s, Erase(s, ks)) /\ Erase(s, ks).loop = s.loop
           /\ \A k \in Sessions :
                 Erase(s, ks).table[k] = IF k \in ks THEN None ELSE s.table[k]
<1> DEFINE left == [k \in Sessions |-> IF k \in ks THEN None ELSE s.table[k]]
           timer1 == s.timer /\ \E k \in Sessions : left[k] # None
           t == [s EXCEPT !.table = left, !.timer = timer1]
<1>1. Erase(s, ks) = Release(t)
  BY DEF Erase
<1>2. left \in [Sessions -> Routers \cup {None}] /\ timer1 \in BOOLEAN
  BY StateFacts
<1>3. \A k \in Sessions : left[k] = IF k \in ks THEN None ELSE s.table[k]
  OBVIOUS
<1> HIDE DEF left, timer1
<1>4. /\ t \in State /\ t.table = left /\ t.router = s.router
      /\ t.client = s.client /\ t.given = s.given /\ t.loop = s.loop
  BY <1>2 DEF State
<1> HIDE DEF t
<1>5. /\ Swept(t, Release(t)) /\ Release(t).table = left
      /\ Release(t).loop = s.loop
  BY <1>4, ReleaseSwept
<1>6. Swept(s, Release(t))
  BY <1>3, <1>4, <1>5 DEF Swept
<1> QED
  BY <1>1, <1>3, <1>5, <1>6

(* reap_died_routers() removes them all.                                   *)
LEMMA ReapSwept ==
    ASSUME NEW s \in State
    PROVE  Swept(s, Reap(s))
<1> DEFINE left == Erase(s, Dead(s))
           t == [left EXCEPT !.loop = "quit"]
<1>1. Swept(s, left)
  <2>1. /\ Dead(s) \in SUBSET Sessions
        /\ \A k \in Dead(s) : s.table[k] # None
                              /\ s.router[s.table[k]].life = "dead"
    BY DEF Dead, InTable
  <2> QED
    BY <2>1, EraseSwept
<1> HIDE DEF left
<1>2. left \in State
  BY <1>1 DEF Swept
<1>3. /\ t \in State /\ t.table = left.table /\ t.router = left.router
      /\ t.client = left.client /\ t.given = left.given /\ t.loop = "quit"
  BY <1>2 DEF State
<1>4. Swept(s, t)
  BY <1>1, <1>3 DEF Swept
<1>5. Reap(s) \in {left, t}
  BY DEF Reap, left
<1> QED
  BY <1>1, <1>4, <1>5

(* A client receives what the router has for it.                           *)
LEMMA ReceiveIs ==
    ASSUME NEW s \in State, NEW p \in Routers, NEW c \in Clients
    PROVE  LET f == Sorted(s.router[p].recvqueue, s.client[c].log)
                      [Len(s.router[p].recvqueue)]
               ends == s.router[p].life = "status" /\ f.left = <<>>
               r == [s.router[p] EXCEPT
                       !.recvqueue = f.left,
                       !.life = IF ends THEN "dead" ELSE s.router[p].life]
               t == Put(s, p, r, s.given[p] \o f.taken)
           IN Receive(s, p, c) = IF ends THEN Reap(t) ELSE t
<1> DEFINE f == Sorted(s.router[p].recvqueue, s.client[c].log)
                  [Len(s.router[p].recvqueue)]
           ends == s.router[p].life = "status" /\ f.left = <<>>
           g == s.given[p] \o f.taken
           r(l) == [s.router[p] EXCEPT !.recvqueue = f.left, !.life = l]
           u == [s EXCEPT !.router[p].recvqueue = f.left, !.given[p] = g]
<1>1. Receive(s, p, c) =
        IF ends THEN Reap([u EXCEPT !.router[p].life = "dead"]) ELSE u
  BY DEF Receive
<1> HIDE DEF f, ends, g
<1>2. s.router \in [Routers -> RouterType] /\ s.router[p] \in RouterType
  BY StateFacts
<1>3. [u EXCEPT !.router[p].life = "dead"] = Put(s, p, r("dead"), g)
  BY <1>2 DEF State, RouterType, Put
<1>4. u = Put(s, p, r(s.router[p].life), g)
  BY <1>2 DEF State, RouterType, Put
<1> QED
  BY <1>1, <1>3, <1>4 DEF f, ends, g

(* receive() keeps the invariant, and leaves nothing the client wants.     *)
LEMMA ReceiveGood ==
    ASSUME NEW s, NEW pr, NEW x, NEW D, NEW p \in Routers, NEW c \in Clients,
           Good(s, pr, x, D), Alive(s.router[p])
    PROVE  LET t == Receive(s, p, c)
           IN Good(t, pr, x, D) /\ Receives(s, t, p, c)
<1> DEFINE q == s.router[p].recvqueue
           g == s.given[p]
           log == s.client[c].log
           f == Sorted(q, log)[Len(q)]
           ends == s.router[p].life = "status" /\ f.left = <<>>
           l == IF ends THEN "dead" ELSE s.router[p].life
           r == [s.router[p] EXCEPT !.recvqueue = f.left, !.life = l]
           u == Put(s, p, r, g \o f.taken)
           t == Receive(s, p, c)
<1>1. /\ s \in State /\ pr \in Processes /\ s.router[p] \in RouterType
      /\ q \in Seq(Messages) /\ g \in Seq(Messages)
  BY StateFacts, RouterFacts DEF Good, Base
<1>2. t = IF ends THEN Reap(u) ELSE u
  BY <1>1, ReceiveIs
<1>3. /\ s.router[p].sock \in BOOLEAN /\ pr[p].made \in Seq(Made)
      /\ pr[p].out \in Seq(Made)
  BY <1>1, RouterFacts DEF Processes, ProcessType
<1>4. Stream(g, q, s.router[p].sock, s.router[p].life, pr[p].made, pr[p].out)
  BY DEF Good, Base, StreamOf
<1>5. Split(q, Len(q), log, f)
  <2>1. Ordered(q) /\ Once(q)
    BY <1>4 DEF Stream
  <2> HIDE DEF q, log
  <2> QED
    BY <1>1, <2>1, SortedSplits
<1>6. /\ f.left \in Seq(Messages) /\ f.taken \in Seq(Messages)
      /\ g \o f.taken \in Seq(Messages)
      /\ g \o f.taken = g <=> f.taken = <<>>
  <2>1. f.left \in Seq(Messages) /\ f.taken \in Seq(Messages)
    BY <1>5 DEF Split
  <2> HIDE DEF f, g
  <2> QED
    BY <1>1, <2>1, ConcatFacts
<1>7. /\ \A i \in DOMAIN q : q[i] \in Messages
      /\ \A i \in DOMAIN f.left : Has(q, f.left[i])
      /\ q # <<>> => 1 \in DOMAIN q
      /\ f.left # <<>> => 1 \in DOMAIN f.left
      /\ f.left # <<>> => q # <<>>
  <2>1. /\ DOMAIN q = 1..Len(q) /\ \A i \in DOMAIN q : q[i] \in Messages
        /\ q # <<>> => 1 \in DOMAIN q
        /\ q = <<>> => DOMAIN q = {}
    BY <1>1
  <2>2. f.left # <<>> => 1 \in DOMAIN f.left
    <3> HIDE DEF f
    <3> QED
      BY <1>6
  <2>3. \A i \in DOMAIN f.left : Has(q, f.left[i])
    BY <1>5, <2>1 DEF Split, Has
  <2> QED
    BY <2>1, <2>2, <2>3 DEF Has
<1>8. Stream(g \o f.taken, f.left, s.router[p].sock, s.router[p].life,
             pr[p].made, pr[p].out)
  <2> HIDE DEF q, g, log, f
  <2> QED
    BY <1>1, <1>3, <1>4, <1>5, StreamReceive
<1>9. Stream(g \o f.taken, f.left, s.router[p].sock, l, pr[p].made, pr[p].out)
  <2>1. CASE ends
    BY <1>8, <2>1, StreamLife
  <2>2. CASE ~ends
    BY <1>8, <2>2
  <2> QED
    BY <2>1, <2>2
<1>10. /\ l \in {"none", "run", "status", "dead", "gone"}
       /\ l = "run" <=> s.router[p].life = "run"
       /\ l = "status" => f.left # <<>>
       /\ l \in {"run", "status", "dead"}
       /\ l # s.router[p].life => ends
  BY DEF Alive
<1> HIDE DEF l, f
<1>11. /\ r \in RouterType /\ r.life = l /\ r.recvqueue = f.left
       /\ r.sock = s.router[p].sock /\ r.poll = s.router[p].poll
  BY <1>1, <1>6, <1>10 DEF RouterType
<1> HIDE DEF r
<1>12. ASSUME NEW w, Waiting(s.router[p], w)
       PROVE  Waiting(r, w)
  <2>1. \A i \in DOMAIN f.left : f.left[i].kind = "log"
    BY <1>7, <1>12 DEF Waiting, Has
  <2> QED
    BY <1>7, <1>10, <1>11, <1>12, <2>1 DEF Waiting
<1>13. /\ Good(u, pr, x, D) /\ Kept(s, u, {}) /\ Calm(s, u, p)
       /\ u \in State /\ u.client = s.client /\ u.router[p] = r
       /\ u.given[p] = g \o f.taken /\ u.table = s.table
  <2>1. Fits(s, pr, x, D, p, r, g \o f.taken)
    <3>1. p # x => Hears(r, s.client)
      BY <1>11, <1>12 DEF Good, Heard, Hears
    <3>2. /\ r.poll # None => s.client[r.poll].longpoll = p
          /\ \A d \in Clients \ D :
               s.client[d].owed = 1 /\ s.client[d].longpoll = p => r.poll = d
      BY <1>11, NoneFacts DEF Good, Linked, Told
    <3> QED
      BY <1>9, <1>10, <1>11, <3>1, <3>2 DEF Fits, Alive
  <2> DEFINE h == g \o f.taken
  <2>2. h \in Seq(Messages)
    BY <1>6
  <2> HIDE DEF h
  <2>3. Fits(s, pr, x, D, p, r, h)
    BY <2>1 DEF h
  <2>4. Moves(s, pr, pr, x, x, D, D, p, r) /\ Polls(s, p, r)
    BY <1>11 DEF Moves, Polls
  <2>5. /\ Good(Put(s, p, r, h), pr, x, D) /\ Kept(s, Put(s, p, r, h), {})
        /\ Calm(s, Put(s, p, r, h), p)
    BY <1>1, <1>11, <2>2, <2>3, <2>4, PutGood
  <2>6. /\ Put(s, p, r, h) \in State /\ Put(s, p, r, h).client = s.client
        /\ Put(s, p, r, h).router[p] = r /\ Put(s, p, r, h).given[p] = h
        /\ Put(s, p, r, h).table = s.table
    BY <1>1, <1>11, <2>2, PutState
  <2> QED
    BY <2>5, <2>6 DEF h
<1> HIDE DEF u
<1>14. /\ Good(t, pr, x, D) /\ Kept(s, t, {}) /\ Calm(s, t, p)
       /\ t.client = s.client /\ t.given[p] = g \o f.taken
       /\ t.router[p].poll \in {s.router[p].poll, None}
       /\ \A w : Waiting(r, w) => Waiting(t.router[p], w)
       /\ s.router[p].life = "dead" =>
             t.router[p].life = "dead" /\ t.table = s.table
  <2>1. CASE ends
    <3>1. Swept(u, Reap(u))
      BY <1>13, ReapSwept
    <3>2. /\ Good(Reap(u), pr, x, D) /\ Kept(u, Reap(u), {})
          /\ Calm(u, Reap(u), p)
          /\ \A w : Waiting(r, w) => Waiting(Reap(u).router[p], w)
      BY <1>13, <3>1, SweptGood
    <3>3. /\ Reap(u).client = s.client /\ Reap(u).given[p] = g \o f.taken
          /\ Reap(u).router[p].poll \in {s.router[p].poll, None}
      BY <1>11, <1>13, <3>1, NoRouterFacts DEF Swept
    <3>4. Kept(s, Reap(u), {}) /\ Calm(s, Reap(u), p)
      BY <1>13, <3>2, KeptTrans, CalmTrans
    <3> QED
      BY <1>2, <2>1, <3>2, <3>3, <3>4
  <2>2. CASE ~ends
    BY <1>2, <1>10, <1>11, <1>13, <2>2
  <2> QED
    BY <2>1, <2>2
<1>15. ASSUME s.router[p].life \in {"run", "status"}, t.given[p] = s.given[p]
       PROVE  Waiting(r, log)
  <2>1. f.taken = <<>>
    BY <1>6, <1>14, <1>15 DEF g
  <2>2. Len(f.taken) = 0 /\ Batch \in Nat \ {0} /\ ~ Len(f.taken) >= Batch
    <3>1. Len(f.taken) = 0
      BY <2>1
    <3>2. Batch \in Nat \ {0}
      BY SockAssumption
    <3> HIDE DEF f
    <3> QED
      BY <3>1, <3>2
  <2>3. \A i \in DOMAIN f.left : f.left[i].kind = "log" /\ log = "keep"
    BY <1>5, <2>2 DEF Split
  <2>4. f.left # <<>> => log # "take"
    BY <1>7, <2>3
  <2>5. ASSUME s.router[p].life = "status"
        PROVE  log # "take"
    <3>1. q # <<>>
      BY <2>5 DEF Good, Base, LifeInv
    <3>2. 1 \in DOMAIN q /\ 1 \in 1..Len(q)
      BY <1>1, <1>7, <3>1
    <3>3. \/ q[1].kind = "log" /\ log = "drop"
          \/ Has(f.left, q[1]) \/ Has(f.taken, q[1])
      BY <1>5, <3>2 DEF Split
    <3>4. ~Has(f.taken, q[1])
      <4>1. DOMAIN f.taken = {}
        BY <2>1
      <4> QED
        BY <4>1 DEF Has
    <3>5. Has(f.left, q[1]) => log = "keep"
      BY <2>3 DEF Has
    <3> QED
      BY <3>3, <3>4, <3>5
  <2> QED
    BY <1>10, <1>11, <1>15, <2>3, <2>4, <2>5 DEF Waiting
<1>16. Eases(s.router[p], t.router[p])
  BY <1>12, <1>14 DEF Eases
<1>17. s.router[p].life \in {"run", "status"} /\ t.given[p] = s.given[p] =>
         Waiting(t.router[p], s.client[c].log)
  BY <1>14, <1>15
<1> HIDE DEF t
<1>18. Good(t, pr, x, D) /\ Receives(s, t, p, c)
  BY <1>14, <1>16, <1>17 DEF Receives
<1> QED
  BY <1>18 DEF t

(* The client that waits for a router is told.                             *)
LEMMA PollSame ==
    ASSUME NEW s \in State, NEW p \in Routers
    PROVE  \A y : s.router[p].poll = y =>
                     [s EXCEPT !.router[p].poll = y] = s
<1>1. s.router \in [Routers -> RouterType] /\ s.router[p] \in RouterType
  BY StateFacts
<1> SUFFICES ASSUME NEW y, s.router[p].poll = y
             PROVE  [s EXCEPT !.router[p].poll = y] = s
  OBVIOUS
<1>2. [s.router[p] EXCEPT !.poll = y] = s.router[p]
  BY <1>1 DEF RouterType
<1>3. [s.router EXCEPT ![p] = s.router[p]] = s.router
  BY <1>1
<1>4. [s EXCEPT !.router = s.router] = s
  BY DEF State
<1> QED
  BY <1>2, <1>3, <1>4

(* notify_longpoll() keeps the invariant, and nobody waits after it.       *)
LEMMA NotifyGood ==
    ASSUME NEW s, NEW pr, NEW x, NEW D, NEW p \in Routers,
           Good(s, pr, x, D), x = p \/ x = None
    PROVE  LET t == Notify(s, p)
           IN /\ Good(t, pr, None, D) /\ Tells(s, t, p)
              /\ Eases(s.router[p], t.router[p])
<1> DEFINE t == Notify(s, p)
<1>1. /\ s \in State /\ pr \in Processes
      /\ s.router[p].poll \in Clients \cup {None}
  BY StateFacts, RouterFacts DEF Good, Base
<1>2. CASE s.router[p].poll = None
  <2>1. t = s
    BY <1>2 DEF Notify
  <2>2. Heard(s, p)
    BY <1>2 DEF Heard, Hears
  <2>3. Good(s, pr, None, D)
    BY <2>2 DEF Good
  <2>4. Kept(s, s, {s.router[p].poll}) /\ Calm(s, s, p)
    BY DEF Kept, Calm
  <2> QED
    BY <1>2, <2>1, <2>3, <2>4 DEF Tells, Eases
<1>3. ASSUME NEW c \in Clients, s.router[p].poll = c
      PROVE  /\ Good(t, pr, None, D) /\ Kept(s, t, {c}) /\ Calm(s, t, p)
             /\ t.router[p].poll = None
             /\ \A log :
                   Waiting(s.router[p], log) => Waiting(t.router[p], log)
             /\ s.router[p].life = "dead" /\ (\E k \in Sessions :
                  s.table[k] = p) => t.router[p].life = "dead"
  <2> DEFINE r == [s.router[p] EXCEPT !.poll = None]
             t1 == PutRouter(s, p, r)
             u == Receive(t1, p, c)
             v == PutClient(u, c, [u.client[c] EXCEPT !.longpoll = None])
             w == Release(v)
             z == PutClient(w, c, [w.client[c] EXCEPT !.owed = 0])
             E == D \cup {c}
  <2>1. /\ c \in Clients /\ s.client[c].longpoll = p /\ p # None
        /\ s.router[p] \in RouterType /\ s.client[c] \in ClientType
        /\ s.router \in [Routers -> RouterType]
        /\ s.client \in [Clients -> ClientType]
    BY <1>1, <1>3, NoneFacts, StateFacts DEF Good, Linked
  <2>2. c # None
    BY NoneFacts
  <2>3. Alive(s.router[p])
    BY <1>3, <2>1, <2>2, NoRouterFacts, RouterFacts
       DEF Good, Base, LifeInv, Alive
  <2>4. /\ r \in RouterType /\ r.poll = None /\ r.life = s.router[p].life
        /\ r.recvqueue = s.router[p].recvqueue /\ r.sock = s.router[p].sock
    BY <2>1 DEF RouterType
  <2>5. t = [z EXCEPT !.router[p].poll = None]
    <3> DEFINE e == [s EXCEPT !.router[p].poll = IF @ = c THEN None ELSE @]
    <3>1. e = t1
      BY <1>3 DEF PutRouter
    <3>2. t = [Answer(Release([Receive(e, p, c) EXCEPT
                                 !.client[c].longpoll = None]), c) EXCEPT
                 !.router[p].poll = None]
      BY <1>3, <2>1, <2>2 DEF Notify, MsgAvailable
    <3> HIDE DEF e
    <3>3. t = [Answer(Release([u EXCEPT !.client[c].longpoll = None]), c)
                 EXCEPT !.router[p].poll = None]
      BY <3>1, <3>2
    <3> HIDE DEF u, t
    <3> QED
      BY <3>3 DEF Answer, PutClient
  <2> HIDE DEF r, t
  <2>6. /\ t1 \in State /\ t1.router[p] = r /\ t1.client = s.client
        /\ t1.table = s.table
        /\ \A q \in Routers \ {p} : t1.router[q] = s.router[q]
    BY <1>1, <2>4, PutRouterState
  <2>7. Good(t1, pr, None, E) /\ Kept(s, t1, {}) /\ Calm(s, t1, p)
    <3>1. Fits(s, pr, None, E, p, r, s.given[p])
      <4>1. \A d \in Clients \ E :
               s.client[d].owed = 1 /\ s.client[d].longpoll = p => FALSE
        BY <1>3, <2>1 DEF Good, Told
      <4>2. Stream(s.given[p], r.recvqueue, r.sock, r.life,
                   pr[p].made, pr[p].out)
        BY <2>4 DEF Good, Base, StreamOf
      <4>3. r.life = "status" => r.recvqueue # <<>>
        BY <2>4 DEF Good, Base, LifeInv
      <4> QED
        BY <2>3, <2>4, <4>1, <4>2, <4>3 DEF Fits, Hears, Alive
    <3>2. Moves(s, pr, pr, x, None, D, E, p, r) /\ Polls(s, p, r)
      BY <2>4 DEF Moves, Polls
    <3> QED
      BY <2>4, <3>1, <3>2, PutRouterGood
  <2>8. Unpolled(t1, c)
    BY <1>1, <2>1, <2>4, <2>6, <2>2, NoneFacts DEF Unpolled, Good, Linked
  <2>9. c \in E /\ E \subseteq E \cup {c} /\ E \subseteq D \cup {c}
    OBVIOUS
  <2> HIDE DEF t1, E
  <2>10. /\ Good(u, pr, None, E) /\ Kept(t1, u, {}) /\ Calm(t1, u, p)
         /\ u.client = s.client /\ u.router[p].poll = None
         /\ \A log : Waiting(r, log) => Waiting(u.router[p], log)
         /\ r.life = "dead" => u.router[p].life = "dead"
                               /\ u.table = s.table
    <3>1. Alive(t1.router[p])
      BY <2>3, <2>4, <2>6 DEF Alive
    <3>2. Good(u, pr, None, E) /\ Receives(t1, u, p, c)
      <4>1. Good(t1, pr, None, E)
        BY <2>7
      <4> QED
        BY <3>1, <4>1, ReceiveGood
    <3> HIDE DEF u
    <3> QED
      BY <2>4, <2>6, <3>2 DEF Receives, Eases
  <2>11. Unpolled(u, c) /\ u \in State
    BY <2>1, <2>8, <2>10 DEF Kept, Good, Base
  <2> HIDE DEF u
  <2>12. /\ Good(v, pr, None, E) /\ Unpolled(v, c) /\ Kept(u, v, {c})
         /\ Calm(u, v, p) /\ v \in State /\ v.router = u.router
         /\ v.table = u.table
    <3> DEFINE y == [u.client[c] EXCEPT !.longpoll = None]
    <3>1. y \in ClientType
      BY <2>1, <2>10 DEF ClientType
    <3> HIDE DEF y
    <3>2. v = PutClient(u, c, y)
      BY DEF y
    <3> HIDE DEF v
    <3>3. /\ Good(PutClient(u, c, y), pr, None, E)
          /\ Unpolled(PutClient(u, c, y), c)
          /\ Kept(u, PutClient(u, c, y), {c})
          /\ Calm(u, PutClient(u, c, y), p)
      <4>1. Good(u, pr, None, E) /\ Unpolled(u, c)
        BY <2>10, <2>11
      <4>2. c \in E /\ E \subseteq E \cup {c}
        BY <2>9
      <4> QED
        BY <3>1, <4>1, <4>2, PutClientGood
    <3> QED
      BY <2>1, <2>11, <3>1, <3>2, <3>3, PutClientState
  <2> HIDE DEF v
  <2>13. /\ Good(w, pr, None, E) /\ Kept(v, w, {}) /\ Calm(v, w, p)
         /\ w \in State /\ Unpolled(w, c) /\ w.router[p].poll = None
         /\ \A log : Waiting(r, log) => Waiting(w.router[p], log)
         /\ r.life = "dead" /\ (\E k \in Sessions : s.table[k] = p) =>
              w.router[p].life = "dead"
    <3>1. Swept(v, w) /\ w.table = v.table
      BY <2>12, ReleaseSwept
    <3>2. /\ Good(w, pr, None, E) /\ Kept(v, w, {}) /\ Calm(v, w, p)
          /\ \A log : Waiting(v.router[p], log) => Waiting(w.router[p], log)
      BY <2>12, <3>1, SweptGood
    <3>3. w.router[p].poll = None
      BY <2>10, <2>12, <3>1, NoRouterFacts DEF Swept
    <3>4. r.life = "dead" /\ (\E k \in Sessions : s.table[k] = p) =>
              w.router[p].life = "dead"
      BY <2>10, <2>12, <3>1 DEF Swept
    <3> QED
      BY <2>1, <2>10, <2>12, <3>1, <3>2, <3>3, <3>4 DEF Swept, Kept
  <2> HIDE DEF w
  <2>14. /\ Good(z, pr, None, D) /\ Kept(w, z, {c}) /\ Calm(w, z, p)
         /\ z \in State /\ z.router = w.router
    <3> DEFINE y == [w.client[c] EXCEPT !.owed = 0]
    <3>1. y \in ClientType /\ y.owed = 0
      <4>1. w.client[c] \in ClientType
        BY <2>1, <2>13, StateFacts
      <4> QED
        BY <4>1 DEF ClientType
    <3> HIDE DEF y
    <3>2. z = PutClient(w, c, y)
      BY DEF y
    <3> HIDE DEF z
    <3>3. /\ Good(PutClient(w, c, y), pr, None, D)
          /\ Kept(w, PutClient(w, c, y), {c})
          /\ Calm(w, PutClient(w, c, y), p)
      <4>1. Good(w, pr, None, E) /\ Unpolled(w, c)
        BY <2>13
      <4>2. E \subseteq D \cup {c}
        BY <2>9
      <4> QED
        BY <3>1, <4>1, <4>2, PutClientGood
    <3> QED
      BY <2>1, <2>13, <3>1, <3>2, <3>3, PutClientState
  <2> HIDE DEF z
  <2>15. t = z
    BY <2>5, <2>13, <2>14, PollSame
  <2>16. Kept(s, z, {c})
    <3>1. Kept(s, u, {})
      BY <2>7, <2>10, KeptTrans
    <3>2. Kept(s, v, {c})
      BY <2>12, <3>1, KeptTrans
    <3>3. Kept(s, w, {c})
      BY <2>13, <3>2, KeptTrans
    <3> QED
      BY <2>14, <3>3, KeptTrans
  <2>17. Calm(s, z, p)
    <3>1. Calm(s, u, p)
      BY <2>6, <2>7, <2>10, CalmTrans
    <3>2. Calm(s, v, p)
      BY <2>11, <2>12, <3>1, CalmTrans
    <3>3. Calm(s, w, p)
      BY <2>12, <2>13, <3>2, CalmTrans
    <3> QED
      BY <2>13, <2>14, <3>3, CalmTrans
  <2>18. \A log : Waiting(s.router[p], log) => Waiting(r, log)
    BY <2>4 DEF Waiting
  <2> QED
    BY <2>4, <2>13, <2>14, <2>15, <2>16, <2>17, <2>18
<1>4. CASE s.router[p].poll # None
  <2>1. s.router[p].poll \in Clients
    BY <1>1, <1>4
  <2> HIDE DEF t
  <2>2. /\ Good(t, pr, None, D) /\ Kept(s, t, {s.router[p].poll})
        /\ Calm(s, t, p) /\ t.router[p].poll = None
        /\ \A log :
              Waiting(s.router[p], log) => Waiting(t.router[p], log)
        /\ s.router[p].life = "dead" /\ (\E k \in Sessions :
             s.table[k] = p) => t.router[p].life = "dead"
    BY <1>3, <2>1
  <2>3. Tells(s, t, p) /\ Eases(s.router[p], t.router[p])
    BY <1>4, <2>2 DEF Tells, Eases
  <2> QED
    BY <2>2, <2>3 DEF t
<1> QED
  BY <1>2, <1>4
(* A router changes, and the client that waits for it is told.  Messages   *)
(* may have been taken from its socket, or it may have ended.              *)
Alters(s, pr, qr, p, r) ==
    /\ Alive(s.router[p]) /\ Alive(r) /\ r.poll = s.router[p].poll
    /\ s.router[p].life = "dead" => r.life = "dead"
    /\ r.life = "status" => r.recvqueue # <<>>
    /\ Stream(s.given[p], r.recvqueue, r.sock, r.life,
              qr[p].made, qr[p].out)
    /\ \A q \in Routers \ {p} : qr[q] = pr[q]

(* A router that has changed and tells its client.                         *)
LEMMA TellGood ==
    ASSUME NEW s, NEW pr, NEW qr \in Processes, NEW D, NEW p \in Routers,
           Good(s, pr, None, D), NEW r \in RouterType,
           Alters(s, pr, qr, p, r)
    PROVE  LET t == Notify(PutRouter(s, p, r), p)
           IN Good(t, qr, None, D) /\ Tells(s, t, p)
<1> DEFINE u == PutRouter(s, p, r)
           g == s.given[p]
           t == Notify(u, p)
<1>1. /\ s \in State /\ g \in Seq(Messages)
  BY StateFacts DEF Good, Base
<1>2. /\ u = Put(s, p, r, g) /\ u \in State /\ u.router[p] = r
      /\ u.table = s.table
  BY <1>1, PutRouterState
<1> HIDE DEF u
<1>3. /\ Good(u, qr, p, D) /\ Calm(s, u, p) /\ Kept(s, u, {})
  <2>1. Fits(s, qr, p, D, p, r, g)
    <3>1. /\ s.router[p].poll # None =>
                s.client[s.router[p].poll].longpoll = p
          /\ \A c \in Clients \ D :
                s.client[c].owed = 1 /\ s.client[c].longpoll = p =>
                   s.router[p].poll = c
      BY DEF Good, Linked, Told
    <3> QED
      BY <3>1 DEF Alters, Fits, Alive
  <2>2. Moves(s, pr, qr, None, p, D, D, p, r) /\ Polls(s, p, r)
    BY DEF Moves, Polls, Alters, Alive
  <2> HIDE DEF g
  <2>3. /\ Good(Put(s, p, r, g), qr, p, D) /\ Calm(s, Put(s, p, r, g), p)
        /\ Polls(s, p, r) => Kept(s, Put(s, p, r, g), {})
    BY <1>1, <2>1, <2>2, PutGood
  <2> QED
    BY <1>2, <2>2, <2>3
<1>4. Good(t, qr, None, D) /\ Tells(u, t, p)
  <2>1. Good(u, qr, p, D)
    BY <1>3
  <2> QED
    BY <2>1, NotifyGood
<1> HIDE DEF t
<1>5. Tells(s, t, p)
  <2>1. /\ r.poll = s.router[p].poll /\ Alive(r)
        /\ s.router[p].life = "dead" => r.life = "dead"
    BY DEF Alters
  <2>2. /\ u.router[p].poll = s.router[p].poll
        /\ Alive(u.router[p])
        /\ s.router[p].life = "dead" => u.router[p].life = "dead"
        /\ u.table = s.table
    BY <1>2, <2>1
  <2>3. /\ Kept(u, t, {u.router[p].poll}) /\ Calm(u, t, p)
        /\ t.router[p].poll = None
        /\ u.router[p].poll = None => Alive(t.router[p])
        /\ u.router[p].life = "dead" /\ (\E k \in Sessions :
             u.table[k] = p) => t.router[p].life = "dead"
    BY <1>4, <2>2 DEF Tells
  <2>4. Kept(u, t, {s.router[p].poll})
    BY <2>2, <2>3
  <2>5. Kept(s, t, {s.router[p].poll})
    BY <1>3, <2>4, KeptTrans
  <2>6. Calm(s, t, p)
    BY <1>2, <1>3, <2>3, CalmTrans
  <2>7. /\ s.router[p].poll = None => Alive(t.router[p])
        /\ s.router[p].life = "dead" /\ (\E k \in Sessions :
             s.table[k] = p) => t.router[p].life = "dead"
    BY <2>2, <2>3
  <2> QED
    BY <2>3, <2>5, <2>6, <2>7 DEF Tells
<1> QED
  BY <1>4, <1>5 DEF t, u

(* A session that ran ends.                                                *)
EndedRouter(r) ==
    IF r.life # "run" THEN r
    ELSE [r EXCEPT !.life = "status", !.recvqueue = Append(@, Terminate)]

(* The end of a session in the table of routers.                           *)
LEMMA EndedIs ==
    ASSUME NEW s \in State, NEW p \in Routers, NEW r \in RouterType
    PROVE  Ended(PutRouter(s, p, r), p) = PutRouter(s, p, EndedRouter(r))
<1> DEFINE u == PutRouter(s, p, r)
           q == Append(r.recvqueue, Terminate)
<1>1. u \in State /\ u.router[p] = r /\ s.router \in [Routers -> RouterType]
  BY PutRouterState, StateFacts
<1>2. CASE r.life # "run"
  BY <1>1, <1>2 DEF Ended, EndedRouter
<1>3. CASE r.life = "run"
  <2> HIDE DEF u
  <2>1. Ended(u, p) = [u EXCEPT !.router[p].life = "status",
                                !.router[p].recvqueue = q]
    BY <1>1, <1>3 DEF Ended
  <2>2. EndedRouter(r) = [r EXCEPT !.life = "status", !.recvqueue = q]
    BY <1>3 DEF EndedRouter
  <2> HIDE DEF q
  <2> DEFINE e == [r EXCEPT !.life = "status", !.recvqueue = q]
  <2>3. [[s.router EXCEPT ![p] = r] EXCEPT
           ![p].life = "status", ![p].recvqueue = q]
          = [s.router EXCEPT ![p] = e]
    BY <1>1 DEF RouterType
  <2>4. [[s EXCEPT !.router[p] = r] EXCEPT
            !.router[p].life = "status", !.router[p].recvqueue = q]
          = [s EXCEPT !.router = [[s.router EXCEPT ![p] = r] EXCEPT
                           ![p].life = "status", ![p].recvqueue = q]]
    BY <1>1 DEF State
  <2>5. [s EXCEPT !.router = [s.router EXCEPT ![p] = e]]
          = [s EXCEPT !.router[p] = e]
    OBVIOUS
  <2> QED
    BY <2>1, <2>2, <2>3, <2>4, <2>5 DEF PutRouter, u
<1> QED
  BY <1>2, <1>3

(* The end of a session leaves its router sound.                           *)
LEMMA EndedFacts ==
    ASSUME NEW r \in RouterType, Alive(r),
           r.life = "status" => r.recvqueue # <<>>,
           NEW g \in Seq(Messages), NEW made \in Seq(Made),
           NEW out \in Seq(Made),
           Stream(g, r.recvqueue, r.sock, r.life, made, out)
    PROVE  LET e == EndedRouter(r)
           IN /\ e \in RouterType /\ Alive(e)
              /\ e.poll = r.poll /\ e.sock = r.sock
              /\ e.life = "status" => e.recvqueue # <<>>
              /\ e.life = "dead" <=> r.life = "dead"
              /\ Stream(g, e.recvqueue, e.sock, e.life, made, out)
<1>1. CASE r.life # "run"
  BY <1>1 DEF EndedRouter
<1>2. CASE r.life = "run"
  <2> DEFINE q == r.recvqueue
             a == Append(q, Terminate)
             e == [r EXCEPT !.life = "status", !.recvqueue = a]
  <2>1. EndedRouter(r) = e
    BY <1>2 DEF EndedRouter
  <2>2. r.recvqueue \in Seq(Messages) /\ r.sock \in BOOLEAN
    BY RouterFacts
  <2>3. Stream(g, a, r.sock, "status", made, out)
    BY <1>2, <2>2, StreamEnds
  <2>4. a \in Seq(Messages) /\ a # <<>>
    <3>1. q \in Seq(Messages) /\ Terminate \in Messages
      BY <2>2, TerminateFacts
    <3> HIDE DEF q
    <3> QED
      BY <3>1
  <2> HIDE DEF a
  <2>5. /\ e \in RouterType /\ e.life = "status" /\ e.recvqueue = a
        /\ e.sock = r.sock /\ e.poll = r.poll
    BY <2>4 DEF RouterType
  <2> QED
    BY <1>2, <2>1, <2>3, <2>4, <2>5 DEF Alive
<1> QED
  BY <1>1, <1>2

(* A router has lost at most its socket, its process or commands.          *)
Follows(s, pr, qr, p, r) ==
    /\ Alive(s.router[p]) /\ r.life = s.router[p].life
    /\ r.poll = s.router[p].poll /\ r.recvqueue = s.router[p].recvqueue
    /\ Stream(s.given[p], r.recvqueue, r.sock, r.life,
              qr[p].made, qr[p].out)
    /\ \A q \in Routers \ {p} : qr[q] = pr[q]

(* A router whose session ends tells its client.                           *)
LEMMA EndGood ==
    ASSUME NEW s, NEW pr, NEW qr \in Processes, NEW D, NEW p \in Routers,
           Good(s, pr, None, D), NEW r \in RouterType,
           Follows(s, pr, qr, p, r)
    PROVE  LET t == Notify(Ended(PutRouter(s, p, r), p), p)
           IN Good(t, qr, None, D) /\ Tells(s, t, p)
<1> DEFINE e == EndedRouter(r)
           g == s.given[p]
           made == qr[p].made
           out == qr[p].out
           t == Notify(PutRouter(s, p, e), p)
<1>1. s \in State /\ g \in Seq(Messages)
  BY StateFacts DEF Good, Base
<1>2. made \in Seq(Made) /\ out \in Seq(Made)
  BY DEF Processes, ProcessType
<1>3. r.life = "status" => r.recvqueue # <<>>
  BY DEF Good, Base, LifeInv, Follows
<1>4. Alive(r)
  BY DEF Alive, Follows
<1>5. Notify(Ended(PutRouter(s, p, r), p), p) = t
  BY <1>1, EndedIs
<1>6. Stream(g, r.recvqueue, r.sock, r.life, made, out)
  BY DEF Follows
<1>7. /\ e \in RouterType /\ Alive(e) /\ e.poll = r.poll
      /\ e.life = "status" => e.recvqueue # <<>>
      /\ e.life = "dead" <=> r.life = "dead"
      /\ Stream(g, e.recvqueue, e.sock, e.life, made, out)
  <2> HIDE DEF g, made, out
  <2> QED
    BY <1>1, <1>2, <1>3, <1>4, <1>6, EndedFacts
<1> HIDE DEF e
<1>8. Good(t, qr, None, D) /\ Tells(s, t, p)
  <2>1. Alters(s, pr, qr, p, e)
    BY <1>7 DEF Alters, Follows
  <2> QED
    BY <1>7, <2>1, TellGood
<1> QED
  BY <1>5, <1>8

(* Router::close().                                                        *)
LEMMA CloseIs ==
    ASSUME NEW s \in State, NEW p \in Routers
    PROVE  LET r == [s.router[p] EXCEPT !.sock = FALSE, !.sendqueue = 0]
           IN /\ r \in RouterType /\ r.sock = FALSE
              /\ r.life = s.router[p].life /\ r.poll = s.router[p].poll
              /\ r.recvqueue = s.router[p].recvqueue
              /\ Close(s, p) = Notify(Ended(PutRouter(s, p, r), p), p)
<1> DEFINE r == [s.router[p] EXCEPT !.sock = FALSE, !.sendqueue = 0]
<1>1. s.router \in [Routers -> RouterType] /\ s.router[p] \in RouterType
  BY StateFacts
<1>2. [s EXCEPT !.router[p].sock = FALSE, !.router[p].sendqueue = 0]
        = PutRouter(s, p, r)
  BY <1>1 DEF State, PutRouter
<1>3. /\ r \in RouterType /\ r.sock = FALSE
      /\ r.life = s.router[p].life /\ r.poll = s.router[p].poll
      /\ r.recvqueue = s.router[p].recvqueue
  BY <1>1 DEF RouterType
<1> QED
  BY <1>2, <1>3 DEF Close

(* At most one message has been taken from the socket of a process.        *)
Reads(pr, qr, p) ==
    /\ qr[p].made = pr[p].made
    /\ \/ qr[p].out = pr[p].out
       \/ pr[p].out # <<>> /\ qr[p].out = Tail(pr[p].out)
    /\ \A q \in Routers \ {p} : qr[q] = pr[q]

(* close() keeps the invariant, also when its process has been read.       *)
LEMMA CloseGood ==
    ASSUME NEW s, NEW pr, NEW qr \in Processes, NEW D, NEW p \in Routers,
           Good(s, pr, None, D), Alive(s.router[p]), Reads(pr, qr, p)
    PROVE  LET t == Close(s, p)
           IN Good(t, qr, None, D) /\ Tells(s, t, p)
<1> DEFINE r == [s.router[p] EXCEPT !.sock = FALSE, !.sendqueue = 0]
           g == s.given[p]
           q == s.router[p].recvqueue
           sock == s.router[p].sock
           life == s.router[p].life
           made == pr[p].made
           out == pr[p].out
           u == Notify(Ended(PutRouter(s, p, r), p), p)
<1>1. /\ s \in State /\ pr \in Processes
      /\ Stream(g, q, sock, life, made, out)
  BY DEF Good, Base, StreamOf
<1>2. /\ g \in Seq(Messages) /\ q \in Seq(Messages) /\ sock \in BOOLEAN
      /\ made \in Seq(Made) /\ out \in Seq(Made)
  BY <1>1, StateFacts, RouterFacts DEF Processes, ProcessType
<1>3. Stream(g, q, FALSE, life, made, qr[p].out)
  <2> HIDE DEF g, q, sock, life
  <2>1. CASE qr[p].out = out
    <3> HIDE DEF out, made
    <3> QED
      BY <1>1, <1>2, <2>1, StreamCloses
  <2>2. CASE out # <<>> /\ qr[p].out = Tail(out)
    <3> HIDE DEF out, made
    <3>1. Stream(g, q, FALSE, life, made, out)
      BY <1>1, <1>2, StreamCloses
    <3>2. Stream(g, q, FALSE, life, made, Tail(out))
      BY <1>2, <2>2, <3>1, StreamForgets
    <3> QED
      BY <2>2, <3>2
  <2> QED
    BY <2>1, <2>2 DEF Reads
<1>4. /\ r \in RouterType /\ r.sock = FALSE
      /\ r.life = s.router[p].life /\ r.poll = s.router[p].poll
      /\ r.recvqueue = s.router[p].recvqueue
      /\ Close(s, p) = u
  BY <1>1, CloseIs
<1> HIDE DEF r
<1>5. Follows(s, pr, qr, p, r)
  BY <1>3, <1>4 DEF Follows, Reads
<1>6. Good(u, qr, None, D) /\ Tells(s, u, p)
  BY <1>4, <1>5, EndGood
<1> HIDE DEF u
<1> QED
  BY <1>4, <1>6

(* Router::zap().                                                          *)
LEMMA ZapGood ==
    ASSUME NEW s, NEW pr, NEW D, NEW p \in Routers,
           Good(s, pr, None, D), Alive(s.router[p])
    PROVE  LET t == Zap(s, p)
           IN Good(t, pr, None, D) /\ Tells(s, t, p)
<1> DEFINE r == [s.router[p] EXCEPT !.sock = FALSE, !.pid = FALSE,
                    !.sendqueue = 0, !.recvqueue = <<>>, !.life = "dead"]
           g == s.given[p]
           q == s.router[p].recvqueue
           sock == s.router[p].sock
           life == s.router[p].life
           made == pr[p].made
           out == pr[p].out
<1>1. /\ s \in State /\ pr \in Processes
      /\ Stream(g, q, sock, life, made, out)
      /\ s.router \in [Routers -> RouterType] /\ s.router[p] \in RouterType
  BY StateFacts DEF Good, Base, StreamOf
<1>2. /\ g \in Seq(Messages) /\ q \in Seq(Messages) /\ sock \in BOOLEAN
      /\ made \in Seq(Made) /\ out \in Seq(Made)
  BY <1>1, StateFacts, RouterFacts DEF Processes, ProcessType
<1>3. Stream(g, <<>>, FALSE, "dead", made, out)
  <2> HIDE DEF g, q, sock, life, made, out
  <2> QED
    BY <1>1, <1>2, StreamDrops
<1>4. Zap(s, p) = Notify(PutRouter(s, p, r), p)
  <2>1. [s EXCEPT !.router[p].sock = FALSE, !.router[p].pid = FALSE,
                  !.router[p].sendqueue = 0, !.router[p].recvqueue = <<>>,
                  !.router[p].life = "dead"] = PutRouter(s, p, r)
    <3> DEFINE a == [s.router EXCEPT ![p].sock = FALSE, ![p].pid = FALSE,
                       ![p].sendqueue = 0, ![p].recvqueue = <<>>,
                       ![p].life = "dead"]
    <3>1. a = [s.router EXCEPT ![p] = r]
      BY <1>1
    <3>2. [s EXCEPT !.router[p].sock = FALSE, !.router[p].pid = FALSE,
                    !.router[p].sendqueue = 0, !.router[p].recvqueue = <<>>,
                    !.router[p].life = "dead"] = [s EXCEPT !.router = a]
      BY <1>1 DEF State
    <3> QED
      BY <3>1, <3>2 DEF PutRouter
  <2> QED
    BY <2>1 DEF Zap
<1>5. /\ r \in RouterType /\ r.sock = FALSE /\ r.life = "dead"
      /\ r.poll = s.router[p].poll /\ r.recvqueue = <<>>
  <2>1. <<>> \in Seq(Messages) /\ 0 \in Nat
    OBVIOUS
  <2> QED
    BY <1>1, <2>1 DEF RouterType
<1> HIDE DEF r
<1>6. Alters(s, pr, pr, p, r)
  BY <1>3, <1>5 DEF Alters, Alive
<1> DEFINE u == Notify(PutRouter(s, p, r), p)
<1>7. Good(u, pr, None, D) /\ Tells(s, u, p)
  <2>1. r \in RouterType /\ pr \in Processes
    BY <1>1, <1>5
  <2> QED
    BY <1>6, <2>1, TellGood
<1> HIDE DEF u
<1> QED
  BY <1>4, <1>7 DEF u

(* A router keeps its life, its queue and its client.                      *)
LEMMA FollowGood ==
    ASSUME NEW s, NEW pr, NEW qr \in Processes, NEW D, NEW p \in Routers,
           Good(s, pr, None, D), NEW r \in RouterType,
           Follows(s, pr, qr, p, r)
    PROVE  LET t == PutRouter(s, p, r)
           IN /\ Good(t, qr, None, D) /\ Kept(s, t, {}) /\ Calm(s, t, p)
              /\ t.router[p] = r /\ t.client = s.client /\ t.given = s.given
<1> DEFINE t == PutRouter(s, p, r)
           g == s.given[p]
<1>1. s \in State /\ g \in Seq(Messages)
  BY StateFacts DEF Good, Base
<1>2. /\ t = Put(s, p, r, g) /\ t.router[p] = r /\ t.client = s.client
      /\ t.given = s.given
  BY <1>1, PutRouterState
<1>3. Fits(s, qr, None, D, p, r, g)
  <2>1. Heard(s, p) /\ (r.life = "status" => r.recvqueue # <<>>)
    BY NoneFacts DEF Good, Base, LifeInv, Follows
  <2>2. Hears(r, s.client)
    BY <2>1 DEF Heard, Hears, Follows, Waiting
  <2>3. /\ s.router[p].poll # None =>
              s.client[s.router[p].poll].longpoll = p
        /\ \A c \in Clients \ D :
              s.client[c].owed = 1 /\ s.client[c].longpoll = p =>
                 s.router[p].poll = c
    BY DEF Good, Linked, Told
  <2> QED
    BY <2>1, <2>2, <2>3 DEF Fits, Follows, Alive
<1>4. Moves(s, pr, qr, None, None, D, D, p, r) /\ Polls(s, p, r)
  BY DEF Moves, Polls, Follows, Alive
<1> HIDE DEF g
<1>5. /\ Good(Put(s, p, r, g), qr, None, D) /\ Calm(s, Put(s, p, r, g), p)
      /\ Polls(s, p, r) => Kept(s, Put(s, p, r, g), {})
  BY <1>1, <1>3, <1>4, PutGood
<1> HIDE DEF t
<1>6. /\ Good(t, qr, None, D) /\ Kept(s, t, {}) /\ Calm(s, t, p)
      /\ t.router[p] = r /\ t.client = s.client /\ t.given = s.given
  BY <1>2, <1>4, <1>5
<1> QED
  BY <1>6 DEF t

(* Router::send().                                                         *)
LEMMA CommandGood ==
    ASSUME NEW s, NEW pr, NEW D, NEW p \in Routers, NEW n \in Nat,
           Good(s, pr, None, D), Alive(s.router[p])
    PROVE  LET t == Command(s, p, n)
           IN /\ Good(t, pr, None, D) /\ Kept(s, t, {})
              /\ t.router[p].life = s.router[p].life
<1> DEFINE r == [s.router[p] EXCEPT !.sendqueue = @ + n]
           u == PutRouter(s, p, r)
<1>1. /\ s \in State /\ pr \in Processes /\ s.router[p] \in RouterType
  BY StateFacts DEF Good, Base
<1>2. Command(s, p, n) \in {s, u}
  BY DEF Command, PutRouter
<1>3. /\ r \in RouterType /\ r.life = s.router[p].life
      /\ r.poll = s.router[p].poll /\ r.sock = s.router[p].sock
      /\ r.recvqueue = s.router[p].recvqueue
  <2>1. s.router[p].sendqueue + n \in Nat
    BY <1>1, RouterFacts
  <2> DEFINE m == s.router[p].sendqueue + n
  <2> HIDE DEF m
  <2>2. [s.router[p] EXCEPT !.sendqueue = m] \in RouterType
    BY <1>1, <2>1 DEF RouterType, m
  <2> QED
    BY <1>1, <2>2 DEF RouterType, m
<1> HIDE DEF r
<1>4. Follows(s, pr, pr, p, r)
  BY <1>3 DEF Follows, Good, Base, StreamOf
<1>5. Good(u, pr, None, D) /\ Kept(s, u, {}) /\ u.router[p] = r
  BY <1>1, <1>3, <1>4, FollowGood
<1>6. Kept(s, s, {})
  BY DEF Kept
<1> HIDE DEF u
<1> QED
  BY <1>2, <1>3, <1>5, <1>6

(* The last reference to a dead router goes.                               *)
LEMMA ReleaseGood ==
    ASSUME NEW s, NEW pr, NEW D, Good(s, pr, None, D)
    PROVE  Good(Release(s), pr, None, D) /\ Kept(s, Release(s), {})
<1>1. Swept(s, Release(s))
  BY ReleaseSwept DEF Good, Base
<1> QED
  BY <1>1, SweptGood

(* What the handler of a request changes of its client, whose turn it is.  *)
LEMMA TurnGood ==
    ASSUME NEW s, NEW pr, NEW c \in Clients, Good(s, pr, None, {c}),
           Unpolled(s, c), NEW z \in ClientType
    PROVE  /\ Good(PutClient(s, c, z), pr, None, {c})
           /\ Unpolled(PutClient(s, c, z), c)
           /\ Kept(s, PutClient(s, c, z), {c})
           /\ PutClient(s, c, z).client[c] = z
           /\ PutClient(s, c, z).router = s.router
<1>1. c \in {c} /\ {c} \subseteq {c} \cup {c} /\ s \in State
  BY DEF Good, Base
<1>2. /\ PutClient(s, c, z).client[c] = z
      /\ PutClient(s, c, z).router = s.router
  BY <1>1, PutClientState
<1> QED
  BY <1>1, <1>2, PutClientGood

(* Client::send(): the client is owed nothing any more.                    *)
LEMMA AnswerGood ==
    ASSUME NEW s, NEW pr, NEW c \in Clients, Good(s, pr, None, {c}),
           Unpolled(s, c)
    PROVE  /\ Good(Answer(s, c), pr, None, {})
           /\ Kept(s, Answer(s, c), Clients)
<1> DEFINE z == [s.client[c] EXCEPT !.owed = 0]
<1>1. Answer(s, c) = PutClient(s, c, z)
  BY DEF Answer, PutClient
<1>2. z \in ClientType /\ z.owed = 0
  <2>1. s.client[c] \in ClientType
    BY StateFacts DEF Good, Base
  <2> QED
    BY <2>1 DEF ClientType
<1> HIDE DEF z
<1>3. {c} \subseteq {} \cup {c}
  OBVIOUS
<1>4. Good(PutClient(s, c, z), pr, None, {})
      /\ Kept(s, PutClient(s, c, z), {c})
  BY <1>2, <1>3, PutClientGood
<1> QED
  BY <1>1, <1>4 DEF Kept

(* unset_longpoll().                                                       *)
LEMMA LeavePollGood ==
    ASSUME NEW s, NEW pr, NEW c \in Clients, Good(s, pr, None, {})
    PROVE  LET t == LeavePoll(s, c)
           IN /\ Good(t, pr, None, {c}) /\ Unpolled(t, c)
              /\ Kept(s, t, {c})
              /\ \A q \in Routers : s.router[q].life = "none" =>
                                       t.router[q].life = "none"
<1> DEFINE p == s.client[c].longpoll
           t == LeavePoll(s, c)
<1>1. /\ s \in State /\ pr \in Processes /\ s.client[c] \in ClientType
      /\ s.client \in [Clients -> ClientType]
      /\ s.router \in [Routers -> RouterType]
      /\ p \in Routers \cup {None}
  BY StateFacts, ClientFacts DEF Good, Base
<1>2. CASE p = None
  <2>1. t = s
    BY <1>2 DEF LeavePoll
  <2>2. Unpolled(s, c)
    BY <1>2, NoneFacts DEF Unpolled, Good, Linked
  <2>3. Good(s, pr, None, {c})
    BY DEF Good
  <2>4. Kept(s, s, {c})
    BY DEF Kept
  <2> QED
    BY <2>1, <2>2, <2>3, <2>4
<1>3. CASE p \in Routers
  <2> DEFINE w == s.router[p].poll
             y == IF w = c THEN None ELSE w
             r == [s.router[p] EXCEPT !.poll = y]
             z == [s.client[c] EXCEPT !.longpoll = None]
             u == PutRouter(s, p, r)
             v == PutClient(u, c, z)
             g == s.given[p]
  <2>1. t = Release(v)
    <3>1. t = Release([[s EXCEPT !.client[c].longpoll = None] EXCEPT
                          !.router[p].poll = IF @ = c THEN None ELSE @])
      BY <1>3, NoneFacts DEF LeavePoll
    <3>2. [[s EXCEPT !.client[c].longpoll = None] EXCEPT
              !.router[p].poll = IF @ = c THEN None ELSE @]
            = [[s EXCEPT !.client[c] = z] EXCEPT !.router[p] = r]
      BY <1>1 DEF State
    <3> HIDE DEF r, z
    <3>3. [[s EXCEPT !.client[c] = z] EXCEPT !.router[p] = r]
            = [[s EXCEPT !.router[p] = r] EXCEPT !.client[c] = z]
      BY <1>1 DEF State
    <3> QED
      BY <3>1, <3>2, <3>3 DEF PutRouter, PutClient
  <2> HIDE DEF t
  <2>2. /\ s.router[p] \in RouterType /\ w \in Clients \cup {None}
        /\ g \in Seq(Messages)
    BY <1>1, <1>3, StateFacts, RouterFacts
  <2>3. /\ r \in RouterType /\ r.poll = y /\ r.life = s.router[p].life
        /\ r.recvqueue = s.router[p].recvqueue /\ r.sock = s.router[p].sock
    BY <2>2 DEF RouterType
  <2>4. r.life \in {"none", "gone"} => r = s.router[p] /\ w = None
    <3>1. r.life \in {"none", "gone"} => w = None
      BY <1>3, <2>3, NoRouterFacts DEF Good, Base, LifeInv
    <3>2. w = None => y = w
      BY NoneFacts
    <3>3. y = w => r = s.router[p]
      BY <2>2 DEF RouterType
    <3> QED
      BY <3>1, <3>2, <3>3
  <2> HIDE DEF r
  <2>5. /\ u \in State /\ u.router[p] = r /\ u.client = s.client
        /\ \A q \in Routers \ {p} : u.router[q] = s.router[q]
    BY <1>1, <1>3, <2>3, PutRouterState
  <2>6. Good(u, pr, None, {c}) /\ Kept(s, u, {})
    <3>1. Fits(s, pr, None, {c}, p, r, g)
      <4>1. Hears(r, s.client)
        <5>1. Heard(s, p)
          BY <1>3, NoneFacts DEF Good
        <5>2. r.poll # None => r.poll = w
          BY <2>3
        <5> QED
          BY <2>3, <5>1, <5>2 DEF Heard, Hears, Waiting
      <4>2. r.poll # None => s.client[r.poll].longpoll = p
        BY <1>3, <2>3 DEF Good, Linked
      <4>3. \A d \in Clients \ {c} :
               s.client[d].owed = 1 /\ s.client[d].longpoll = p =>
                  r.poll = d
        BY <1>3, <2>3 DEF Good, Told
      <4>4. /\ Stream(g, r.recvqueue, r.sock, r.life, pr[p].made, pr[p].out)
            /\ r.life = "status" => r.recvqueue # <<>>
            /\ r.life = "gone" => r = Gone
        BY <1>3, <2>3, <2>4 DEF Good, Base, StreamOf, LifeInv
      <4> QED
        BY <2>3, <2>4, <4>1, <4>2, <4>3, <4>4 DEF Fits, Alive
    <3>2. Moves(s, pr, pr, None, None, {}, {c}, p, r) /\ Polls(s, p, r)
      BY <2>3 DEF Moves, Polls
    <3> QED
      BY <1>3, <2>3, <3>1, <3>2, PutRouterGood
  <2>7. Unpolled(u, c)
    <3>1. \A q \in Routers \ {p} : s.router[q].poll # c
      BY NoneFacts DEF Good, Linked
    <3>2. r.poll # c
      BY <2>3, NoneFacts
    <3> QED
      BY <2>5, <3>1, <3>2 DEF Unpolled
  <2> HIDE DEF u
  <2>8. /\ Good(v, pr, None, {c}) /\ Unpolled(v, c) /\ Kept(u, v, {c})
        /\ v.router = u.router
    <3>1. z \in ClientType
      BY <1>1 DEF ClientType
    <3> HIDE DEF z
    <3> QED
      BY <2>6, <2>7, <3>1, TurnGood
  <2> HIDE DEF v
  <2>9. Good(t, pr, None, {c}) /\ Swept(v, t) /\ Kept(v, t, {})
    <3>1. Swept(v, Release(v))
      BY <2>8, ReleaseSwept DEF Good, Base
    <3>2. Good(v, pr, None, {c})
      BY <2>8
    <3> QED
      BY <2>1, <3>1, <3>2, SweptGood
  <2>10. Kept(s, t, {c})
    <3>1. Kept(s, v, {c})
      BY <2>6, <2>8, KeptTrans
    <3> QED
      BY <2>9, <3>1, KeptTrans
  <2>11. Unpolled(t, c)
    BY <2>8, <2>9, NoneFacts, NoRouterFacts DEF Swept, Unpolled
  <2>12. ASSUME NEW q \in Routers, s.router[q].life = "none"
         PROVE  t.router[q].life = "none"
    <3>1. u.router[q].life = "none"
      BY <2>3, <2>5, <2>12
    <3> QED
      BY <2>8, <2>9, <3>1 DEF Swept
  <2> QED
    BY <2>9, <2>10, <2>11, <2>12 DEF t
<1> QED
  BY <1>1, <1>2, <1>3

(* A client whose request is being handled: it holds on to a router, and   *)
(* nobody calls it back.                                                   *)
Mine(s, c, p) == Held(s, c, p) /\ Unpolled(s, c) /\ s.client[c].owed = 1

(* A call that leaves client c alone leaves it the router it asks.         *)
LEMMA MineKept ==
    ASSUME NEW s, NEW t, NEW c \in Clients, NEW p \in Routers, NEW D,
           Mine(s, c, p), Kept(s, t, D), c \notin D
    PROVE  Mine(t, c, p) /\ t.client[c] = s.client[c]
<1>1. /\ t.client[c] = s.client[c] /\ Unpolled(t, c) /\ Held(t, c, p)
  BY DEF Mine, Kept
<1> QED
  BY <1>1 DEF Mine

(* What is said of some clients is said of fewer.                          *)
LEMMA KeptAll ==
    ASSUME NEW s, NEW t, NEW D, Kept(s, t, D), D \subseteq Clients
    PROVE  Kept(s, t, Clients)
BY DEF Kept

(* set_longpoll(): whoever waits already is told.                          *)
LEMMA SetLongpollGood ==
    ASSUME NEW s, NEW pr, NEW c \in Clients, NEW p \in Routers,
           Good(s, pr, None, {c}), Mine(s, c, p),
           Waiting(s.router[p], s.client[c].log)
    PROVE  LET t == SetLongpoll(s, p, c)
           IN Good(t, pr, None, {}) /\ Kept(s, t, Clients)
<1> DEFINE n == Notify(s, p)
           r == [n.router[p] EXCEPT !.poll = c]
           t == PutRouter(n, p, r)
           g == n.given[p]
           w == s.router[p].poll
<1>1. SetLongpoll(s, p, c) = t
  <2>1. s.router[p].poll # c
    BY DEF Mine, Unpolled
  <2>2. SetLongpoll(s, p, c) = [n EXCEPT !.router[p].poll = c]
    BY <2>1 DEF SetLongpoll
  <2> HIDE DEF n
  <2> QED
    BY <2>2 DEF PutRouter
<1>2. /\ Good(n, pr, None, {c}) /\ Tells(s, n, p)
      /\ Eases(s.router[p], n.router[p])
  BY NotifyGood
<1> HIDE DEF n
<1>3. Kept(s, n, {w}) /\ w # c /\ n.router[p].poll = None
  BY <1>2 DEF Tells, Mine, Unpolled
<1>4. Mine(n, c, p) /\ n.client[c] = s.client[c]
  <2>1. c \notin {w}
    BY <1>3
  <2> HIDE DEF w
  <2> QED
    BY <1>3, <2>1, MineKept
<1>5. Waiting(n.router[p], n.client[c].log)
  BY <1>2, <1>4 DEF Eases
<1>6. /\ n \in State /\ pr \in Processes /\ n.router[p] \in RouterType
      /\ g \in Seq(Messages)
  BY <1>2, StateFacts DEF Good, Base
<1>7. /\ r \in RouterType /\ r.poll = c /\ r.life = n.router[p].life
      /\ r.recvqueue = n.router[p].recvqueue /\ r.sock = n.router[p].sock
  BY <1>6 DEF RouterType
<1> HIDE DEF r
<1>8. Fits(n, pr, None, {}, p, r, g)
  <2>1. Alive(n.router[p]) /\ Alive(r) /\ n.client[c].longpoll = p
        /\ n.client[c].owed = 1
    BY <1>4, <1>7 DEF Mine, Held, Alive
  <2>2. Hears(r, n.client)
    BY <1>5, <1>7, <2>1 DEF Hears, Waiting
  <2>3. \A d \in Clients :
           n.client[d].owed = 1 /\ n.client[d].longpoll = p => r.poll = d
    BY <1>2, <1>3, <1>7, NoneFacts DEF Good, Told
  <2>4. /\ Stream(g, r.recvqueue, r.sock, r.life, pr[p].made, pr[p].out)
        /\ r.life = "status" => r.recvqueue # <<>>
    BY <1>2, <1>7 DEF Good, Base, StreamOf, LifeInv
  <2> QED
    BY <1>7, <2>1, <2>2, <2>3, <2>4 DEF Fits, Alive
<1>9. Moves(n, pr, pr, None, None, {c}, {}, p, r)
  BY <1>4 DEF Moves, Mine, Held
<1>10. Good(t, pr, None, {})
  BY <1>2, <1>7, <1>8, <1>9, PutRouterGood
<1>11. Kept(s, t, Clients)
  BY <1>3, <1>6, <1>7, PutRouterState DEF Kept
<1> QED
  BY <1>1, <1>10, <1>11

(* The rest of Client::on_input().                                         *)
LEMMA ServeGood ==
    ASSUME NEW s, NEW pr, NEW c \in Clients, NEW p \in Routers,
           NEW r \in Requests, Good(s, pr, None, {c}), Unpolled(s, c),
           s.client[c].owed = 1, s.router[p].life \in {"run", "status"}
    PROVE  LET t == Serve(s, c, p, r)
           IN Good(t, pr, None, {}) /\ Kept(s, t, Clients)
<1> DEFINE y == [s.client[c] EXCEPT !.longpoll = p]
           s1 == PutClient(s, c, y)
           told == Command(s1, p, r.cmds)
           closed == Close(told, p)
           ended == Receive(closed, p, c)
           received == Receive(told, p, c)
           t == Serve(s, c, p, r)
<1>1. /\ s \in State /\ pr \in Processes /\ s.client[c] \in ClientType
      /\ r.cmds \in Nat
      /\ r.mode \in {"poll", "noreply", "quit", "clear"}
  BY StateFacts DEF Good, Base, Requests
<1>2. y \in ClientType /\ y.longpoll = p /\ y.owed = 1
  BY <1>1 DEF ClientType
<1>3. [s EXCEPT !.client[c].longpoll = p] = s1
  BY DEF PutClient
<1> HIDE DEF y
<1>4. /\ Good(s1, pr, None, {c}) /\ Unpolled(s1, c) /\ Kept(s, s1, {c})
      /\ s1.client[c] = y /\ s1.router = s.router
  BY <1>2, TurnGood
<1> HIDE DEF s1
<1>5. Mine(s1, c, p) /\ Alive(s1.router[p])
  BY <1>2, <1>4 DEF Mine, Held, Alive
<1>6. /\ Good(told, pr, None, {c}) /\ Kept(s1, told, {})
      /\ told.router[p].life \in {"run", "status"}
  <2> DEFINE m == r.cmds
             u == Command(s1, p, m)
  <2>1. m \in Nat /\ Good(s1, pr, None, {c})
    BY <1>1, <1>4
  <2> HIDE DEF m
  <2>2. /\ Good(u, pr, None, {c}) /\ Kept(s1, u, {})
        /\ u.router[p].life = s1.router[p].life
    BY <1>5, <2>1, CommandGood
  <2> HIDE DEF u
  <2>3. /\ Good(u, pr, None, {c}) /\ Kept(s1, u, {})
        /\ u.router[p].life \in {"run", "status"}
    BY <1>4, <2>2
  <2> QED
    BY <2>3 DEF u, m
<1>7. t = CASE r.mode = "noreply" ->
                Answer(Release([told EXCEPT !.client[c].longpoll = None]), c)
           [] r.mode \in {"quit", "clear"} ->
                Answer(IF ended.router[p].recvqueue = <<>>
                          \/ r.mode = "clear"
                       THEN Zap(ended, p) ELSE ended, c)
           [] r.mode = "poll" /\ received.given[p] # told.given[p] ->
                Answer(received, c)
           [] r.mode = "poll" /\ received.given[p] = told.given[p] ->
                SetLongpoll(received, p, c)
  BY <1>3 DEF Serve
<1> HIDE DEF told, t
<1>8. Mine(told, c, p) /\ Alive(told.router[p]) /\ Kept(s, told, Clients)
  <2>1. Mine(told, c, p)
    BY <1>5, <1>6, MineKept
  <2>2. Kept(s, told, Clients)
    BY <1>4, <1>6, KeptTrans
  <2> QED
    BY <2>1, <2>2 DEF Mine, Held
<1>9. CASE r.mode = "noreply"
  <2> DEFINE z == [told.client[c] EXCEPT !.longpoll = None]
             u == PutClient(told, c, z)
             v == Release(u)
  <2>1. t = Answer(v, c)
    BY <1>7, <1>9 DEF PutClient
  <2>2. z \in ClientType
    <3>1. told.client[c] \in ClientType
      BY <1>6, StateFacts DEF Good, Base
    <3> QED
      BY <3>1 DEF ClientType
  <2> HIDE DEF z
  <2>3. Good(u, pr, None, {c}) /\ Unpolled(u, c) /\ Kept(told, u, {c})
    <3>1. Unpolled(told, c) /\ Good(told, pr, None, {c})
      BY <1>6, <1>8 DEF Mine
    <3> QED
      BY <2>2, <3>1, TurnGood
  <2> HIDE DEF u
  <2>4. Good(v, pr, None, {c}) /\ Kept(u, v, {})
    BY <2>3, ReleaseGood
  <2>5. Unpolled(v, c)
    BY <2>3, <2>4 DEF Kept
  <2>6. Kept(s, v, Clients)
    <3>1. Kept(s, u, Clients)
      BY <1>8, <2>3, KeptTrans
    <3> QED
      BY <2>4, <3>1, KeptTrans
  <2> HIDE DEF v
  <2>7. Good(Answer(v, c), pr, None, {}) /\ Kept(v, Answer(v, c), Clients)
    BY <2>4, <2>5, AnswerGood
  <2>8. Kept(s, Answer(v, c), Clients)
    BY <2>6, <2>7, KeptTrans
  <2> QED
    BY <2>1, <2>7, <2>8 DEF t
<1>10. CASE r.mode \in {"quit", "clear"}
  <2> DEFINE v == IF ended.router[p].recvqueue = <<>> \/ r.mode = "clear"
                  THEN Zap(ended, p) ELSE ended
             w == told.router[p].poll
             x == ended.router[p].poll
  <2>1. t = Answer(v, c)
    BY <1>7, <1>10
  <2>2. Good(closed, pr, None, {c}) /\ Tells(told, closed, p)
    <3>1. Reads(pr, pr, p)
      BY DEF Reads
    <3> QED
      BY <1>1, <1>6, <1>8, <3>1, CloseGood
  <2> HIDE DEF closed
  <2>3. Kept(told, closed, {w}) /\ w # c
    BY <1>8, <2>2 DEF Tells, Mine, Unpolled
  <2>4. Mine(closed, c, p)
    <3>1. c \notin {w}
      BY <2>3
    <3> HIDE DEF w
    <3> QED
      BY <1>8, <2>3, <3>1, MineKept
  <2>5. Good(ended, pr, None, {c}) /\ Kept(closed, ended, {})
    <3>1. Alive(closed.router[p])
      BY <2>4 DEF Mine, Held
    <3> QED
      BY <2>2, <3>1, ReceiveGood DEF Receives
  <2> HIDE DEF ended
  <2>6. Mine(ended, c, p)
    BY <2>4, <2>5, MineKept
  <2>7. Kept(s, ended, Clients)
    <3>1. Kept(told, closed, Clients)
      BY <2>3 DEF Kept
    <3>2. Kept(s, closed, Clients)
      BY <1>8, <3>1, KeptTrans
    <3> QED
      BY <2>5, <3>2, KeptTrans
  <2>8. Good(v, pr, None, {c}) /\ Unpolled(v, c) /\ Kept(s, v, Clients)
    <3>1. CASE v = ended
      BY <2>5, <2>6, <2>7, <3>1 DEF Mine
    <3>2. CASE v = Zap(ended, p)
      <4> DEFINE z == Zap(ended, p)
      <4>1. Good(z, pr, None, {c}) /\ Tells(ended, z, p)
        <5>1. Alive(ended.router[p]) /\ Good(ended, pr, None, {c})
          BY <2>5, <2>6 DEF Mine, Held
        <5> QED
          BY <5>1, ZapGood
      <4> HIDE DEF z
      <4>2. Kept(ended, z, {x}) /\ x # c
        BY <2>6, <4>1 DEF Tells, Mine, Unpolled
      <4>3. Mine(z, c, p)
        <5>1. c \notin {x}
          BY <4>2
        <5> HIDE DEF x
        <5> QED
          BY <2>6, <4>2, <5>1, MineKept
      <4>4. Kept(ended, z, Clients)
        BY <4>2 DEF Kept
      <4>5. Kept(s, z, Clients)
        BY <2>7, <4>4, KeptTrans
      <4> QED
        BY <3>2, <4>1, <4>3, <4>5 DEF Mine, z
    <3> QED
      BY <3>1, <3>2
  <2> HIDE DEF v
  <2>9. Good(Answer(v, c), pr, None, {}) /\ Kept(v, Answer(v, c), Clients)
    BY <2>8, AnswerGood
  <2>10. Kept(s, Answer(v, c), Clients)
    BY <2>8, <2>9, KeptTrans
  <2> QED
    BY <2>1, <2>9, <2>10 DEF t
<1>11. CASE r.mode = "poll"
  <2>1. t = IF received.given[p] = told.given[p]
            THEN SetLongpoll(received, p, c) ELSE Answer(received, c)
    BY <1>7, <1>11
  <2>2. Good(received, pr, None, {c}) /\ Receives(told, received, p, c)
    <3>1. Good(told, pr, None, {c})
      BY <1>6
    <3> QED
      BY <1>8, <3>1, ReceiveGood
  <2> HIDE DEF received
  <2>3. Kept(told, received, {})
    BY <2>2 DEF Receives
  <2>4. Mine(received, c, p) /\ received.client[c] = told.client[c]
    BY <1>8, <2>3, MineKept
  <2>5. Kept(s, received, Clients)
    BY <1>8, <2>3, KeptTrans
  <2>6. CASE received.given[p] # told.given[p]
    <3>1. /\ Good(Answer(received, c), pr, None, {})
          /\ Kept(received, Answer(received, c), Clients)
      <4>1. Unpolled(received, c) /\ Good(received, pr, None, {c})
        BY <2>2, <2>4 DEF Mine
      <4> QED
        BY <4>1, AnswerGood
    <3>2. Kept(s, Answer(received, c), Clients)
      BY <2>5, <3>1, KeptTrans
    <3> QED
      BY <2>1, <2>6, <3>1, <3>2 DEF t
  <2>7. CASE received.given[p] = told.given[p]
    <3> DEFINE z == SetLongpoll(received, p, c)
    <3>1. Waiting(received.router[p], received.client[c].log)
      BY <1>6, <2>2, <2>4, <2>7 DEF Receives
    <3>2. Good(z, pr, None, {}) /\ Kept(received, z, Clients)
      <4>1. Good(received, pr, None, {c})
        BY <2>2
      <4> QED
        BY <2>4, <3>1, <4>1, SetLongpollGood
    <3> HIDE DEF z
    <3>3. Kept(s, z, Clients)
      BY <2>5, <3>2, KeptTrans
    <3> QED
      BY <2>1, <2>7, <3>2, <3>3 DEF t, z
  <2> QED
    BY <2>6, <2>7
<1> QED
  BY <1>1, <1>9, <1>10, <1>11

(* A session enters the table with a router of its own.                    *)
Enter(s, k, p) == [s EXCEPT !.table[k] = p, !.timer = TRUE]
Out(s, p) == \A k \in Sessions : s.table[k] # p

(* The new entry keeps the invariant.                                      *)
LEMMA TableGood ==
    ASSUME NEW s, NEW pr, NEW D, NEW k \in Sessions, NEW p \in Routers,
           Good(s, pr, None, D), Alive(s.router[p]), Out(s, p)
    PROVE  LET t == Enter(s, k, p)
           IN /\ Good(t, pr, None, D) /\ Kept(s, t, {})
              /\ t.router = s.router
<1> DEFINE t == Enter(s, k, p)
<1>1. s \in State /\ pr \in Processes
  BY DEF Good, Base
<1>2. /\ t \in State /\ t.router = s.router /\ t.client = s.client
      /\ t.given = s.given /\ t.loop = s.loop /\ t.table[k] = p
      /\ \A j \in Sessions \ {k} : t.table[j] = s.table[j]
  BY <1>1 DEF State, Enter
<1> HIDE DEF t
<1>3. TableInv(t)
  <2>1. \A j \in Sessions : j = k \/ t.table[j] = s.table[j]
    BY <1>2
  <2> QED
    BY <1>2, <2>1 DEF TableInv, Good, Base, Out
<1>4. LifeInv(t, pr) /\ \A q \in Routers : StreamOf(t, pr, q)
  BY <1>2 DEF Good, Base, LifeInv, StreamOf
<1>5. /\ Linked(t) /\ \A q \in Routers \ {None} : Heard(t, q)
      /\ \A c \in Clients \ D : Told(t, c)
  BY <1>2 DEF Good, Linked, Heard, Told
<1>6. Good(t, pr, None, D)
  BY <1>1, <1>2, <1>3, <1>4, <1>5 DEF Good, Base
<1>7. Kept(s, t, {})
  BY <1>2 DEF Kept, Unpolled, Held
<1> QED
  BY <1>2, <1>6, <1>7 DEF t

(* A session begins, and its process.                                      *)
NewRouter == [NoRouter EXCEPT !.life = "run", !.sock = TRUE, !.pid = TRUE]

(* The fields of a new router.                                             *)
LEMMA NewRouterFacts ==
    /\ NewRouter \in RouterType /\ NewRouter.life = "run"
    /\ NewRouter.sock = TRUE /\ NewRouter.poll = None
    /\ NewRouter.recvqueue = <<>>
<1>1. NoRouter \in RouterType
  BY NoRouterFacts
<1>2. /\ NewRouter \in RouterType /\ NewRouter.life = "run"
      /\ NewRouter.sock = TRUE /\ NewRouter.poll = NoRouter.poll
      /\ NewRouter.recvqueue = NoRouter.recvqueue
  BY <1>1 DEF RouterType, NewRouter
<1> QED
  BY <1>2, NoRouterFacts

(* The processes, when router new is made.                                 *)
Forks(pr, qr, new) ==
    IF new = None THEN qr = pr ELSE qr = [pr EXCEPT ![new].state = "live"]

(* fork() keeps the invariant.                                             *)
LEMMA ForkGood ==
    ASSUME NEW s, NEW pr, NEW qr, NEW D, NEW new \in Routers,
           Good(s, pr, None, D), s.router[new].life = "none",
           Forks(pr, qr, new)
    PROVE  LET t == PutRouter(s, new, NewRouter)
           IN /\ Good(t, qr, None, D) /\ Kept(s, t, {})
              /\ t.router[new] = NewRouter /\ t.table = s.table
<1> DEFINE r == NewRouter
           t == PutRouter(s, new, r)
           g == s.given[new]
<1>1. /\ s \in State /\ pr \in Processes /\ g = <<>>
      /\ s.router[new] = NoRouter /\ pr[new] = NoProcess
  BY DEF Good, Base, LifeInv
<1>2. /\ qr = [pr EXCEPT ![new].state = "live"]
  BY NoneFacts DEF Forks
<1>3. /\ qr \in Processes /\ \A q \in Routers \ {new} : qr[q] = pr[q]
      /\ qr[new].made = <<>> /\ qr[new].out = <<>>
  <2>1. pr[new] \in ProcessType /\ pr[new].made = <<>> /\ pr[new].out = <<>>
    BY <1>1 DEF NoProcess, Processes
  <2> DEFINE x == [pr[new] EXCEPT !.state = "live"]
  <2>2. x \in ProcessType /\ x.made = <<>> /\ x.out = <<>>
    BY <2>1 DEF ProcessType
  <2>3. qr = [pr EXCEPT ![new] = x]
    BY <1>2
  <2> HIDE DEF x
  <2> QED
    BY <1>1, <2>2, <2>3 DEF Processes
<1>4. /\ r \in RouterType /\ r.life = "run" /\ r.sock = TRUE
      /\ r.poll = None /\ r.recvqueue = <<>>
  BY NewRouterFacts
<1> HIDE DEF r
<1>5. Fits(s, qr, None, D, new, r, g)
  <2>1. Stream(g, r.recvqueue, r.sock, r.life, qr[new].made, qr[new].out)
    BY <1>1, <1>3, <1>4, StreamBegins
  <2>2. \A c \in Clients \ D :
           s.client[c].owed = 1 /\ s.client[c].longpoll = new => FALSE
    BY <1>1, NoRouterFacts, NoneFacts DEF Good, Told
  <2> QED
    BY <1>4, <2>1, <2>2 DEF Fits, Alive, Hears
<1>6. Moves(s, pr, qr, None, None, D, D, new, r) /\ Polls(s, new, r)
  BY <1>3, <1>4 DEF Moves, Polls
<1>7. /\ t = Put(s, new, r, g) /\ t.router[new] = r /\ t.table = s.table
      /\ g \in Seq(Messages)
  BY <1>1, <1>4, PutRouterState, StateFacts
<1> HIDE DEF g, t
<1>8. /\ Good(Put(s, new, r, g), qr, None, D)
      /\ Polls(s, new, r) => Kept(s, Put(s, new, r, g), {})
  BY <1>3, <1>4, <1>5, <1>6, <1>7, PutGood
<1>9. /\ Good(t, qr, None, D) /\ Kept(s, t, {})
      /\ t.router[new] = r /\ t.table = s.table
  BY <1>6, <1>7, <1>8
<1> QED
  BY <1>9 DEF r, t

(* find_router().                                                          *)
LEMMA FindRouterGood ==
    ASSUME NEW s, NEW pr, NEW qr, NEW D, NEW k \in Sessions,
           NEW create \in BOOLEAN, NEW new \in Routers \cup {None},
           Good(s, pr, None, D), new # None => s.router[new].life = "none",
           Forks(pr, qr, new),
           new = None \/ FindRouter(s, k, create, new).p = new
    PROVE  LET f == FindRouter(s, k, create, new)
           IN /\ Good(f.s, qr, None, D) /\ Kept(s, f.s, {})
              /\ f.p \in Routers \cup {None}
              /\ f.p # None => f.s.router[f.p].life \in {"run", "status"}
<1> DEFINE known == IF k \in Dead(s) THEN Erase(s, {k}) ELSE s
           counted == Erase(known, Dead(known))
           u == PutRouter(counted, new, NewRouter)
           made == Enter(u, k, new)
           f == FindRouter(s, k, create, new)
<1>1. /\ s \in State
      /\ \A j \in Sessions : s.table[j] \in Routers \cup {None}
  BY StateFacts DEF Good, Base
<1>2. /\ Good(known, pr, None, D) /\ Kept(s, known, {})
      /\ \A j \in Sessions : known.table[j] # None =>
            known.table[j] = s.table[j] /\ (j = k => j \notin Dead(s))
      /\ k \notin Dead(s) => known = s
      /\ new # None => known.router[new].life = "none"
  <2>1. CASE k \in Dead(s)
    <3> DEFINE z == Erase(s, {k})
    <3>1. s.table[k] # None /\ s.router[s.table[k]].life = "dead"
      BY <2>1 DEF Dead, InTable
    <3>2. /\ Swept(s, z)
          /\ \A j \in Sessions :
               z.table[j] = IF j \in {k} THEN None ELSE s.table[j]
      BY <1>1, <3>1, EraseSwept
    <3> HIDE DEF z
    <3>3. Good(z, pr, None, D) /\ Kept(s, z, {})
      BY <3>2, SweptGood
    <3>4. new # None => z.router[new].life = "none"
      BY <3>2 DEF Swept
    <3> QED
      BY <2>1, <3>2, <3>3, <3>4 DEF z
  <2>2. CASE k \notin Dead(s)
    BY <2>2 DEF Kept
  <2> QED
    BY <2>1, <2>2
<1> HIDE DEF known
<1>3. /\ Good(counted, pr, None, D) /\ Kept(s, counted, {})
      /\ known.table[k] = None => counted.table[k] = None
      /\ new # None => counted.router[new].life = "none"
  <2>1. known \in State
    BY <1>2 DEF Good, Base
  <2>2. /\ Dead(known) \in SUBSET Sessions
        /\ \A j \in Dead(known) : known.table[j] # None
                                  /\ known.router[known.table[j]].life = "dead"
    BY DEF Dead, InTable
  <2>3. /\ Swept(known, counted)
        /\ \A j \in Sessions : counted.table[j] =
             IF j \in Dead(known) THEN None ELSE known.table[j]
    BY <2>1, <2>2, EraseSwept
  <2> HIDE DEF counted
  <2>4. Good(counted, pr, None, D) /\ Kept(known, counted, {})
    <3>1. Good(known, pr, None, D)
      BY <1>2
    <3> QED
      BY <2>3, <3>1, SweptGood
  <2>5. Kept(s, counted, {})
    BY <1>2, <2>4, KeptTrans
  <2>6. new # None => counted.router[new].life = "none"
    BY <1>2, <2>3 DEF Swept
  <2> QED
    BY <2>3, <2>4, <2>5, <2>6
<1>4. [counted EXCEPT !.table[k] = new, !.timer = TRUE,
                      !.router[new] = NewRouter] = made
  <2>1. counted \in State
    BY <1>3 DEF Good, Base
  <2> HIDE DEF counted
  <2> QED
    BY <2>1 DEF State, PutRouter, Enter
<1>5. \/ k \in InTable(known) /\ f = [s |-> known, p |-> known.table[k]]
      \/ f = [s |-> known, p |-> None]
      \/ f = [s |-> counted, p |-> None]
      \/ /\ k \notin InTable(known) /\ new # None
         /\ f = [s |-> made, p |-> new]
  <2> DEFINE active == {j \in InTable(counted) :
                          counted.router[counted.table[j]].life = "run"}
             full == \/ Cardinality(InTable(counted)) >= ConnectLimit
                     \/ Cardinality(active) >= ActiveLimit
             g == [counted EXCEPT !.table[k] = new, !.timer = TRUE,
                                  !.router[new] = NewRouter]
  <2>1. f = CASE k \in InTable(known) ->
                   [s |-> known, p |-> known.table[k]]
              [] k \notin InTable(known) /\ ~create ->
                   [s |-> known, p |-> None]
              [] k \notin InTable(known) /\ create /\ (full \/ new = None) ->
                   [s |-> counted, p |-> None]
              [] OTHER -> [s |-> g, p |-> new]
    BY DEF FindRouter, known, NewRouter
  <2> HIDE DEF full, g, counted, f
  <2>2. \/ k \in InTable(known) /\ f = [s |-> known, p |-> known.table[k]]
        \/ f = [s |-> known, p |-> None]
        \/ f = [s |-> counted, p |-> None]
        \/ /\ k \notin InTable(known) /\ new # None
           /\ f = [s |-> g, p |-> new]
    BY <2>1
  <2> QED
    BY <1>4, <2>2 DEF g, counted, f
<1> HIDE DEF counted, f
<1>6. CASE k \in InTable(known) /\ f = [s |-> known, p |-> known.table[k]]
  <2> DEFINE p == known.table[k]
  <2>1. /\ p # None /\ p = s.table[k] /\ k \notin Dead(s) /\ known = s
        /\ p \in Routers
    BY <1>1, <1>2, <1>6 DEF InTable
  <2>2. s.router[p].life # "dead" /\ Alive(s.router[p])
    BY <2>1 DEF Dead, InTable, Good, Base, TableInv
  <2>3. new = None
    BY <1>6, <2>1, <2>2 DEF Alive, f
  <2> QED
    BY <1>2, <1>6, <2>1, <2>2, <2>3 DEF f, Alive, Forks
<1>7. CASE f = [s |-> known, p |-> None]
  BY <1>2, <1>7 DEF f, Forks
<1>8. CASE f = [s |-> counted, p |-> None]
  BY <1>3, <1>8 DEF f, Forks
<1>9. CASE k \notin InTable(known) /\ new # None
           /\ f = [s |-> made, p |-> new]
  <2>1. new \in Routers /\ counted.router[new].life = "none"
    BY <1>3, <1>9
  <2>2. /\ Good(u, qr, None, D) /\ Kept(counted, u, {})
        /\ u.router[new] = NewRouter /\ u.table = counted.table
    <3>1. Good(counted, pr, None, D)
      BY <1>3
    <3> QED
      BY <2>1, <3>1, ForkGood
  <2> HIDE DEF u
  <2>3. Alive(u.router[new]) /\ u.router[new].life = "run"
    BY <2>2, NewRouterFacts DEF Alive
  <2>4. Out(u, new)
    <3> SUFFICES ASSUME NEW j \in Sessions
                 PROVE  u.table[j] # new
      BY DEF Out
    <3>1. counted.table[j] # None => Alive(counted.router[counted.table[j]])
      BY <1>3 DEF Good, Base, TableInv
    <3> QED
      BY <1>9, <2>1, <2>2, <3>1 DEF Alive
  <2>5. /\ Good(made, qr, None, D) /\ Kept(u, made, {})
        /\ made.router = u.router
    <3>1. Good(u, qr, None, D) /\ Alive(u.router[new]) /\ new \in Routers
      BY <2>1, <2>2, <2>3
    <3> QED
      BY <2>4, <3>1, TableGood
  <2> HIDE DEF made
  <2>6. Kept(s, made, {})
    <3>1. Kept(s, u, {})
      BY <1>3, <2>2, KeptTrans
    <3> QED
      BY <2>5, <3>1, KeptTrans
  <2> QED
    BY <1>9, <2>1, <2>3, <2>5, <2>6 DEF f
<1> QED
  BY <1>5, <1>6, <1>7, <1>8, <1>9

-----------------------------------------------------------------------------
(* The timer.                                                              *)

(* handle_timeout() of one router.                                         *)
LEMMA ExpireGood ==
    ASSUME NEW s, NEW pr, NEW p \in Routers, Good(s, pr, None, {}),
           Alive(s.router[p])
    PROVE  LET t == Expire(s, p)
           IN /\ Good(t, pr, None, {}) /\ Kept(s, t, Clients)
              /\ Calm(s, t, p)
<1> DEFINE r == [s.router[p] EXCEPT !.life = "dead"]
           g == s.given[p]
           q == s.router[p].recvqueue
           sock == s.router[p].sock
           made == pr[p].made
           out == pr[p].out
           u == PutRouter(s, p, r)
           v == Close(s, p)
           t == Expire(s, p)
<1>1. /\ s \in State /\ pr \in Processes /\ s.router[p] \in RouterType
      /\ s.router[p].life \in {"run", "status", "dead"}
  BY StateFacts DEF Good, Base, Alive
<1>2. CASE s.router[p].life = "run"
  <2>1. t = v
    BY <1>2 DEF Expire
  <2>2. Good(v, pr, None, {}) /\ Tells(s, v, p)
    <3>1. Reads(pr, pr, p)
      BY DEF Reads
    <3> QED
      BY <1>1, <3>1, CloseGood
  <2> HIDE DEF v
  <2> QED
    BY <2>1, <2>2 DEF Tells, Kept
<1>3. CASE s.router[p].life = "status"
  <2>1. t = u
    BY <1>3 DEF Expire, PutRouter
  <2>2. /\ r \in RouterType /\ r.life = "dead" /\ r.sock = sock
        /\ r.recvqueue = q /\ r.poll = s.router[p].poll
    BY <1>1 DEF RouterType
  <2> HIDE DEF r
  <2>3. Fits(s, pr, None, {}, p, r, g)
    <3>1. Hears(r, s.client)
      <4>1. Heard(s, p)
        BY NoneFacts DEF Good
      <4> QED
        BY <1>3, <2>2, <4>1 DEF Heard, Hears, Waiting
    <3>2. Stream(g, q, sock, "dead", made, out)
      <4>1. Stream(g, q, sock, s.router[p].life, made, out)
        BY DEF Good, Base, StreamOf
      <4> HIDE DEF g, q, sock, made, out
      <4> QED
        BY <4>1, StreamLife
    <3>3. /\ s.router[p].poll # None =>
                s.client[s.router[p].poll].longpoll = p
          /\ \A c \in Clients :
                s.client[c].owed = 1 /\ s.client[c].longpoll = p =>
                   s.router[p].poll = c
      BY DEF Good, Linked, Told
    <3> QED
      BY <2>2, <3>1, <3>2, <3>3 DEF Fits, Alive
  <2>4. Moves(s, pr, pr, None, None, {}, {}, p, r) /\ Polls(s, p, r)
    BY <2>2 DEF Moves, Polls
  <2>5. Good(u, pr, None, {}) /\ Calm(s, u, p) /\ Kept(s, u, {})
    BY <2>2, <2>3, <2>4, PutRouterGood
  <2> HIDE DEF u
  <2> QED
    BY <2>1, <2>5 DEF Kept
<1>4. CASE s.router[p].life = "dead"
  <2>1. t = s
    BY <1>4 DEF Expire
  <2> QED
    BY <2>1 DEF Kept, Calm
<1> QED
  BY <1>1, <1>2, <1>3, <1>4

(* The main loop is another matter.                                        *)
LEMMA LoopGood ==
    ASSUME NEW s, NEW pr, NEW x, NEW D, Good(s, pr, x, D),
           NEW l \in {"runs", "quit", "undefined"}
    PROVE  LET t == [s EXCEPT !.loop = l]
           IN /\ Good(t, pr, x, D) /\ t \in State /\ t.loop = l
              /\ t.table = s.table /\ t.router = s.router
<1> DEFINE t == [s EXCEPT !.loop = l]
<1>1. s \in State
  BY DEF Good, Base
<1>2. /\ t \in State /\ t.loop = l
      /\ t.table = s.table /\ t.router = s.router
      /\ t.client = s.client /\ t.given = s.given
  BY <1>1 DEF State
<1> HIDE DEF t
<1>3. Base(t, pr)
  BY <1>2 DEF Good, Base, TableInv, LifeInv, StreamOf
<1>4. Good(t, pr, x, D)
  BY <1>2, <1>3 DEF Good, Linked, Heard, Told
<1> QED
  BY <1>2, <1>4 DEF t

(* One turn of the loop.  It is at no end of an object as long as no dead  *)
(* router is at a later entry of the table.                                *)
Clear(s, k) ==
    /\ s.loop # "undefined"
    /\ \A j \in Sessions : j > k /\ s.table[j] # None =>
                              s.router[s.table[j]].life # "dead"

(* A turn keeps the invariant, and kills no later router.                  *)
LEMMA TimeoutTurnGood ==
    ASSUME NEW s, NEW pr, NEW k \in Sessions, NEW expired,
           Good(s, pr, None, {})
    PROVE  LET t == TimeoutTurn(s, k, expired)
           IN /\ Good(t, pr, None, {})
              /\ Clear(s, k - 1) => Clear(t, k)
<1> DEFINE p == s.table[k]
           later == {j \in InTable(s) : j > k}
           next == CHOOSE j \in later : \A i \in later : j <= i
           t == IF k \in expired THEN Expire(s, p) ELSE s
           u == [t EXCEPT !.loop = "undefined"]
           v == TimeoutTurn(s, k, expired)
<1>1. /\ s \in State /\ k \in Nat /\ Sessions \subseteq Nat
      /\ \A j \in Sessions : j > k => j > k - 1
      /\ \A j \in Sessions : s.table[j] \in Routers \cup {None}
  BY StateFacts DEF Good, Base, Sessions
<1>2. CASE s.loop # "runs" \/ s.table[k] = None
  <2>1. v = s
    BY <1>2 DEF TimeoutTurn
  <2>2. Clear(s, k - 1) => Clear(s, k)
    BY <1>1 DEF Clear
  <2> QED
    BY <2>1, <2>2
<1>3. CASE s.loop = "runs" /\ s.table[k] # None
  <2>1. v = IF later # {} /\ t.table[next] = None THEN u ELSE t
    BY <1>3 DEF TimeoutTurn, TimeoutStep
  <2>2. p \in Routers /\ Alive(s.router[p])
    BY <1>1, <1>3 DEF Good, Base, TableInv
  <2>3. Good(t, pr, None, {}) /\ Kept(s, t, Clients) /\ Calm(s, t, p)
    <3>1. CASE k \in expired
      <4> DEFINE e == Expire(s, p)
      <4>1. Good(e, pr, None, {}) /\ Kept(s, e, Clients) /\ Calm(s, e, p)
        BY <2>2, ExpireGood
      <4> HIDE DEF e
      <4> QED
        BY <3>1, <4>1 DEF e
    <3>2. CASE k \notin expired
      BY <3>2 DEF Kept, Calm
    <3> QED
      BY <3>1, <3>2
  <2>4. later # {} => next \in later
    <3>1. later \in SUBSET Nat
      BY <1>1 DEF InTable
    <3> HIDE DEF later
    <3> QED
      BY <3>1, Least
  <2> HIDE DEF t, next
  <2>5. Good(u, pr, None, {})
    BY <2>3, LoopGood
  <2> HIDE DEF u
  <2>6. ASSUME Clear(s, k - 1), NEW j \in Sessions, j > k,
               s.table[j] # None
        PROVE  /\ t.table[j] = s.table[j]
               /\ t.router[s.table[j]].life # "dead"
    <3>1. /\ s.table[j] \in Routers \ {p}
          /\ s.router[s.table[j]].life # "dead"
      BY <1>1, <1>3, <2>6 DEF Clear, Good, Base, TableInv
    <3>2. t.table[j] = s.table[j]
      BY <2>3, <3>1 DEF Calm
    <3>3. t.router[s.table[j]] = s.router[s.table[j]]
      BY <2>3, <3>1 DEF Calm
    <3> QED
      BY <3>1, <3>2, <3>3
  <2>7. ASSUME Clear(s, k - 1)
        PROVE  Clear(t, k) /\ v = t
    <3>1. t.loop # "undefined"
      BY <2>3, <2>7 DEF Kept, Clear
    <3>2. ASSUME NEW j \in Sessions, j > k, t.table[j] # None
          PROVE  t.router[t.table[j]].life # "dead"
      <4>1. s.table[j] # None
        BY <2>3, <3>2 DEF Calm
      <4> QED
        BY <2>6, <2>7, <3>2, <4>1
    <3>3. later # {} => t.table[next] # None
      <4> SUFFICES ASSUME later # {} PROVE t.table[next] # None
        OBVIOUS
      <4>1. next \in Sessions /\ next > k /\ s.table[next] # None
        BY <2>4 DEF InTable
      <4> QED
        BY <2>6, <2>7, <4>1
    <3> HIDE DEF later, v
    <3> QED
      BY <2>1, <3>1, <3>2, <3>3 DEF Clear
  <2> HIDE DEF v
  <2>8. Good(v, pr, None, {})
    BY <2>1, <2>3, <2>5
  <2>9. Clear(s, k - 1) => Clear(v, k)
    BY <2>7
  <2> QED
    BY <2>8, <2>9 DEF v
<1> QED
  BY <1>2, <1>3

(* The loop begins, and makes its turns.                                   *)
LEMMA ExpiringTurns ==
    ASSUME NEW s, NEW expired
    PROVE  /\ Expiring(s, expired)[0] = s
           /\ \A k \in Sessions :
                 Expiring(s, expired)[k] =
                    TimeoutTurn(Expiring(s, expired)[k - 1], k, expired)
<1> DEFINE n == NSessions
           Is(f, m) == f = [i \in 0..m |-> IF i = 0 THEN s
                                    ELSE TimeoutTurn(f[i - 1], i, expired)]
           Missing == {m \in Nat : ~ \E f : Is(f, m)}
<1>0. n \in Nat /\ Sessions = 1..n
  BY SockAssumption DEF Sessions
<1>1. Missing = {}
  <2> SUFFICES ASSUME Missing # {} PROVE FALSE
    OBVIOUS
  <2>1. PICK m \in Missing : \A k \in Missing : m <= k
    <3> HIDE DEF Missing
    <3>1. Missing \in SUBSET Nat
      BY DEF Missing
    <3> QED
      BY <3>1, Least
  <2>2. CASE m = 0
    <3>1. Is([i \in {0} |-> s], 0)
      <4>1. 0..0 = {0}
        OBVIOUS
      <4> QED
        BY <4>1
    <3> HIDE DEF Is
    <3> QED
      BY <2>2, <3>1
  <2>3. CASE m # 0
    <3>1. m - 1 \in Nat /\ m - 1 \notin Missing
      <4> HIDE DEF Is
      <4> QED
        BY <2>1, <2>3
    <3>2. PICK f : Is(f, m - 1)
      <4> HIDE DEF Is
      <4> QED
        BY <3>1
    <3> DEFINE g == [i \in 0..m |->
                       IF i = m THEN TimeoutTurn(f[m - 1], m, expired)
                       ELSE f[i]]
               h == [i \in 0..m |-> IF i = 0 THEN s
                                    ELSE TimeoutTurn(g[i - 1], i, expired)]
    <3>3. \A i \in 0..(m-1) : f[i] = IF i = 0 THEN s
                                    ELSE TimeoutTurn(f[i - 1], i, expired)
      BY <3>2
    <3>4. ASSUME NEW i \in 0..m
          PROVE  g[i] = h[i]
      <4>1. CASE i = m
        <5>1. g[i] = TimeoutTurn(f[m - 1], m, expired) /\ g[m - 1] = f[m - 1]
          BY <2>3, <4>1
        <5> QED
          BY <2>3, <4>1, <5>1
      <4>2. CASE i # m
        <5>1. /\ g[i] = f[i] /\ (i # 0 => g[i - 1] = f[i - 1])
              /\ i \in 0..(m - 1)
          BY <4>2
        <5> HIDE DEF g
        <5> QED
          BY <5>1, <3>3
      <4> QED
        BY <4>1, <4>2
    <3>5. /\ g = [i \in DOMAIN g |-> g[i]] /\ DOMAIN g = 0..m
          /\ h = [i \in DOMAIN h |-> h[i]] /\ DOMAIN h = 0..m
      OBVIOUS
    <3> HIDE DEF g, h
    <3>6. g = h
      BY <3>4, <3>5
    <3>7. Is(g, m)
      BY <3>6 DEF h
    <3> HIDE DEF Is
    <3> QED
      BY <3>7
  <2> QED
    BY <2>2, <2>3
<1>2. \E f : Is(f, n)
  BY <1>0, <1>1
<1>3. Expiring(s, expired) = CHOOSE f : Is(f, n)
  BY DEF Expiring
<1>4. Is(Expiring(s, expired), n)
  <2> HIDE DEF Is
  <2> QED
   BY <1>2, <1>3
<1> QED
  BY <1>0, <1>4

(* So do all turns.                                                        *)
LEMMA ExpiringGood ==
    ASSUME NEW s, NEW pr, NEW expired, Good(s, pr, None, {})
    PROVE  LET t == Expiring(s, expired)[NSessions]
           IN /\ Good(t, pr, None, {})
              /\ Clear(s, 0) => Clear(t, NSessions)
<1> DEFINE n == NSessions
           f == Expiring(s, expired)
           Is(k) == /\ Good(f[k], pr, None, {})
                    /\ Clear(s, 0) => Clear(f[k], k)
           Bad == {k \in 0..n : ~Is(k)}
<1>1. n \in Nat /\ Sessions = 1..n
  BY SockAssumption DEF Sessions
<1>2. Is(0)
  <2>1. f[0] = s
    BY ExpiringTurns
  <2> QED
    BY <2>1
<1>3. ASSUME NEW k \in Sessions, Is(k - 1)
      PROVE  Is(k)
  <2>1. f[k] = TimeoutTurn(f[k - 1], k, expired)
    BY ExpiringTurns
  <2> DEFINE u == f[k - 1]
             t == TimeoutTurn(u, k, expired)
  <2>2. Good(u, pr, None, {}) /\ (Clear(s, 0) => Clear(u, k - 1))
    BY <1>3
  <2> HIDE DEF u
  <2>3. Good(t, pr, None, {}) /\ (Clear(u, k - 1) => Clear(t, k))
    BY <2>2, TimeoutTurnGood
  <2> QED
    BY <2>1, <2>2, <2>3 DEF u
<1> HIDE DEF f, Is
<1>4. Bad = {}
  <2> SUFFICES ASSUME Bad # {} PROVE FALSE
    OBVIOUS
  <2>1. PICK k \in Bad : \A j \in Bad : k <= j
    <3>1. Bad \in SUBSET Nat
      BY <1>1
    <3> HIDE DEF Bad
    <3> QED
      BY <3>1, Least
  <2>2. k # 0 /\ k \in 0..n
    BY <1>2, <2>1
  <2>3. k - 1 \in 0..n /\ k - 1 \notin Bad /\ k \in Sessions
    BY <1>1, <2>1, <2>2
  <2>4. Is(k - 1)
    BY <2>3
  <2> QED
    BY <1>3, <2>1, <2>3, <2>4
<1>5. Is(n)
  BY <1>1, <1>4
<1> QED
  BY <1>5 DEF Is, f


-----------------------------------------------------------------------------
(* The actions.                                                            *)

(* The fields of the state the handlers begin with.                        *)
LEMMA NowFacts ==
    /\ Now.table = table /\ Now.router = router /\ Now.client = client
    /\ Now.given = given /\ Now.timer = timer /\ Now.loop = loop
BY DEF Now

(* The state a handler ends with.                                          *)
LEMMA BecomesNow ==
    ASSUME NEW s \in State, Becomes(s)
    PROVE  Now' = s
BY DEF State, Becomes, Now

(* The invariant of the next state.                                        *)
LEMMA NextInv ==
    ASSUME Good(Now', process', None, {})
    PROVE  IInv'
BY DEF IInv

(* What has a socket or a process is alive.                                *)
LEMMA InvFacts ==
    ASSUME IInv
    PROVE  /\ Good(Now, process, None, {}) /\ Now \in State
           /\ process \in Processes
           /\ \A p \in Routers :
                 /\ router[p] \in RouterType /\ process[p] \in ProcessType
                 /\ router[p].life = "none" => process[p] = NoProcess
                 /\ router[p].sock \/ router[p].pid => Alive(router[p])
<1>1. /\ Good(Now, process, None, {}) /\ Now \in State
      /\ process \in Processes
  BY DEF IInv, Good, Base
<1>2. ASSUME NEW p \in Routers
      PROVE  /\ router[p] \in RouterType /\ process[p] \in ProcessType
             /\ router[p].life = "none" => router[p] = NoRouter
                                           /\ process[p] = NoProcess
             /\ router[p].life = "gone" => router[p] = Gone
  BY <1>1, NowFacts, StateFacts DEF Good, Base, LifeInv, Processes
<1>3. /\ ~NoRouter.sock /\ ~NoRouter.pid /\ ~Gone.sock /\ ~Gone.pid
  BY NoRouterFacts
<1>4. ASSUME NEW p \in Routers, router[p].sock \/ router[p].pid
      PROVE  Alive(router[p])
  <2>1. router[p].life \notin {"none", "gone"}
    BY <1>2, <1>3, <1>4
  <2>2. router[p].life \in {"none", "run", "status", "dead", "gone"}
    BY <1>2, RouterFacts
  <2> QED
    BY <2>1, <2>2 DEF Alive
<1> QED
  BY <1>1, <1>2, <1>4

(* A process does something.                                               *)
LEMMA ProcessGood ==
    ASSUME NEW s, NEW pr, NEW qr \in Processes, Good(s, pr, None, {}),
           \A p \in Routers : /\ StreamOf(s, qr, p)
                              /\ s.router[p].life = "none" => qr[p] = pr[p]
    PROVE  Good(s, qr, None, {})
<1>1. LifeInv(s, qr)
  BY DEF Good, Base, LifeInv
<1> QED
  BY <1>1 DEF Good, Base

(* A step keeps the invariant, and when it uses an object after its end,   *)
(* it is because the answer to the client that waited for a router has     *)
(* deleted the router.                                                     *)
Explained(p) ==
    /\ router[p].poll # None
    /\ router[p].life = "dead" => p \notin Range(table)
    /\ router'[p].life = "gone"
Sound == IInv' /\ (loop' = "undefined" => \E p \in Routers : Explained(p))

(* A handler that ends in state s.                                         *)
LEMMA BecomesSound ==
    ASSUME NEW s, Good(s, process', None, {}), NEW D, Kept(Now, s, D),
           Becomes(s), loop = "runs"
    PROVE  Sound
<1>1. s \in State
  BY DEF Good, Base
<1>2. Now' = s /\ loop' = s.loop
  BY <1>1, BecomesNow DEF Becomes
<1>3. loop' # "undefined"
  BY <1>2, NowFacts DEF Kept
<1>4. IInv'
  BY <1>2, NextInv
<1> QED
  BY <1>3, <1>4 DEF Sound

(* A handler of router p that ends in notify_longpoll().                   *)
LEMMA ReturnsSound ==
    ASSUME NEW s, NEW p \in Routers, Good(s, process', None, {}), IInv,
           Tells(Now, s, p), Alive(router[p]), Returns(s, p), loop = "runs"
    PROVE  Sound
<1>1. s \in State
  BY DEF Good, Base
<1>2. Kept(Now, s, {router[p].poll})
  BY NowFacts DEF Tells
<1>3. CASE Becomes(s)
  <2> DEFINE D == {router[p].poll}
  <2> HIDE DEF D
  <2>1. Kept(Now, s, D)
    BY <1>2 DEF D
  <2> QED
    BY <1>3, <2>1, BecomesSound
<1>4. CASE /\ s.router[p].life = "gone"
           /\ Becomes([s EXCEPT !.loop = "undefined"])
  <2> DEFINE t == [s EXCEPT !.loop = "undefined"]
  <2>1. Good(t, process', None, {}) /\ t \in State /\ t.router = s.router
    BY LoopGood
  <2> HIDE DEF t
  <2>2. Now' = t /\ router' = s.router
    BY <1>4, <2>1, BecomesNow DEF t, Becomes
  <2>3. IInv'
    BY <2>1, <2>2, NextInv
  <2>4. router'[p].life = "gone" /\ ~Alive(s.router[p])
    BY <1>4, <2>2 DEF Alive
  <2>5. router[p].poll # None
    BY <2>4, NowFacts DEF Tells
  <2>6. ASSUME router[p].life = "dead" PROVE p \notin Range(table)
    <3>1. \A k \in Sessions : table[k] # p
      BY <1>4, <2>6, NowFacts DEF Tells
    <3>2. table \in [Sessions -> Routers \cup {None}]
      BY InvFacts, NowFacts, StateFacts
    <3> QED
      BY <3>1, <3>2 DEF Range
  <2> QED
    BY <2>3, <2>4, <2>5, <2>6 DEF Sound, Explained
<1> QED
  BY <1>3, <1>4 DEF Returns

(* A client leaves the poll it has, and is owed nothing.                   *)
LEMMA ClientLeaves ==
    ASSUME IInv, loop = "runs", NEW c \in Clients, process' = process,
           NEW z \in ClientType, z.owed = 0,
           Becomes(PutClient(LeavePoll(Now, c), c, z))
    PROVE  Sound
<1> DEFINE left == LeavePoll(Now, c)
           t == PutClient(left, c, z)
<1>1. Good(Now, process, None, {})
  BY DEF IInv
<1>2. /\ Good(left, process, None, {c}) /\ Unpolled(left, c)
      /\ Kept(Now, left, {c})
  BY <1>1, LeavePollGood
<1> HIDE DEF left
<1>3. Good(t, process, None, {}) /\ Kept(left, t, {c})
  <2>1. c \in {} \/ z.owed = 0
    OBVIOUS
  <2>2. {c} \subseteq {} \cup {c}
    OBVIOUS
  <2> QED
    BY <1>2, <2>1, <2>2, PutClientGood
<1>4. Becomes(t)
  BY DEF left
<1> HIDE DEF t
<1>5. Kept(Now, t, {c})
  BY <1>2, <1>3, KeptTrans
<1> DEFINE D == {c}
<1> HIDE DEF D
<1>6. Kept(Now, t, D) /\ Good(t, process', None, {})
  BY <1>3, <1>5 DEF D
<1> QED
  BY <1>4, <1>6, BecomesSound

(* Client::close().                                                        *)
LEMMA ClientCloseSound ==
    ASSUME IInv, NEW c \in Clients, ClientClose(c)
    PROVE  Sound
<1> DEFINE z == [NewClient EXCEPT !.open = FALSE]
           left == LeavePoll(Now, c)
<1>1. z \in ClientType /\ z.owed = 0
  <2>1. NewClient \in ClientType
    BY DEF NewClient, ClientType
  <2>2. NewClient.owed = 0
    BY DEF NewClient
  <2> QED
    BY <2>1, <2>2 DEF ClientType
<1>2. Becomes(PutClient(left, c, z)) /\ loop = "runs" /\ process' = process
  BY DEF ClientClose, PutClient
<1> HIDE DEF z
<1> QED
  BY <1>1, <1>2, ClientLeaves

(* A request for the server.                                               *)
LEMMA AskServerSound ==
    ASSUME IInv, NEW c \in Clients, AskServer(c)
    PROVE  Sound
<1> DEFINE left == LeavePoll(Now, c)
           z == [left.client[c] EXCEPT !.log = "take", !.owed = 0]
<1>1. left \in State
  BY InvFacts, LeavePollGood DEF Good, Base
<1>2. Becomes([left EXCEPT !.client[c].log = "take",
                           !.client[c].owed = 0])
      /\ loop = "runs" /\ process' = process
  BY DEF AskServer, Asks
<1> HIDE DEF left
<1>3. left.client[c] \in ClientType /\ left.client \in [Clients -> ClientType]
  BY <1>1, StateFacts
<1>4. z \in ClientType /\ z.owed = 0
  <2>1. 0 \in 0..1
    OBVIOUS
  <2> DEFINE x == left.client[c]
  <2>2. x \in ClientType
    BY <1>3
  <2> HIDE DEF x
  <2>3. LET y == [x EXCEPT !.log = "take", !.owed = 0]
        IN y \in ClientType /\ y.owed = 0
    BY <2>1, <2>2 DEF ClientType
  <2> QED
    BY <2>3 DEF x
<1>5. [left EXCEPT !.client[c].log = "take", !.client[c].owed = 0]
         = PutClient(left, c, z)
  BY <1>1, <1>3 DEF PutClient, State
<1>6. Becomes(PutClient(left, c, z))
  BY <1>2, <1>5
<1> HIDE DEF z
<1> QED
  BY <1>2, <1>4, <1>6, ClientLeaves DEF left

(* A request for a session: all calls of Client::on_input() in turn.       *)
LEMMA AskSound ==
    ASSUME IInv, NEW c \in Clients, NEW k \in Sessions, NEW r \in Requests,
           NEW new \in Routers \cup {None},
           new # None => router[new].life = "none", Ask(c, k, r, new)
    PROVE  Sound
<1> DEFINE left == LeavePoll(Now, c)
           z == [left.client[c] EXCEPT !.log = r.log, !.owed = 1]
           owing == PutClient(left, c, z)
           create == r.mode \in {"poll", "noreply"}
           found == FindRouter(owing, k, create, new)
           t == IF found.p = None THEN Answer(found.s, c)
                ELSE Serve(found.s, c, found.p, r)
<1>1. /\ Good(left, process, None, {c}) /\ Unpolled(left, c)
      /\ Kept(Now, left, {c})
      /\ \A q \in Routers : router[q].life = "none" =>
                               left.router[q].life = "none"
  BY InvFacts, LeavePollGood, NowFacts
<1>2. /\ left \in State /\ left.client[c] \in ClientType
      /\ left.client \in [Clients -> ClientType]
  BY <1>1, StateFacts DEF Good, Base
<1>3. Becomes(t) /\ Forks(process, process', new) /\ loop = "runs"
      /\ (new = None \/ found.p = new)
  <2>1. [left EXCEPT !.client[c].log = r.log, !.client[c].owed = 1] = owing
    BY <1>2 DEF PutClient, State
  <2> HIDE DEF owing, left
  <2> QED
    BY <2>1 DEF Ask, Asks, Forks, left
<1>4. z \in ClientType /\ z.owed = 1
  <2>1. 1 \in 0..1 /\ r.log \in {"take", "keep", "drop"}
    BY DEF Requests
  <2> DEFINE x == left.client[c]
             l == r.log
  <2>2. x \in ClientType
    BY <1>2
  <2> HIDE DEF x, l
  <2>3. LET y == [x EXCEPT !.log = l, !.owed = 1]
        IN l \in {"take", "keep", "drop"} =>
             y \in ClientType /\ y.owed = 1
    BY <2>1, <2>2 DEF ClientType
  <2> QED
    BY <2>1, <2>3 DEF x, l
<1> HIDE DEF z
<1>5. /\ Good(owing, process, None, {c}) /\ Unpolled(owing, c)
      /\ Kept(left, owing, {c}) /\ owing.client[c] = z
      /\ owing.router = left.router
  <2> HIDE DEF left
  <2> QED
    BY <1>1, <1>4, TurnGood
<1>6. Kept(Now, owing, {c})
  BY <1>1, <1>5, KeptTrans
<1> HIDE DEF owing, left
<1>7. /\ Good(found.s, process', None, {c}) /\ Kept(owing, found.s, {})
      /\ found.p \in Routers \cup {None}
      /\ found.p # None =>
            found.s.router[found.p].life \in {"run", "status"}
  <2>1. /\ create \in BOOLEAN /\ Good(owing, process, None, {c})
        /\ (new # None => owing.router[new].life = "none")
        /\ Forks(process, process', new)
        /\ (new = None \/ found.p = new)
    BY <1>1, <1>3, <1>5
  <2> HIDE DEF create
  <2> QED
    BY <2>1, FindRouterGood
<1> HIDE DEF found
<1> DEFINE s == found.s
           p == found.p
<1>8. Unpolled(s, c) /\ s.client[c].owed = 1 /\ Kept(Now, s, {c})
  <2>1. Unpolled(s, c) /\ s.client[c] = owing.client[c]
    BY <1>5, <1>7 DEF Kept
  <2>2. Kept(Now, s, {c})
    BY <1>6, <1>7, KeptTrans
  <2> QED
    BY <1>4, <1>5, <2>1, <2>2
<1>9. Good(t, process', None, {}) /\ Kept(s, t, Clients)
  <2>1. CASE p = None
    <3>1. /\ Good(Answer(s, c), process', None, {})
          /\ Kept(s, Answer(s, c), Clients)
      <4> HIDE DEF s
      <4> QED
        BY <1>7, <1>8, AnswerGood DEF s
    <3> QED
      BY <2>1, <3>1
  <2>2. CASE p # None
    <3>1. /\ p \in Routers /\ s.router[p].life \in {"run", "status"}
          /\ Good(s, process', None, {c}) /\ Unpolled(s, c)
          /\ s.client[c].owed = 1
      BY <1>7, <1>8, <2>2
    <3> DEFINE u == Serve(s, c, p, r)
    <3>2. t = u
      BY <2>2
    <3> HIDE DEF s, p
    <3>3. Good(u, process', None, {}) /\ Kept(s, u, Clients)
      BY <3>1, ServeGood
    <3> QED
      BY <3>2, <3>3
  <2> QED
    BY <2>1, <2>2
<1> HIDE DEF t, s
<1>10. Kept(Now, t, Clients)
  <2>1. Kept(Now, s, Clients)
    BY <1>8, KeptAll
  <2> QED
    BY <1>9, <2>1, KeptTrans
<1> QED
  BY <1>3, <1>9, <1>10, BecomesSound

(* A handler that closes router p.                                         *)
LEMMA CloseSound ==
    ASSUME IInv, NEW p \in Routers, Alive(router[p]), loop = "runs",
           process' \in Processes, Reads(process, process', p),
           Returns(Close(Now, p), p)
    PROVE  Sound
<1> DEFINE t == Close(Now, p)
<1>1. Good(t, process', None, {}) /\ Tells(Now, t, p)
  BY InvFacts, NowFacts, CloseGood
<1>2. Returns(t, p)
  OBVIOUS
<1> HIDE DEF t
<1> QED
  BY <1>1, <1>2, ReturnsSound

(* Router::on_output().                                                    *)
LEMMA RouterOutputSound ==
    ASSUME IInv, NEW p \in Routers, RouterOutput(p)
    PROVE  Sound
<1>1. /\ loop = "runs" /\ Alive(router[p]) /\ router[p] \in RouterType
      /\ router[p].sendqueue > 0 /\ process' = process
      /\ process \in Processes
  BY InvFacts DEF RouterOutput, CanSend
<1>2. CASE Becomes([Now EXCEPT !.router[p].sendqueue = @ - 1])
  <2> DEFINE r == [router[p] EXCEPT !.sendqueue = router[p].sendqueue - 1]
             t == PutRouter(Now, p, r)
  <2>1. /\ r \in RouterType /\ r.life = router[p].life
        /\ r.poll = router[p].poll /\ r.recvqueue = router[p].recvqueue
        /\ r.sock = router[p].sock
    BY <1>1 DEF RouterType
  <2>2. Becomes(t)
    BY <1>2, NowFacts DEF PutRouter
  <2> HIDE DEF r
  <2>3. Follows(Now, process, process', p, r)
    <3>1. StreamOf(Now, process, p)
      BY InvFacts DEF Good, Base
    <3> QED
      BY <1>1, <2>1, <3>1, NowFacts DEF Follows, StreamOf
  <2>4. Good(t, process', None, {}) /\ Kept(Now, t, {})
    BY <1>1, <2>1, <2>3, InvFacts, FollowGood
  <2> HIDE DEF t
  <2> QED
    BY <1>1, <2>2, <2>4, BecomesSound
<1>3. CASE Returns(Close(Now, p), p)
  <2>1. Reads(process, process', p)
    BY <1>1 DEF Reads
  <2> QED
    BY <1>1, <1>3, <2>1, CloseSound
<1> QED
  BY <1>2, <1>3 DEF RouterOutput

(* The socket of a process is read.                                        *)
LEMMA TailReads ==
    ASSUME NEW pr \in Processes, NEW p \in Routers, pr[p].out # <<>>,
           NEW qr, qr = [pr EXCEPT ![p].out = Tail(@)]
    PROVE  qr \in Processes /\ Reads(pr, qr, p)
           /\ qr[p].made = pr[p].made /\ qr[p].out = Tail(pr[p].out)
<1> DEFINE out == pr[p].out
           x == [pr[p] EXCEPT !.out = Tail(out)]
<1>1. pr[p] \in ProcessType
  BY DEF Processes
<1>2. out \in Seq(Made) /\ Tail(out) \in Seq(Made)
  BY <1>1, HeadTailProperties DEF ProcessType
<1>3. qr = [pr EXCEPT ![p] = x]
  OBVIOUS
<1> DEFINE y == Tail(out)
<1>4. y \in Seq(Made)
  BY <1>2
<1> HIDE DEF y
<1>5. LET z == [pr[p] EXCEPT !.out = y]
      IN z \in ProcessType /\ z.made = pr[p].made /\ z.out = y
  BY <1>1, <1>4 DEF ProcessType
<1>6. x \in ProcessType /\ x.made = pr[p].made /\ x.out = Tail(out)
  BY <1>5 DEF y
<1> HIDE DEF x
<1>7. qr \in Processes /\ qr[p] = x /\ \A q \in Routers \ {p} : qr[q] = pr[q]
  BY <1>3, <1>6 DEF Processes
<1> QED
  BY <1>6, <1>7 DEF Reads

(* Router::on_input(), a message.                                          *)
LEMMA RouterMessageSound ==
    ASSUME IInv, NEW p \in Routers, RouterMessage(p)
    PROVE  Sound
<1> DEFINE out == process[p].out
           m == Head(out)
           q == router[p].recvqueue
           a == Append(q, m)
<1>1. /\ loop = "runs" /\ Alive(router[p]) /\ router[p] \in RouterType
      /\ router[p].sock = TRUE /\ out # <<>> /\ process \in Processes
      /\ process[p] \in ProcessType
      /\ process' = [process EXCEPT ![p].out = Tail(@)]
  BY InvFacts, RouterFacts DEF RouterMessage, HasInput
<1>2. /\ process' \in Processes /\ Reads(process, process', p)
      /\ process'[p].made = process[p].made /\ process'[p].out = Tail(out)
  BY <1>1, TailReads
<1>3. CASE Returns(Notify([Now EXCEPT !.router[p].recvqueue =
                                        Append(@, m)], p), p)
  <2>1. q \in Seq(Messages) /\ out \in Seq(Made)
    BY <1>1, RouterFacts DEF ProcessType
  <2>2. m \in Messages
    BY <1>1, <2>1, HeadTailProperties, TerminateFacts
  <2>3. a \in Seq(Messages) /\ a # <<>>
    <3> HIDE DEF q, m
    <3> QED
      BY <2>1, <2>2, AppendFacts
  <2> DEFINE r == [router[p] EXCEPT !.recvqueue = a]
             t == Notify(PutRouter(Now, p, r), p)
  <2>4. Returns(t, p)
    BY <1>3, NowFacts DEF PutRouter
  <2>5. Stream(given[p], a, TRUE, router[p].life, process'[p].made,
               process'[p].out)
    <3>1. StreamOf(Now, process, p) /\ given[p] \in Seq(Messages)
      BY InvFacts, NowFacts, StateFacts DEF Good, Base
    <3>2. Stream(given[p], q, TRUE, router[p].life, process[p].made, out)
      BY <1>1, <3>1, NowFacts DEF StreamOf
    <3>3. process[p].made \in Seq(Made)
      BY <1>1 DEF ProcessType
    <3> QED
      BY <1>1, <1>2, <2>1, <3>1, <3>2, <3>3, StreamReads
  <2> HIDE DEF a
  <2>6. /\ r \in RouterType /\ r.life = router[p].life
        /\ r.poll = router[p].poll /\ r.recvqueue = a
        /\ r.sock = TRUE
    BY <1>1, <2>3 DEF RouterType
  <2> HIDE DEF r
  <2>7. Alters(Now, process, process', p, r)
    <3>1. Alive(r)
      BY <1>1, <2>6 DEF Alive
    <3> QED
      BY <1>1, <1>2, <2>3, <2>5, <2>6, <3>1, NowFacts DEF Alters, Reads
  <2>8. Good(t, process', None, {}) /\ Tells(Now, t, p)
    BY <1>2, <2>6, <2>7, InvFacts, TellGood
  <2> HIDE DEF t
  <2> QED
    BY <1>1, <2>4, <2>8, ReturnsSound
<1>4. CASE Returns(Close(Now, p), p)
  BY <1>1, <1>2, <1>4, CloseSound
<1> QED
  BY <1>3, <1>4 DEF RouterMessage

(* Router::on_input(), the end of file.                                    *)
LEMMA RouterEofSound ==
    ASSUME IInv, NEW p \in Routers, RouterEof(p)
    PROVE  Sound
<1>1. /\ loop = "runs" /\ Alive(router[p]) /\ process' = process
      /\ process \in Processes /\ Returns(Close(Now, p), p)
  BY InvFacts DEF RouterEof, AtEof
<1>2. Reads(process, process', p)
  BY <1>1 DEF Reads
<1> QED
  BY <1>1, <1>2, CloseSound

(* A process changes its state; what it wrote stays.                       *)
Ends == {"zombie", "reaped"}
MovesTo(pr, p, to) == [pr EXCEPT ![p].state = to]

(* A process ends or is waited for: what it wrote stays.                   *)
LEMMA StateMoves ==
    ASSUME NEW pr \in Processes, NEW p \in Routers, NEW to \in Ends
    PROVE  LET qr == MovesTo(pr, p, to)
           IN /\ qr \in Processes /\ qr[p].made = pr[p].made
              /\ qr[p].out = pr[p].out
              /\ \A q \in Routers \ {p} : qr[q] = pr[q]
<1> DEFINE x == [pr[p] EXCEPT !.state = to]
           qr == MovesTo(pr, p, to)
<1>1. pr[p] \in ProcessType /\ qr = [pr EXCEPT ![p] = x]
  BY DEF Processes, MovesTo
<1>2. x \in ProcessType /\ x.made = pr[p].made /\ x.out = pr[p].out
  BY <1>1 DEF ProcessType, Ends
<1> HIDE DEF x, qr
<1>3. /\ qr \in Processes /\ qr[p] = x
      /\ \A q \in Routers \ {p} : qr[q] = pr[q]
  BY <1>1, <1>2 DEF Processes
<1> QED
  BY <1>2, <1>3 DEF qr

(* A step that is not the server's.                                        *)
LEMMA ProcessSound ==
    ASSUME IInv, loop = "runs", UNCHANGED serverVars,
           process' \in Processes,
           \A q \in Routers : /\ StreamOf(Now, process', q)
                              /\ router[q].life = "none" =>
                                    process'[q] = process[q]
    PROVE  Sound
<1>1. Good(Now, process', None, {})
  <2> DEFINE s == Now
             qr == process'
  <2>1. /\ Good(s, process, None, {}) /\ qr \in Processes
        /\ \A q \in Routers : /\ StreamOf(s, qr, q)
                              /\ s.router[q].life = "none" =>
                                    qr[q] = process[q]
    BY InvFacts, NowFacts
  <2> HIDE DEF s, qr
  <2>2. Good(s, qr, None, {})
    BY <2>1, ProcessGood
  <2> QED
    BY <2>2 DEF s, qr
<1>2. Now' = Now /\ loop' = "runs"
  BY DEF Now, serverVars
<1>3. IInv'
  BY <1>1, <1>2, NextInv
<1> QED
  BY <1>2, <1>3 DEF Sound

(* A process that changes its state only.                                  *)
LEMMA StateSound ==
    ASSUME IInv, loop = "runs", UNCHANGED serverVars, NEW p \in Routers,
           process[p].state # "none", NEW e \in Ends,
           process' = MovesTo(process, p, e)
    PROVE  Sound
<1>1. process \in Processes /\ \A q \in Routers : StreamOf(Now, process, q)
  BY InvFacts DEF Good, Base
<1>2. /\ process' \in Processes /\ process'[p].made = process[p].made
      /\ process'[p].out = process[p].out
      /\ \A q \in Routers \ {p} : process'[q] = process[q]
  <2>1. process \in Processes
    BY <1>1
  <2> QED
    BY <2>1, StateMoves
<1>3. \A q \in Routers : /\ process'[q].made = process[q].made
                         /\ process'[q].out = process[q].out
  BY <1>2
<1>4. \A q \in Routers : StreamOf(Now, process', q)
  BY <1>1, <1>3 DEF StreamOf
<1>5. router[p].life # "none"
  BY InvFacts DEF NoProcess
<1>6. \A q \in Routers : router[q].life = "none" =>
                            process'[q] = process[q]
  BY <1>2, <1>5
<1> QED
  BY <1>2, <1>4, <1>6, ProcessSound

(* Router::child_watch().                                                  *)
LEMMA ChildWatchSound ==
    ASSUME IInv, NEW p \in Routers, ChildWatch(p)
    PROVE  Sound
<1>1. /\ loop = "runs" /\ process[p].state = "zombie"
      /\ process' = [process EXCEPT ![p].state = "reaped"]
      /\ process \in Processes /\ router[p] \in RouterType
  BY InvFacts DEF ChildWatch, HasExited
<1>2. CASE router[p].pid
  <2> DEFINE r == [router[p] EXCEPT !.pid = FALSE]
             t == Notify(Ended(PutRouter(Now, p, r), p), p)
  <2>1. Returns(t, p)
    BY <1>2, NowFacts DEF ChildWatch, PutRouter
  <2>2. /\ r \in RouterType /\ r.life = router[p].life
        /\ r.poll = router[p].poll /\ r.recvqueue = router[p].recvqueue
        /\ r.sock = router[p].sock
    BY <1>1 DEF RouterType
  <2> HIDE DEF r
  <2>3. /\ process' \in Processes /\ process'[p].made = process[p].made
        /\ process'[p].out = process[p].out
        /\ \A q \in Routers \ {p} : process'[q] = process[q]
    <3>1. process' = MovesTo(process, p, "reaped") /\ "reaped" \in Ends
      BY <1>1 DEF MovesTo, Ends
    <3>2. process \in Processes
      BY <1>1
    <3> QED
      BY <3>1, <3>2, StateMoves
  <2>4. Alive(router[p]) /\ StreamOf(Now, process, p)
    BY <1>2, InvFacts DEF Good, Base
  <2>5. Follows(Now, process, process', p, r)
    BY <2>2, <2>3, <2>4, NowFacts DEF Follows, StreamOf
  <2>6. Good(t, process', None, {}) /\ Tells(Now, t, p)
    BY <2>2, <2>3, <2>5, InvFacts, EndGood
  <2> HIDE DEF t
  <2> QED
    BY <1>1, <2>1, <2>4, <2>6, ReturnsSound
<1>3. CASE ~router[p].pid
  <2>1. /\ UNCHANGED serverVars /\ process[p].state # "none"
        /\ "reaped" \in Ends /\ process' = MovesTo(process, p, "reaped")
    BY <1>1, <1>3 DEF ChildWatch, Ends, MovesTo
  <2> QED
    BY <1>1, <2>1, StateSound
<1> QED
  BY <1>2, <1>3

(* The end of a process.                                                   *)
LEMMA ProcessEndSound ==
    ASSUME IInv, NEW p \in Routers, ProcessExit(p) \/ ProcessEof(p)
    PROVE  Sound
<1>1. /\ loop = "runs" /\ UNCHANGED serverVars
      /\ process[p].state # "none" /\ "zombie" \in Ends
      /\ process' = MovesTo(process, p, "zombie")
  BY DEF ProcessExit, ProcessEof, Ends, MovesTo
<1> QED
  BY <1>1, StateSound

(* A process writes a message: it is the newest.                           *)
LEMMA ProcessReportSound ==
    ASSUME IInv, NEW p \in Routers, ProcessReport(p)
    PROVE  Sound
<1>1. /\ loop = "runs" /\ UNCHANGED serverVars
      /\ process[p].state = "live" /\ process \in Processes
      /\ router[p].sock /\ process[p] \in ProcessType
      /\ Len(process[p].made) < MaxMade
  BY InvFacts DEF ProcessReport
<1> DEFINE made == process[p].made
           out == process[p].out
<1>2. made \in Seq(Made) /\ out \in Seq(Made)
  BY <1>1 DEF ProcessType
<1>3. PICK kind \in {"log", "info"} :
         process' = [process EXCEPT
                       ![p].made = Append(@, [kind |-> kind,
                                              n |-> Len(made) + 1]),
                       ![p].out = Append(@, [kind |-> kind,
                                             n |-> Len(made) + 1])]
  BY DEF ProcessReport
<1> DEFINE m == [kind |-> kind, n |-> Len(made) + 1]
           x == [process[p] EXCEPT !.made = Append(made, m),
                                   !.out = Append(out, m)]
<1>4. m \in Made /\ m.n = Len(made) + 1
  <2>1. Len(made) + 1 \in 1..MaxMade
    BY <1>1, <1>2, SockAssumption
  <2> QED
    BY <2>1 DEF Made
<1>5. process' = [process EXCEPT ![p] = x]
  BY <1>1, <1>3 DEF Processes
<1> HIDE DEF m
<1> DEFINE a == Append(made, m)
           b == Append(out, m)
<1>6. a \in Seq(Made) /\ b \in Seq(Made)
  BY <1>2, <1>4
<1> HIDE DEF a, b
<1>7. LET z == [process[p] EXCEPT !.made = a, !.out = b]
      IN z \in ProcessType /\ z.made = a /\ z.out = b
  BY <1>1, <1>6 DEF ProcessType
<1>8. x \in ProcessType /\ x.made = a /\ x.out = b
  BY <1>7 DEF a, b
<1> HIDE DEF x
<1>9. /\ process' \in Processes /\ process'[p] = x
      /\ \A q \in Routers \ {p} : process'[q] = process[q]
  BY <1>1, <1>5, <1>8 DEF Processes
<1>10. /\ \A q \in Routers : StreamOf(Now, process, q)
       /\ given[p] \in Seq(Messages) /\ router[p] \in RouterType
       /\ router[p].sock = TRUE
  BY <1>1, InvFacts, NowFacts, StateFacts, RouterFacts DEF Good, Base
<1>11. StreamOf(Now, process', p)
  <2> DEFINE q == router[p].recvqueue
             life == router[p].life
  <2>1. q \in Seq(Messages)
    BY <1>10, RouterFacts
  <2>2. Stream(given[p], q, TRUE, life, made, out)
    BY <1>10, NowFacts DEF StreamOf
  <2> HIDE DEF q, life, made, out
  <2>3. Stream(given[p], q, TRUE, life, a, b)
    BY <1>2, <1>4, <1>10, <2>1, <2>2, StreamReports DEF a, b
  <2> QED
    BY <1>8, <1>9, <1>10, <2>3, NowFacts DEF StreamOf, q, life
<1>12. \A q \in Routers \ {p} : StreamOf(Now, process', q)
  BY <1>9, <1>10 DEF StreamOf
<1>13. \A q \in Routers : StreamOf(Now, process', q)
  BY <1>11, <1>12
<1>14. router[p].life # "none"
  BY <1>1, InvFacts DEF NoProcess
<1>15. \A q \in Routers : router[q].life = "none" =>
                             process'[q] = process[q]
  BY <1>9, <1>14
<1> QED
  BY <1>1, <1>9, <1>13, <1>15, ProcessSound

(* The timer: without dead routers in the table, its iterator is valid.    *)
LEMMA TimeoutSound ==
    ASSUME IInv, NEW expired, Timeout(expired)
    PROVE  IInv' /\ (Dead(Now) = {} => loop' # "undefined")
<1> DEFINE t == Expiring(Now, expired)[NSessions]
<1>1. Becomes(t) /\ process' = process /\ loop = "runs"
  BY DEF Timeout
<1>2. /\ Good(t, process, None, {})
      /\ Clear(Now, 0) => Clear(t, NSessions)
  BY InvFacts, ExpiringGood
<1> HIDE DEF t
<1>3. Now' = t /\ loop' = t.loop
  <2>1. t \in State
    BY <1>2 DEF Good, Base
  <2> QED
    BY <1>1, <2>1, BecomesNow DEF Becomes
<1>4. IInv'
  BY <1>1, <1>2, <1>3, NextInv
<1>5. ASSUME Dead(Now) = {} PROVE Clear(Now, 0)
  BY <1>1, <1>5, NowFacts DEF Clear, Dead, InTable
<1> QED
  BY <1>2, <1>3, <1>4, <1>5 DEF Clear

(* Every step.                                                             *)
LEMMA StepSound ==
    ASSUME IInv, Next
    PROVE  \/ Sound
           \/ \E expired \in (SUBSET Sessions) \ {{}} : Timeout(expired)
<1>1. ASSUME NEW c \in Clients, ClientStep(c)
      PROVE  Sound
  <2>1. ASSUME AskSession(c) PROVE Sound
    <3>1. PICK k \in Sessions, r \in Asked, new \in Routers \cup {None} :
             /\ Ask(c, k, r, new)
             /\ new # None => router[new].life = "none"
      BY <2>1 DEF AskSession, IsNext
    <3>2. r \in Requests
      BY SockAssumption
    <3> QED
      BY <3>1, <3>2, AskSound
  <2> QED
    BY <1>1, <2>1, AskServerSound, ClientCloseSound DEF ClientStep
<1>2. ASSUME NEW p \in Routers, RouterStep(p) \/ ProcessStep(p)
      PROVE  Sound
  BY <1>2, RouterOutputSound, RouterMessageSound, RouterEofSound,
     ChildWatchSound, ProcessReportSound, ProcessEndSound
     DEF RouterStep, ProcessStep
<1> QED
  BY <1>1, <1>2 DEF Next

(* The invariant holds in the beginning.                                   *)
LEMMA InvInit ==
    ASSUME Init
    PROVE  IInv
<1>1. /\ NoRouter \in RouterType /\ NoRouter.poll = None
      /\ NoRouter.life = "none" /\ NoRouter.recvqueue = <<>>
  BY NoRouterFacts
<1>2. NewClient \in ClientType /\ NewClient.owed = 0
  BY DEF NewClient, ClientType
<1>3. /\ NoProcess \in ProcessType /\ NoProcess.made = <<>>
      /\ NoProcess.out = <<>>
  <2>1. <<>> \in Seq(Made)
    OBVIOUS
  <2> QED
    BY <2>1 DEF NoProcess, ProcessType
<1>4. /\ \A k \in Sessions : table[k] = None
      /\ \A p \in Routers : /\ router[p] = NoRouter /\ given[p] = <<>>
                            /\ process[p] = NoProcess
      /\ \A c \in Clients : client[c] = NewClient
  BY DEF Init
<1>5. Now \in State
  <2>1. /\ table \in [Sessions -> Routers \cup {None}]
        /\ router \in [Routers -> RouterType]
        /\ client \in [Clients -> ClientType]
        /\ given \in [Routers -> Seq(Messages)]
        /\ timer \in BOOLEAN /\ loop \in {"runs", "quit", "undefined"}
    <3>1. <<>> \in Seq(Messages)
      OBVIOUS
    <3> QED
      BY <1>1, <1>2, <3>1 DEF Init
  <2> QED
    BY <2>1 DEF State, Now
<1>6. process \in Processes
  BY <1>3 DEF Init, Processes
<1>7. TableInv(Now) /\ LifeInv(Now, process)
  BY <1>1, <1>4, NowFacts DEF TableInv, LifeInv
<1>8. \A p \in Routers : StreamOf(Now, process, p)
  BY <1>1, <1>3, <1>4, NowFacts, StreamBegins DEF StreamOf
<1>9. /\ Linked(Now) /\ \A p \in Routers : Heard(Now, p)
      /\ \A c \in Clients : Told(Now, c)
  BY <1>1, <1>2, <1>4, NowFacts DEF Linked, Heard, Hears, Told
<1> QED
  BY <1>5, <1>6, <1>7, <1>8, <1>9 DEF IInv, Good, Base

(* Every step keeps it.                                                    *)
LEMMA InvNext ==
    ASSUME IInv, [Next]_vars
    PROVE  IInv'
<1>1. CASE Next
  BY <1>1, StepSound, TimeoutSound DEF Sound
<1>2. CASE UNCHANGED vars
  <2>1. Now' = Now /\ process' = process
    BY <1>2 DEF Now, vars, serverVars
  <2> QED
    BY <2>1, InvFacts, NextInv
<1> QED
  BY <1>1, <1>2

(* In every state between two handlers: a session has a router of its own, *)
(* what is dead has nothing, the messages of every router are on their way *)
(* in order, and routers and the clients that wait for them agree.         *)
THEOREM SockServerInvariant == Spec => []IInv
<1>1. Init => IInv
  BY InvInit
<1>2. IInv /\ [Next]_vars => IInv'
  BY InvNext
<1> QED
  BY <1>1, <1>2, PTL DEF Spec

(* Client::on_input(), msgavailable(), set_longpoll(): nobody who is owed  *)
(* an answer is forgotten, and nobody waits for what is in the queue,      *)
(* whatever the number of clients, sessions and routers.                   *)
THEOREM SockServerWaiters == Spec => []WaitersPaired
<1>1. IInv => WaitersPaired
  <2> SUFFICES ASSUME IInv PROVE WaitersPaired
    OBVIOUS
  <2>1. ASSUME NEW p \in Routers, router[p].poll # None
        PROVE  LET c == router[p].poll
               IN /\ client[c].longpoll = p /\ client[c].owed = 1
                  /\ \A m \in Range(router[p].recvqueue) : ~Wanted(c, m)
                  /\ router[p].life = "run" \/ client[c].log # "take"
    <3> DEFINE c == router[p].poll
               q == router[p].recvqueue
    <3>1. client[c].longpoll = p
      BY <2>1, InvFacts, NowFacts DEF Good, Linked
    <3>2. client[c].owed = 1 /\ Waiting(router[p], client[c].log)
      BY <2>1, InvFacts, NowFacts, NoneFacts DEF Good, Heard, Hears
    <3>3. ASSUME NEW m \in Range(q) PROVE ~Wanted(c, m)
      <4>1. PICK i \in DOMAIN q : q[i] = m
        BY <3>3 DEF Range
      <4>2. q # <<>>
        BY <4>1
      <4> QED
        BY <3>2, <4>1, <4>2 DEF Waiting, Wanted
    <3> QED
      BY <3>1, <3>2, <3>3 DEF Waiting
  <2>2. ASSUME NEW c \in Clients, client[c].owed = 1
        PROVE  /\ client[c].longpoll # None
               /\ router[client[c].longpoll].poll = c
    BY <2>2, InvFacts, NowFacts DEF Good, Told
  <2> QED
    BY <2>1, <2>2 DEF WaitersPaired
<1> QED
  BY <1>1, SockServerInvariant, PTL

(* Router::receive() and on_input(): for any size of a reply, any number   *)
(* of clients that ask in any order, and any end of the router, what is    *)
(* given is what was written, in order and without a gap; the end is told  *)
(* once.                                                                   *)
THEOREM SockServerStreams == Spec => []NothingSkipped
<1>1. IInv => NothingSkipped
  <2> SUFFICES ASSUME IInv, NEW p \in Routers
               PROVE  LET told == given[p]
                          made == process[p].made
                          Infos == {i \in DOMAIN told :
                                      told[i].kind = "info"}
                      IN /\ \A i \in Infos :
                               /\ told[i].n \in DOMAIN made
                               /\ made[told[i].n] = told[i]
                         /\ \A i, j \in Infos :
                               i < j => told[i].n < told[j].n
                         /\ \A i \in Infos, k \in DOMAIN made :
                               made[k].kind = "info" /\ k < told[i].n =>
                                 \E j \in Infos : told[j] = made[k]
                         /\ \A i, j \in DOMAIN told :
                               told[i] = Terminate /\ told[j] = Terminate
                                 => i = j
    BY DEF NothingSkipped
  <2> DEFINE told == given[p]
             q == router[p].recvqueue
             made == process[p].made
             out == process[p].out
             sock == router[p].sock
             life == router[p].life
             Infos == {i \in DOMAIN told : told[i].kind = "info"}
  <2>1. Stream(told, q, sock, life, made, out)
    BY InvFacts, NowFacts DEF Good, Base, StreamOf
  <2>2. /\ told \in Seq(Messages) /\ made \in Seq(Made)
        /\ q \in Seq(Messages) /\ out \in Seq(Made)
    BY InvFacts, NowFacts, StateFacts, RouterFacts DEF ProcessType
  <2> HIDE DEF told, q, made, out, sock, life
  <2>3. \A i \in Infos : told[i].n \in DOMAIN made /\ made[told[i].n] = told[i]
    BY <2>1 DEF Stream, Written, Info
  <2>4. \A i, j \in Infos : i < j => told[i].n < told[j].n
    BY <2>1 DEF Stream, Ordered, Info
  <2>5. ASSUME NEW i \in Infos, NEW k \in DOMAIN made,
               made[k].kind = "info", k < told[i].n
        PROVE  \E j \in Infos : told[j] = made[k]
    <3>1. Info(told[i]) /\ Info(made[k]) /\ made[k].n = k
          /\ told[i].n \in Nat /\ k \in Nat
      BY <2>1, <2>2, <2>5, MessageFacts DEF Info, Stream
    <3>2. ~Has(q, made[k])
      BY <2>1, <2>2, <2>5, <3>1 DEF Stream, Before, Has
    <3>3. ~Has(out, made[k])
      BY <2>1, <2>2, <2>5, <3>1 DEF Stream, Before, Has
    <3>4. ~Above(k, told)
      BY <2>5, <3>1 DEF Above
    <3>5. Has(told, made[k])
      BY <2>1, <3>1, <3>2, <3>3, <3>4 DEF Stream
    <3> QED
      BY <2>5, <3>5 DEF Has
  <2>6. \A i, j \in DOMAIN told :
           told[i] = Terminate /\ told[j] = Terminate => i = j
    BY <2>1 DEF Stream, Once
  <2> QED
    BY <2>3, <2>4, <2>5, <2>6 DEF told, made
<1> QED
  BY <1>1, SockServerInvariant, PTL

(* Router::notify_longpoll() and router_timeout_handler(): there is no     *)
(* other way to come to use an object after its end.                       *)
THEOREM SockServerUndefined == Spec => UndefinedExplained
<1> DEFINE Step == (loop = "runs" /\ loop' = "undefined") =>
                     IF \E k \in Sessions : TimeoutOf(k)
                     THEN Dead(Now) # {}
                     ELSE \E p \in Routers : Explained(p)
<1>1. ASSUME IInv, [Next]_vars PROVE Step
  <2> SUFFICES ASSUME loop = "runs", loop' = "undefined"
               PROVE  IF \E k \in Sessions : TimeoutOf(k)
                      THEN Dead(Now) # {}
                      ELSE \E p \in Routers : Explained(p)
    OBVIOUS
  <2>1. Next
    BY <1>1 DEF vars, serverVars
  <2>2. CASE \E k \in Sessions : TimeoutOf(k)
    BY <1>1, <2>2, TimeoutSound DEF TimeoutOf
  <2>3. CASE ~ \E k \in Sessions : TimeoutOf(k)
    <3>1. ~ \E expired \in (SUBSET Sessions) \ {{}} : Timeout(expired)
      BY <2>3 DEF TimeoutOf
    <3> QED
      BY <1>1, <2>1, <2>3, <3>1, StepSound DEF Sound
  <2> QED
    BY <2>2, <2>3
<1>2. IInv /\ [Next]_vars => [Step]_vars
  BY <1>1
<1> QED
  BY <1>2, SockServerInvariant, PTL DEF Spec, UndefinedExplained, Explained
=============================================================================
