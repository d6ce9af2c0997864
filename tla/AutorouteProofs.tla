-------------------------- MODULE AutorouteProofs --------------------------
(***************************************************************************)
(* The safety of the autorouter's iteration, for any limits.  Each         *)
(* function of the class is a map on states, so the invariant is proved of *)
(* the states it returns: Clean is what a function of the iteration may    *)
(* count on when it is called or goes on, Inv what it leaves behind.  The  *)
(* actions then put these facts together, each for its source of events.   *)
(***************************************************************************)
EXTENDS Autoroute, FiniteSetTheorems, SequenceTheorems, TLAPS

(* Who calls a function that waits ("past" is a handler whose pipe has been*)
(* closed), the functions that wait, and the lines of the validator.       *)
Sources == {"idle", "command", "output", "past", "watch", "timer", "orphan"}
Frames == [src : Sources, at : Routing \cup {"timeout"}]
Lines == {"ok", "error", "end"}

State == [running : BOOLEAN, done : BOOLEAN, graph : BOOLEAN,
          response : {"none", "ok", "error"},
          tries : [local : Nat, remote : Nat, timeout : Nat],
          idles : Nat, timer : BOOLEAN, orphans : Nat, child : BOOLEAN,
          plans : Seq(BOOLEAN), answers : Seq(Lines), stack : Seq(Frames),
          good : BOOLEAN, crossed : BOOLEAN]

(* The work of a run: functions of the iteration under way, idle callbacks,*)
(* routes the validator owes an answer to, and answers not yet read.       *)
Hits(s, S) == Cardinality({i \in DOMAIN s : s[i] \in S})
Working == {f \in Frames : f.at \in Routing}
Work(s) == Hits(s.stack, Working) + s.idles + Len(s.plans)
             + Hits(s.answers, {"end"})

(* Of a run that has met no other activity: there is one piece of work.    *)
Certain(s) == s.running /\ ~s.crossed
Chain(s) == Certain(s) => Work(s) <= 1

(* While the answer is read or parsed it is the one to m_route: nothing is *)
(* left of an earlier route, and the lines on the way, those read so far,  *)
(* and the verdict of the validator agree.                                 *)
Judged(s) == s.response # "none" /\ (s.response = "ok" => s.good)
Answered(s) ==
    Certain(s) =>
      /\ \A i \in DOMAIN s.plans : s.plans[i]
      /\ \/ s.answers = <<>>
         \/ \E line \in {"ok", "error"} :
              s.answers = <<line, "end">> /\ (line = "ok" => s.good)
         \/ s.answers = <<"end">> /\ Judged(s)
      /\ (\E i \in DOMAIN s.stack : s.stack[i].at = "parse") => Judged(s)

(* A run that has succeeded is over, and the validator does not have its   *)
(* route any more, so no later answer takes the verdict back.              *)
Over(s) ==
    s.done => /\ ~s.running
              /\ s.crossed \/ (s.good /\ \A i \in DOMAIN s.plans : ~s.plans[i])

(* The inductive invariant.                                                *)
Inv(s) == s \in State /\ Chain(s) /\ Answered(s) /\ Over(s)
IInv == Inv(Now)

(* A function of the iteration that is called or goes on is the only work. *)
Clean(s) == /\ s \in State /\ Over(s)
            /\ Certain(s) => Work(s) = 0 /\ s.answers = <<>>

-----------------------------------------------------------------------------
(* Counting the elements of a sequence.                                    *)

(* The elements of a sequence that are in S can be counted, and there are  *)
(* none just when each is elsewhere.                                       *)
LEMMA HitsType ==
    ASSUME NEW T, NEW s \in Seq(T), NEW S
    PROVE  /\ IsFiniteSet({i \in DOMAIN s : s[i] \in S})
           /\ Hits(s, S) \in Nat
           /\ Hits(s, S) = 0 <=> \A i \in DOMAIN s : s[i] \notin S
<1> DEFINE H == {i \in DOMAIN s : s[i] \in S}
<1>1. IsFiniteSet(1..Len(s))
  BY FS_Interval
<1>2. H \in SUBSET (1..Len(s))
  OBVIOUS
<1>3. IsFiniteSet(H)
  BY <1>1, <1>2, FS_Subset
<1> QED
  BY <1>3, FS_CardinalityType, FS_EmptySet DEF Hits

(* The empty sequence has none.                                            *)
LEMMA HitsNone ==
    ASSUME NEW S
    PROVE  Hits(<<>>, S) = 0
<1>1. {i \in DOMAIN <<>> : <<>>[i] \in S} = {}
  OBVIOUS
<1> QED
  BY <1>1, FS_EmptySet DEF Hits

(* An element at the end counts if it is in S.                             *)
LEMMA HitsAppend ==
    ASSUME NEW T, NEW s \in Seq(T), NEW x \in T, NEW S
    PROVE  Hits(Append(s, x), S) = Hits(s, S) + (IF x \in S THEN 1 ELSE 0)
<1> DEFINE H == {i \in DOMAIN s : s[i] \in S}
           n == Len(s) + 1
           a == Append(s, x)
           A == {i \in DOMAIN a : a[i] \in S}
<1>1. IsFiniteSet(H) /\ Cardinality(H) \in Nat
  BY HitsType DEF Hits
<1>2. n \notin H
  OBVIOUS
<1>3. A = IF x \in S THEN H \cup {n} ELSE H
  <2>1. DOMAIN a = 1..n /\ a[n] = x /\ \A i \in 1..Len(s) : a[i] = s[i]
    OBVIOUS
  <2> QED
    BY <2>1
<1>4. Cardinality(H \cup {n}) = Cardinality(H) + 1
  BY <1>1, <1>2, FS_AddElement
<1>5. Hits(s, S) = Cardinality(H) /\ Hits(a, S) = Cardinality(A)
  BY DEF Hits
<1> HIDE DEF H, A, a, n
<1>6. CASE x \in S
  BY <1>1, <1>3, <1>4, <1>5, <1>6 DEF a
<1>7. CASE x \notin S
  BY <1>1, <1>3, <1>5, <1>7 DEF a
<1> QED
  BY <1>6, <1>7

(* So does the first one, which Tail drops.                                *)
LEMMA HitsTail ==
    ASSUME NEW T, NEW s \in Seq(T), s # <<>>, NEW S
    PROVE  Hits(s, S) = Hits(Tail(s), S) + (IF Head(s) \in S THEN 1 ELSE 0)
<1> DEFINE t == Tail(s)
           H == {i \in DOMAIN t : t[i] \in S}
           A == {i \in DOMAIN s : s[i] \in S}
           B == A \ {1}
           f == [i \in H |-> i + 1]
<1>1. /\ t \in Seq(T) /\ Len(t) = Len(s) - 1 /\ Len(s) \in Nat
      /\ \A i \in 1..Len(t) : t[i] = s[i + 1]
      /\ DOMAIN t = 1..Len(t) /\ DOMAIN s = 1..Len(s) /\ 1 \in DOMAIN s
      /\ Head(s) = s[1]
  OBVIOUS
<1>2. IsFiniteSet(H) /\ Cardinality(H) \in Nat
      /\ IsFiniteSet(A) /\ Cardinality(A) \in Nat
  BY <1>1, HitsType DEF Hits
<1>3. f \in Bijection(H, B)
  <2>1. f \in [H -> B]
    BY <1>1
  <2>2. \A i, j \in H : f[i] = f[j] => i = j
    BY <1>1
  <2>3. \A k \in B : \E i \in H : f[i] = k
    <3> TAKE k \in B
    <3>1. k - 1 \in H /\ f[k - 1] = k
      BY <1>1
    <3> QED
      BY <3>1
  <2> QED
    BY <2>1, <2>2, <2>3 DEF Bijection, Injection, Surjection, IsInjective
<1>4. Cardinality(B) = Cardinality(H)
  <2>1. ExistsBijection(H, B)
    BY <1>3 DEF ExistsBijection
  <2> HIDE DEF H, B
  <2> QED
    BY <1>2, <2>1, FS_Bijection
<1>5. Cardinality(B) = IF 1 \in A THEN Cardinality(A) - 1 ELSE Cardinality(A)
  BY <1>2, FS_RemoveElement
<1>6. Hits(s, S) = Cardinality(A) /\ Hits(t, S) = Cardinality(H)
  BY DEF Hits
<1>7. 1 \in A <=> Head(s) \in S
  BY <1>1
<1> HIDE DEF H, A, B, t
<1>8. CASE Head(s) \in S
  BY <1>2, <1>4, <1>5, <1>6, <1>7, <1>8 DEF t
<1>9. CASE Head(s) \notin S
  BY <1>2, <1>4, <1>5, <1>6, <1>7, <1>9 DEF t
<1> QED
  BY <1>8, <1>9

(* So does one that is put before the others.                              *)
LEMMA HitsPush ==
    ASSUME NEW T, NEW s \in Seq(T), NEW x \in T, NEW S
    PROVE  Hits(<<x>> \o s, S) = Hits(s, S) + (IF x \in S THEN 1 ELSE 0)
<1> DEFINE p == <<x>> \o s
<1>1. p \in Seq(T) /\ p # <<>> /\ Head(p) = x /\ Tail(p) = s
  OBVIOUS
<1> HIDE DEF p
<1>2. Hits(p, S) = Hits(Tail(p), S) + (IF Head(p) \in S THEN 1 ELSE 0)
  BY <1>1, HitsTail
<1> QED
  BY <1>1, <1>2 DEF p

(* Sequences that agree on what is in S have as many.                      *)
LEMMA HitsSame ==
    ASSUME NEW s, NEW t, NEW S, DOMAIN s = DOMAIN t,
           \A i \in DOMAIN s : s[i] \in S <=> t[i] \in S
    PROVE  Hits(s, S) = Hits(t, S)
<1>1. {i \in DOMAIN s : s[i] \in S} = {i \in DOMAIN t : t[i] \in S}
  OBVIOUS
<1> QED
  BY <1>1 DEF Hits

(* The parts of the work are numbers; without work there is no part of it. *)
LEMMA WorkType ==
    ASSUME NEW s \in State
    PROVE  /\ Hits(s.stack, Working) \in Nat
           /\ Hits(s.answers, {"end"}) \in Nat
           /\ Len(s.plans) \in Nat /\ s.idles \in Nat
           /\ Work(s) \in Nat
           /\ Work(s) = 0 => /\ s.plans = <<>>
                             /\ s.idles = 0
                             /\ Hits(s.answers, {"end"}) = 0
                             /\ Hits(s.stack, Working) = 0
                             /\ \A i \in DOMAIN s.stack :
                                   s.stack[i].at \notin Routing
<1>1. /\ s.stack \in Seq(Frames) /\ s.answers \in Seq(Lines)
      /\ s.plans \in Seq(BOOLEAN) /\ s.idles \in Nat
  BY DEF State
<1>2. /\ Hits(s.stack, Working) \in Nat
      /\ Hits(s.stack, Working) = 0 <=>
            \A i \in DOMAIN s.stack : s.stack[i] \notin Working
  BY <1>1, HitsType
<1>3. Hits(s.answers, {"end"}) \in Nat
  BY <1>1, HitsType
<1>4. Len(s.plans) \in Nat /\ (Len(s.plans) = 0 => s.plans = <<>>)
  BY <1>1
<1>5. \A i \in DOMAIN s.stack : s.stack[i] \in Frames
  BY <1>1
<1>6. \A i \in DOMAIN s.stack :
         s.stack[i] \notin Working => s.stack[i].at \notin Routing
  BY <1>5 DEF Working
<1> DEFINE a == Hits(s.stack, Working)
           b == Hits(s.answers, {"end"})
           c == Len(s.plans)
           d == s.idles
<1>7. a \in Nat /\ b \in Nat /\ c \in Nat /\ d \in Nat
      /\ Work(s) = a + d + c + b
  BY <1>1, <1>2, <1>3, <1>4 DEF Work
<1>8. a = 0 => \A i \in DOMAIN s.stack : s.stack[i].at \notin Routing
  BY <1>2, <1>6
<1>9. c = 0 => s.plans = <<>>
  BY <1>4
<1> HIDE DEF a, b, c, d
<1>10. Work(s) \in Nat /\ (Work(s) = 0 => a = 0 /\ b = 0 /\ c = 0 /\ d = 0)
  BY <1>7
<1> QED
  BY <1>7, <1>8, <1>9, <1>10 DEF a, b, c, d

(* stop() keeps the invariant, whatever work there was.                    *)
LEMMA StopInv ==
    ASSUME NEW s \in State, Over(s)
    PROVE  Inv(Stop(s))
BY DEF State, Over, Inv, Stop, Chain, Answered, Certain

(* A new route: no plan of the validator is m_route any more.              *)
LEMMA NewRouteState ==
    ASSUME NEW s \in State
    PROVE  /\ NewRoute(s) \in State
           /\ ClearCurrent(s) \in State
           /\ Len(NewRoute(s).plans) = Len(s.plans)
           /\ \A i \in DOMAIN NewRoute(s).plans : ~NewRoute(s).plans[i]
           /\ ClearCurrent(s).plans = NewRoute(s).plans
           /\ ClearCurrent(s).running = s.running
           /\ ClearCurrent(s).crossed = s.crossed
           /\ ClearCurrent(s).done = s.done
           /\ ClearCurrent(s).graph = s.graph
           /\ ClearCurrent(s).stack = s.stack
           /\ ClearCurrent(s).idles = s.idles
           /\ ClearCurrent(s).answers = s.answers
           /\ ClearCurrent(s).response = "none"
<1>1. s.plans \in Seq(BOOLEAN)
  BY DEF State
<1> DEFINE n == Len(s.plans)
           p == [i \in DOMAIN s.plans |-> FALSE]
<1>2. n \in Nat /\ DOMAIN s.plans = 1..n
  BY <1>1
<1>3. p \in [1..n -> BOOLEAN]
  BY <1>2
<1>4. p \in Seq(BOOLEAN) /\ Len(p) = n /\ \A i \in DOMAIN p : ~p[i]
  BY <1>2, <1>3, SeqDef
<1> HIDE DEF p
<1> QED
  BY <1>4 DEF State, NewRoute, ClearCurrent, p

(* clear() leaves no run.                                                  *)
LEMMA ClearInv ==
    ASSUME NEW s \in State
    PROVE  Inv(Clear(s)) /\ ~Clear(s).running /\ Clear(s).crossed = s.crossed
<1>1. Stop(s) \in State
  BY DEF State, Stop
<1> DEFINE t == ClearCurrent(Stop(s))
<1>2. t \in State /\ t.running = FALSE /\ t.crossed = s.crossed
  <2> DEFINE u == Stop(s)
  <2>1. u \in State /\ u.running = FALSE /\ u.crossed = s.crossed
    BY <1>1 DEF State, Stop
  <2> HIDE DEF u
  <2>2. ClearCurrent(u) \in State /\ ClearCurrent(u).running = u.running
        /\ ClearCurrent(u).crossed = u.crossed
    BY <2>1, NewRouteState
  <2> QED
    BY <2>1, <2>2 DEF u
<1> HIDE DEF t
<1>3. Clear(s) = [t EXCEPT !.done = FALSE, !.graph = FALSE]
  BY DEF Clear, t
<1> QED
  BY <1>2, <1>3 DEF State, Inv, Over, Chain, Answered, Certain

(* lgraphclearcurrent() adds no work.                                      *)
LEMMA ClearCurrentClean ==
    ASSUME NEW s, Clean(s), s.running
    PROVE  Clean(ClearCurrent(s)) /\ ClearCurrent(s).running
<1>1. ClearCurrent(s) \in State
  BY NewRouteState DEF Clean
<1> DEFINE t == ClearCurrent(s)
<1>2. /\ t.running = s.running /\ t.crossed = s.crossed /\ t.done = s.done
      /\ t.stack = s.stack /\ t.idles = s.idles /\ t.answers = s.answers
  BY NewRouteState DEF Clean
<1>3. Len(t.plans) = Len(s.plans)
  BY NewRouteState DEF Clean
<1> QED
  BY <1>1, <1>2, <1>3 DEF Clean, Work, Over, Certain

(* A function that waits in is_stopped() is the only work of its run;      *)
(* parse_response() waits with the answer to m_route.                      *)
LEMMA PushInv ==
    ASSUME NEW s, Clean(s), NEW src \in Sources, NEW at \in Routing,
           Certain(s) /\ at = "parse" => Judged(s)
    PROVE  Inv(Push(s, src, at))
<1> DEFINE t == Push(s, src, at)
           f == Frame(src, at)
<1>1. f \in Frames /\ f \in Working
  BY DEF Frame, Frames, Working
<1>2. s \in State /\ s.stack \in Seq(Frames)
  BY DEF Clean, State
<1> DEFINE q == <<f>> \o s.stack
<1>a. q \in Seq(Frames)
  BY <1>1, <1>2
<1>b. t = [s EXCEPT !.stack = q]
  BY DEF Push
<1> HIDE DEF q, t
<1>3. /\ t \in State /\ t.stack = q
      /\ t.running = s.running /\ t.crossed = s.crossed /\ t.done = s.done
      /\ t.plans = s.plans /\ t.idles = s.idles /\ t.answers = s.answers
      /\ t.response = s.response /\ t.good = s.good
  BY <1>2, <1>a, <1>b DEF State
<1>4. Hits(t.stack, Working) = Hits(s.stack, Working) + 1
  BY <1>1, <1>2, <1>3, HitsPush DEF q
<1>5. Work(t) = Work(s) + 1
  <2> DEFINE a == Hits(s.stack, Working)
             b == Hits(s.answers, {"end"})
             c == Len(s.plans)
             d == s.idles
  <2>1. a \in Nat /\ b \in Nat /\ c \in Nat /\ d \in Nat
    BY <1>2, WorkType
  <2>2. Work(s) = a + d + c + b /\ Work(t) = (a + 1) + d + c + b
    BY <1>3, <1>4 DEF Work
  <2> HIDE DEF a, b, c, d
  <2> QED
    BY <2>1, <2>2
<1>6. Chain(t)
  BY <1>3, <1>5, <1>2, WorkType DEF Chain, Clean, Certain
<1>7. Answered(t)
  <2> SUFFICES ASSUME Certain(t) PROVE Answered(t)
    BY DEF Answered
  <2>1. /\ s.plans = <<>> /\ s.answers = <<>>
        /\ \A i \in DOMAIN s.stack : s.stack[i].at \notin Routing
    BY <1>2, <1>3, WorkType DEF Clean, Certain
  <2>2. \A i \in DOMAIN t.stack :
           t.stack[i] = f \/ \E j \in DOMAIN s.stack : t.stack[i] = s.stack[j]
    BY <1>1, <1>2, <1>3 DEF q
  <2>3. (\E i \in DOMAIN t.stack : t.stack[i].at = "parse") => Judged(t)
    BY <1>3, <2>1, <2>2 DEF Certain, Judged, Frame, Routing
  <2> QED
    BY <1>3, <2>1, <2>3 DEF Answered
<1>8. Over(t)
  BY <1>3 DEF Over, Clean
<1> QED
  BY <1>3, <1>6, <1>7, <1>8 DEF Inv, t

(* So it is in lgraphroute(), wherever it waits.                           *)
LEMMA PushCleanInv ==
    ASSUME NEW s, Clean(s), NEW src \in Sources,
           NEW at \in {"top", "local", "good", "bad"}
    PROVE  Inv(Push(s, src, at))
BY PushInv DEF Routing

(* lgraphroute() as it is called: it waits, or the run ends.               *)
LEMMA RouteInv ==
    ASSUME NEW s, Clean(s), NEW src \in Sources
    PROVE  Inv(Route(s, src))
<1>1. Inv(Stop(s))
  BY StopInv DEF Clean
<1>2. Inv(Push(s, src, "top"))
  BY PushCleanInv
<1> QED
  BY <1>1, <1>2 DEF Route

(* The idle callback takes over from the function that asks for it.        *)
LEMMA AgainInv ==
    ASSUME NEW s, Clean(s), s.running
    PROVE  Inv(Again(s))
<1> DEFINE t == Again(s)
<1>a. s \in State
  BY DEF Clean
<1> DEFINE k == s.tries.local + 1
           j == s.idles + 1
<1>b. k \in Nat /\ j \in Nat
  BY <1>a DEF State
<1>c. t = [s EXCEPT !.tries.local = k, !.idles = j]
  BY DEF Again
<1> HIDE DEF k, j, t
<1>d. /\ t \in State /\ t.idles = j /\ t.running = s.running
      /\ t.crossed = s.crossed /\ t.done = s.done /\ t.plans = s.plans
      /\ t.answers = s.answers /\ t.stack = s.stack
  BY <1>a, <1>b, <1>c DEF State
<1>1. /\ t \in State /\ t.idles = s.idles + 1 /\ t.running = s.running
      /\ t.crossed = s.crossed /\ t.done = s.done /\ t.plans = s.plans
      /\ t.answers = s.answers /\ t.stack = s.stack
  BY <1>d DEF j
<1>2. ~t.done
  BY <1>1 DEF Clean, Over
<1>3. ASSUME Certain(t)
      PROVE  Chain(t) /\ Answered(t)
  <2>1. Certain(s) /\ s \in State /\ Work(s) = 0 /\ s.answers = <<>>
    BY <1>1, <1>3 DEF Certain, Clean
  <2>2. /\ s.plans = <<>> /\ s.idles = 0
        /\ \A i \in DOMAIN s.stack : s.stack[i].at \notin Routing
        /\ Hits(s.stack, Working) = 0 /\ Hits(s.answers, {"end"}) = 0
    BY <2>1, WorkType
  <2>3. Work(t) = 1
    BY <1>1, <2>2 DEF Work
  <2>4. Answered(t)
    BY <1>1, <2>1, <2>2 DEF Answered, Routing
  <2> QED
    BY <2>3, <2>4 DEF Chain
<1> QED
  BY <1>1, <1>2, <1>3 DEF Inv, Over, Chain, Answered, t

(* child_run() changes nothing but the process.                            *)
LEMMA ChildRunState ==
    ASSUME NEW s \in State, NEW u \in ChildRun(s)
    PROVE  /\ u \in State
           /\ u.running = s.running /\ u.crossed = s.crossed
           /\ u.done = s.done /\ u.graph = s.graph /\ u.good = s.good
           /\ u.plans = s.plans /\ u.idles = s.idles
           /\ u.answers = s.answers /\ u.stack = s.stack
           /\ u.response = s.response
<1> DEFINE t == [s EXCEPT !.child = TRUE]
<1>1. t \in State
  BY DEF State
<1>2. /\ t.running = s.running /\ t.crossed = s.crossed
      /\ t.done = s.done /\ t.graph = s.graph /\ t.good = s.good
      /\ t.plans = s.plans /\ t.idles = s.idles
      /\ t.answers = s.answers /\ t.stack = s.stack
      /\ t.response = s.response
  BY DEF State
<1>3. u = s \/ u = t
  BY DEF ChildRun
<1> HIDE DEF t
<1> QED
  BY <1>1, <1>2, <1>3

(* A route that goes to the validator is the work of the run from then on. *)
LEMMA SentInv ==
    ASSUME NEW s, Clean(s), s.running, NEW t \in State,
           t.running = s.running, t.crossed = s.crossed, t.done = s.done,
           t.plans = Append(s.plans, TRUE), t.idles = s.idles,
           t.answers = s.answers, t.stack = s.stack
    PROVE  Inv(t)
<1>2. ~t.done
  BY DEF Clean, Over
<1>3. ASSUME Certain(t)
      PROVE  Chain(t) /\ Answered(t)
  <2>1. Certain(s) /\ s \in State /\ Work(s) = 0 /\ s.answers = <<>>
    BY <1>3 DEF Certain, Clean
  <2>2. /\ s.plans = <<>> /\ s.idles = 0
        /\ \A i \in DOMAIN s.stack : s.stack[i].at \notin Routing
        /\ Hits(s.stack, Working) = 0 /\ Hits(s.answers, {"end"}) = 0
    BY <2>1, WorkType
  <2>3. t.plans = <<TRUE>>
    BY <2>2
  <2>4. Len(t.plans) = 1 /\ \A i \in DOMAIN t.plans : t.plans[i]
    <3>1. Len(<<TRUE>>) = 1 /\ DOMAIN <<TRUE>> = {1} /\ <<TRUE>>[1] = TRUE
      OBVIOUS
    <3> QED
      BY <2>3, <3>1
  <2>5. Work(t) = 1
    BY <2>2, <2>4 DEF Work
  <2>6. Answered(t)
    BY <2>1, <2>2, <2>4 DEF Answered, Routing
  <2> QED
    BY <2>5, <2>6 DEF Chain
<1> QED
  BY <1>2, <1>3 DEF Inv, Over, Chain, Answered

(* lgraphsubmitroute() sends it, or the run ends.                          *)
LEMMA SubmitInv ==
    ASSUME NEW s, Clean(s), s.running, NEW t \in Submit(s)
    PROVE  Inv(t)
<1> DEFINE r == [s EXCEPT !.tries.remote = @ + 1]
<1>a. s \in State
  BY DEF Clean
<1>b. s.tries.remote + 1 \in Nat
  BY <1>a DEF State
<1>1. /\ r \in State /\ r.running = s.running /\ r.crossed = s.crossed
      /\ r.done = s.done /\ r.plans = s.plans /\ r.idles = s.idles
      /\ r.answers = s.answers /\ r.stack = s.stack /\ r.good = s.good
  BY <1>a, <1>b DEF State
<1>2. PICK u \in ChildRun(r) :
        t = IF u.child
            THEN [u EXCEPT !.plans = Append(@, TRUE), !.tries.timeout = 0,
                           !.timer = TRUE]
            ELSE Stop(u)
  BY DEF Submit
<1> HIDE DEF r
<1>3. /\ u \in State /\ u.running = s.running /\ u.crossed = s.crossed
      /\ u.done = s.done /\ u.plans = s.plans /\ u.idles = s.idles
      /\ u.answers = s.answers /\ u.stack = s.stack /\ u.good = s.good
  BY <1>1, ChildRunState
<1>4. CASE u.child
  <2> DEFINE p == Append(u.plans, TRUE)
  <2>1. p \in Seq(BOOLEAN)
    BY <1>3 DEF State
  <2>2. t = [u EXCEPT !.plans = p, !.tries.timeout = 0, !.timer = TRUE]
    BY <1>2, <1>4
  <2>3. p = Append(s.plans, TRUE)
    BY <1>3
  <2> HIDE DEF p
  <2>4. /\ t \in State /\ t.running = s.running /\ t.crossed = s.crossed
        /\ t.done = s.done /\ t.plans = p /\ t.idles = s.idles
        /\ t.answers = s.answers /\ t.stack = s.stack
    BY <1>3, <2>1, <2>2 DEF State
  <2> QED
    BY <2>3, <2>4, SentInv
<1>5. CASE ~u.child
  BY <1>2, <1>3, <1>5, StopInv DEF Clean, Over
<1> QED
  BY <1>4, <1>5

(* lgraphroute() goes on from its first is_stopped().                      *)
LEMMA ProposeInv ==
    ASSUME NEW s, Clean(s), s.running, NEW src \in Sources,
           NEW t \in Propose(s, src)
    PROVE  Inv(t)
<1>1. Clean(ClearCurrent(s))
  BY ClearCurrentClean
<1>2. Inv(Stop(ClearCurrent(s)))
  BY <1>1, StopInv DEF Clean
<1>3. \A at \in {"local", "good", "bad"} : Inv(Push(ClearCurrent(s), src, at))
  BY <1>1, PushCleanInv
<1> QED
  BY <1>2, <1>3 DEF Propose

(* So does the search for a mandatory route.                               *)
LEMMA MandatoryInv ==
    ASSUME NEW s, Clean(s), s.running, NEW src \in Sources,
           NEW t \in Mandatory(s, src)
    PROVE  Inv(t)
<1>1. Clean(ClearCurrent(s))
  BY ClearCurrentClean
<1>2. /\ Inv(Push(ClearCurrent(s), src, "good"))
      /\ Inv(Push(ClearCurrent(s), src, "bad"))
      /\ Inv(Push(s, src, "bad"))
  BY <1>1, PushCleanInv
<1> QED
  BY <1>2 DEF Mandatory

(* parse_response(), the only place where a run ends with success: the     *)
(* answer it accepts is the answer to m_route.                             *)
LEMMA ParseInv ==
    ASSUME NEW s, Clean(s), s.running, NEW src \in Sources,
           Certain(s) => Judged(s), NEW t \in Parse(s, src)
    PROVE  Inv(t)
<1>1. Inv(Route(s, src)) /\ Inv(Stop(s))
  BY RouteInv, StopInv DEF Clean
<1>2. ASSUME Accepted(s)
      PROVE  Inv(Stop([s EXCEPT !.done = TRUE]))
  <2> DEFINE u == [s EXCEPT !.done = TRUE]
             v == Stop(u)
  <2>1. s \in State
    BY DEF Clean
  <2>2. /\ u \in State /\ u.crossed = s.crossed /\ u.good = s.good
        /\ u.plans = s.plans
    BY <2>1 DEF State
  <2> HIDE DEF u
  <2>3. /\ v \in State /\ ~v.running /\ v.crossed = s.crossed
        /\ v.good = s.good /\ v.plans = s.plans
    BY <2>2 DEF State, Stop
  <2> HIDE DEF v
  <2>4. s.crossed \/ (s.good /\ s.plans = <<>>)
    BY <2>1, <1>2, WorkType DEF Accepted, Judged, Clean, Certain
  <2>5. Over(v)
    BY <2>3, <2>4 DEF Over
  <2>6. Inv(v)
    BY <2>3, <2>5 DEF Inv, Chain, Answered, Certain
  <2> QED
    BY <2>6 DEF v, u
<1> QED
  BY <1>1, <1>2 DEF Parse

(* child_close() empties the pipes and touches nothing else of the run.    *)
LEMMA ChildCloseState ==
    ASSUME NEW s \in State
    PROVE  /\ ChildClose(s) \in State
           /\ ChildClose(s).plans = <<>> /\ ChildClose(s).answers = <<>>
           /\ ChildClose(s).running = s.running
           /\ ChildClose(s).crossed = s.crossed
           /\ ChildClose(s).done = s.done
           /\ ChildClose(s).good = s.good
           /\ ChildClose(s).idles = s.idles
           /\ ChildClose(s).response = s.response
           /\ ChildClose(s).tries = s.tries
           /\ DOMAIN ChildClose(s).stack = DOMAIN s.stack
           /\ \A i \in DOMAIN s.stack :
                 ChildClose(s).stack[i].at = s.stack[i].at
           /\ Hits(ChildClose(s).stack, Working) = Hits(s.stack, Working)
<1> DEFINE q == [i \in DOMAIN s.stack |->
                   IF s.stack[i].src = "output"
                   THEN Frame("past", s.stack[i].at) ELSE s.stack[i]]
           n == Len(s.stack)
<1>1. s.stack \in Seq(Frames)
  BY DEF State
<1>2. /\ n \in Nat /\ DOMAIN s.stack = 1..n
      /\ \A i \in 1..n : s.stack[i] \in Frames
  BY <1>1
<1>3. \A i \in 1..n : q[i] \in Frames /\ q[i].at = s.stack[i].at
  BY <1>2 DEF Frames, Frame, Sources
<1>4. q \in [1..n -> Frames]
  BY <1>2, <1>3
<1>5. q \in Seq(Frames) /\ DOMAIN q = DOMAIN s.stack
  BY <1>2, <1>4, SeqDef
<1>6. ChildClose(s) = [s EXCEPT !.child = FALSE, !.plans = <<>>,
                                !.answers = <<>>, !.stack = q]
  BY DEF ChildClose
<1> HIDE DEF q
<1>7. \A i \in DOMAIN q : q[i] \in Working <=> s.stack[i] \in Working
  BY <1>2, <1>3, <1>5 DEF Working
<1>8. Hits(q, Working) = Hits(s.stack, Working)
  BY <1>5, <1>7, HitsSame
<1> DEFINE t == ChildClose(s)
<1>9. <<>> \in Seq(BOOLEAN) /\ <<>> \in Seq(Lines)
  OBVIOUS
<1> HIDE DEF t
<1>10. t = [s EXCEPT !.child = FALSE, !.plans = <<>>, !.answers = <<>>,
                     !.stack = q]
  BY <1>6 DEF t
<1>11. /\ t \in State /\ t.stack = q
       /\ t.plans = <<>> /\ t.answers = <<>>
       /\ t.running = s.running /\ t.crossed = s.crossed
       /\ t.done = s.done /\ t.good = s.good /\ t.idles = s.idles
       /\ t.response = s.response /\ t.tries = s.tries
  BY <1>5, <1>9, <1>10 DEF State
<1>12. \A i \in DOMAIN s.stack : t.stack[i].at = s.stack[i].at
  BY <1>2, <1>3, <1>11
<1> QED
  BY <1>5, <1>8, <1>11, <1>12 DEF t

(* There is less work after it, so the invariant holds.                    *)
LEMMA ChildCloseInv ==
    ASSUME NEW s, Inv(s)
    PROVE  Inv(ChildClose(s))
<1> DEFINE t == ChildClose(s)
<1>1. s \in State
  BY DEF Inv
<1>2. /\ t \in State /\ t.plans = <<>> /\ t.answers = <<>>
      /\ t.running = s.running /\ t.crossed = s.crossed /\ t.done = s.done
      /\ t.good = s.good /\ t.idles = s.idles /\ t.response = s.response
      /\ DOMAIN t.stack = DOMAIN s.stack
      /\ \A i \in DOMAIN s.stack : t.stack[i].at = s.stack[i].at
      /\ Hits(t.stack, Working) = Hits(s.stack, Working)
  BY <1>1, ChildCloseState
<1> HIDE DEF t
<1>3. Hits(t.answers, {"end"}) = 0 /\ Len(t.plans) = 0
  BY <1>2, HitsNone
<1>4. Chain(t)
  <2> DEFINE a == Hits(s.stack, Working)
             b == Hits(s.answers, {"end"})
             c == Len(s.plans)
             d == s.idles
  <2>1. a \in Nat /\ b \in Nat /\ c \in Nat /\ d \in Nat
    BY <1>1, WorkType
  <2>2. Work(s) = a + d + c + b /\ Work(t) = a + d + 0 + 0
    BY <1>2, <1>3 DEF Work
  <2> HIDE DEF a, b, c, d
  <2>3. Work(t) <= Work(s) /\ Work(t) \in Nat /\ Work(s) \in Nat
    BY <2>1, <2>2
  <2> QED
    BY <2>3, <1>2 DEF Inv, Chain, Certain
<1>5. Answered(t)
  BY <1>2 DEF Inv, Answered, Certain, Judged
<1>6. Over(t)
  BY <1>2 DEF Inv, Over
<1> QED
  BY <1>2, <1>4, <1>5, <1>6 DEF Inv, t

(* child_timeout(): the route that is sent once more is the only work, or  *)
(* crossed says that it is not.                                            *)
LEMMA TimeoutInv ==
    ASSUME NEW s \in State, Over(s), s.running, s.idles = 0,
           NEW src \in Sources, NEW t \in Timeout(s, src)
    PROVE  Inv(t)
<1> DEFINE E == \E i \in DOMAIN s.stack : s.stack[i].at \in Routing
           k == s.tries.timeout + 1
           x == s.crossed \/ E
           r == [s EXCEPT !.tries.timeout = k, !.crossed = x]
           Sent(u) == [u EXCEPT !.plans = Append(@, TRUE), !.timer = TRUE,
                                !.orphans = @ + (IF s.timer THEN 1 ELSE 0) +
                                         (IF src = "orphan" THEN 1 ELSE 0)]
<1>1. k \in Nat /\ x \in BOOLEAN
  BY DEF State
<1>2. \/ t = ChildClose(Stop(r))
      \/ \E u \in ChildRun(ChildClose(r)) :
            t = IF u.child THEN Sent(u) ELSE Stop(u)
  BY DEF Timeout
<1>3. Certain(r) => \A i \in DOMAIN s.stack : s.stack[i].at \notin Routing
  <2>1. r.crossed = x
    BY <1>1 DEF State
  <2> QED
    BY <2>1 DEF Certain
<1> HIDE DEF k, x
<1>4. /\ r \in State /\ r.running = s.running /\ r.done = s.done
      /\ r.idles = s.idles /\ r.stack = s.stack /\ r.plans = s.plans
      /\ r.good = s.good
  BY <1>1 DEF State
<1> HIDE DEF r
<1>5. ~r.done
  BY <1>4 DEF Over
<1>6. CASE t = ChildClose(Stop(r))
  BY <1>4, <1>5, <1>6, StopInv, ChildCloseInv DEF Over
<1>7. ASSUME NEW u \in ChildRun(ChildClose(r)),
             t = IF u.child THEN Sent(u) ELSE Stop(u)
      PROVE  Inv(t)
  <2> DEFINE v == ChildClose(r)
  <2>1. /\ v \in State /\ v.plans = <<>> /\ v.answers = <<>>
        /\ v.running = r.running /\ v.crossed = r.crossed /\ v.done = r.done
        /\ v.idles = r.idles /\ v.stack \in Seq(Frames)
        /\ DOMAIN v.stack = DOMAIN r.stack
        /\ \A i \in DOMAIN r.stack : v.stack[i].at = r.stack[i].at
    <3>1. v \in State => v.stack \in Seq(Frames)
      BY DEF State
    <3> QED
      BY <1>4, <3>1, ChildCloseState
  <2> HIDE DEF v
  <2>2. /\ u \in State /\ u.plans = <<>> /\ u.answers = <<>>
        /\ u.running = v.running /\ u.crossed = v.crossed /\ u.done = v.done
        /\ u.idles = v.idles /\ u.stack = v.stack
    <3>1. u \in ChildRun(v)
      BY <1>7 DEF v
    <3> QED
      BY <2>1, <3>1, ChildRunState
  <2>3. Over(u)
    BY <2>1, <2>2, <1>5 DEF Over
  <2>4. CASE ~u.child
    BY <1>7, <2>2, <2>3, <2>4, StopInv
  <2>5. CASE u.child
    <3>1. Certain(u) => Work(u) = 0
      <4> SUFFICES ASSUME Certain(u) PROVE Work(u) = 0
        OBVIOUS
      <4>1. \A i \in DOMAIN u.stack : u.stack[i] \notin Working
        BY <1>3, <1>4, <2>1, <2>2 DEF Certain, Working
      <4>2. Hits(u.stack, Working) = 0
        <5>1. u.stack \in Seq(Frames)
          BY <2>1, <2>2
        <5> QED
          BY <4>1, <5>1, HitsType
      <4>3. Hits(u.answers, {"end"}) = 0 /\ Len(u.plans) = 0 /\ u.idles = 0
        BY <1>4, <2>1, <2>2, HitsNone
      <4> QED
        BY <4>2, <4>3 DEF Work
    <3>2. Clean(u)
      BY <2>2, <2>3, <3>1 DEF Clean
    <3> DEFINE p == Append(u.plans, TRUE)
               o == u.orphans + (IF s.timer THEN 1 ELSE 0) +
                      (IF src = "orphan" THEN 1 ELSE 0)
    <3>3. p \in Seq(BOOLEAN) /\ o \in Nat
      BY <2>2 DEF State
    <3>4. t = [u EXCEPT !.plans = p, !.timer = TRUE, !.orphans = o]
      BY <1>7, <2>5
    <3>5. p = Append(u.plans, TRUE)
      OBVIOUS
    <3> HIDE DEF p, o
    <3>6. /\ t \in State /\ t.running = u.running /\ t.crossed = u.crossed
          /\ t.done = u.done /\ t.plans = p /\ t.idles = u.idles
          /\ t.answers = u.answers /\ t.stack = u.stack
      BY <2>2, <3>3, <3>4 DEF State
    <3> QED
      BY <1>4, <2>1, <2>2, <3>2, <3>5, <3>6, SentInv
  <2> QED
    BY <2>4, <2>5
<1> QED
  BY <1>2, <1>6, <1>7

(* A function goes on after is_stopped() with the work it had.             *)
LEMMA ContinueInv ==
    ASSUME NEW s \in State, Over(s), s.idles = 0, NEW frame \in Frames,
           Certain(s) /\ frame.at \in Routing =>
             Work(s) = 0 /\ s.answers = <<>>,
           Certain(s) /\ frame.at = "parse" => Judged(s),
           NEW t \in Continue(s, frame)
    PROVE  Inv(t)
<1>1. CASE ~s.running
  <2>1. t = s
    BY <1>1 DEF Continue
  <2> QED
    BY <1>1, <2>1 DEF Inv, Chain, Answered, Certain
<1>2. CASE s.running
  <2>1. frame.src \in Sources /\ frame.at \in Routing \cup {"timeout"}
    BY DEF Frames
  <2>2. CASE frame.at = "timeout"
    <3>1. t \in Timeout(s, frame.src)
      BY <1>2, <2>2 DEF Continue
    <3> QED
      BY <1>2, <2>1, <3>1, TimeoutInv
  <2>3. CASE frame.at \in Routing
    <3>1. Clean(s)
      BY <2>3 DEF Clean
    <3>2. CASE frame.at = "top"
      BY <1>2, <2>1, <3>1, <3>2, ProposeInv DEF Continue
    <3>3. CASE frame.at = "local"
      BY <1>2, <2>1, <3>1, <3>3, MandatoryInv DEF Continue
    <3>4. CASE frame.at = "good"
      BY <1>2, <3>1, <3>4, SubmitInv DEF Continue
    <3>5. CASE frame.at = "bad"
      BY <1>2, <3>1, <3>5, AgainInv DEF Continue
    <3>6. CASE frame.at = "parse"
      BY <1>2, <2>1, <3>1, <3>6, ParseInv DEF Continue
    <3> QED
      BY <2>3, <3>2, <3>3, <3>4, <3>5, <3>6 DEF Routing
  <2> QED
    BY <2>1, <2>2, <2>3
<1> QED
  BY <1>1, <1>2 DEF State

(* A state that the variables become is the next one.                      *)
LEMMA BecomesNow ==
    ASSUME NEW s \in State, Becomes(s)
    PROVE  Now' = s
BY DEF Becomes, Now, State

(* The fields of the state are the variables.                              *)
LEMMA NowState ==
    ASSUME IInv
    PROVE  /\ Now \in State /\ Inv(Now)
           /\ Chain(Now) /\ Answered(Now) /\ Over(Now)
           /\ Now.running = running /\ Now.crossed = crossed
           /\ Now.done = done /\ Now.good = good /\ Now.response = response
           /\ Now.idles = idles /\ Now.plans = plans
           /\ Now.answers = answers /\ Now.stack = stack
           /\ Now.orphans = orphans /\ Now.graph = graph
           /\ idles \in Nat /\ orphans \in Nat
           /\ plans \in Seq(BOOLEAN) /\ answers \in Seq(Lines)
           /\ stack \in Seq(Frames)
<1>1. Inv(Now)
  BY DEF IInv
<1>2. /\ Now.running = running /\ Now.crossed = crossed
      /\ Now.done = done /\ Now.good = good /\ Now.response = response
      /\ Now.idles = idles /\ Now.plans = plans
      /\ Now.answers = answers /\ Now.stack = stack
      /\ Now.orphans = orphans /\ Now.graph = graph
  BY DEF Now
<1>3. /\ Now.idles \in Nat /\ Now.orphans \in Nat
      /\ Now.plans \in Seq(BOOLEAN) /\ Now.answers \in Seq(Lines)
      /\ Now.stack \in Seq(Frames)
  BY <1>1 DEF Inv, State
<1> QED
  BY <1>1, <1>2, <1>3 DEF Inv

(* No end of an answer on the way means no line of an answer.              *)
LEMMA AnswersGone ==
    ASSUME NEW s \in State, Answered(s), Certain(s),
           Hits(s.answers, {"end"}) = 0
    PROVE  s.answers = <<>>
<1>1. s.answers \in Seq(Lines)
  BY DEF State
<1>2. \A i \in DOMAIN s.answers : s.answers[i] # "end"
  BY <1>1, HitsType
<1>3. s.answers # <<"end">>
  BY <1>2
<1>4. \A line \in {"ok", "error"} : s.answers # <<line, "end">>
  BY <1>2
<1> QED
  BY <1>3, <1>4 DEF Answered

(* The invariant does not depend on timers, counts, process and graph.     *)
LEMMA SameInv ==
    ASSUME NEW s, Inv(s), NEW t \in State,
           t.running = s.running, t.crossed = s.crossed, t.done = s.done,
           t.plans = s.plans, t.answers = s.answers, t.stack = s.stack,
           t.idles = s.idles, t.response = s.response, t.good = s.good
    PROVE  Inv(t)
<1>1. Work(t) = Work(s)
  BY DEF Work
<1> QED
  BY <1>1 DEF Inv, Chain, Answered, Over, Certain, Judged

(* child_timeout() waits without being work of the iteration.              *)
LEMMA PushTimeoutInv ==
    ASSUME NEW s, Inv(s), NEW src \in Sources
    PROVE  Inv(Push(s, src, "timeout"))
<1> DEFINE t == Push(s, src, "timeout")
           f == Frame(src, "timeout")
           q == <<f>> \o s.stack
<1>1. f \in Frames /\ f \notin Working /\ f.at # "parse"
  BY DEF Frame, Frames, Working, Routing
<1>2. s \in State /\ s.stack \in Seq(Frames)
  BY DEF Inv, State
<1>3. q \in Seq(Frames)
  BY <1>1, <1>2
<1>4. t = [s EXCEPT !.stack = q]
  BY DEF Push
<1>5. Hits(q, Working) = Hits(s.stack, Working)
  <2>1. Hits(s.stack, Working) \in Nat
    BY <1>2, HitsType
  <2>2. Hits(q, Working) = Hits(s.stack, Working) + 0
    BY <1>1, <1>2, HitsPush
  <2> QED
    BY <2>1, <2>2
<1>6. \A i \in DOMAIN q : q[i].at = "parse" =>
         \E j \in DOMAIN s.stack : s.stack[j].at = "parse"
  <2>1. \A i \in DOMAIN q :
           q[i] = f \/ \E j \in DOMAIN s.stack : q[i] = s.stack[j]
    BY <1>1, <1>2
  <2> QED
    BY <1>1, <2>1
<1> HIDE DEF q, t
<1>7. /\ t \in State /\ t.stack = q
      /\ t.running = s.running /\ t.crossed = s.crossed /\ t.done = s.done
      /\ t.plans = s.plans /\ t.idles = s.idles /\ t.answers = s.answers
      /\ t.response = s.response /\ t.good = s.good
  BY <1>2, <1>3, <1>4 DEF State
<1>8. Work(t) = Work(s)
  BY <1>5, <1>7 DEF Work
<1>9. Answered(t)
  BY <1>6, <1>7 DEF Inv, Answered, Certain, Judged
<1> QED
  BY <1>7, <1>8, <1>9 DEF Inv, Chain, Over, Certain, t

(* A function returns from is_stopped().                                   *)
LEMMA ResumeInv == IInv /\ Resume => IInv'
<1> SUFFICES ASSUME IInv, Resume PROVE IInv'
  OBVIOUS
<1> DEFINE p == [Now EXCEPT !.stack = Tail(@)]
           frame == Head(stack)
<1>1. PICK t : t \in Continue(p, frame) /\ Becomes(t)
  BY DEF Resume
<1>2. /\ stack # <<>> /\ idles = 0 /\ stack \in Seq(Frames)
      /\ frame \in Frames /\ Tail(stack) \in Seq(Frames)
  BY NowState DEF Resume
<1> DEFINE q == Tail(stack)
<1>3. p = [Now EXCEPT !.stack = q]
  BY NowState
<1> HIDE DEF p
<1>4. /\ p \in State /\ p.stack = q /\ p.running = running
      /\ p.crossed = crossed /\ p.done = done /\ p.plans = plans
      /\ p.idles = 0 /\ p.answers = answers /\ p.response = response
      /\ p.good = good
  BY <1>2, <1>3, NowState DEF State
<1>5. Over(p)
  BY <1>4, NowState DEF Over
<1>6. Certain(p) => Certain(Now)
  BY <1>4, NowState DEF Certain
<1>7. ASSUME Certain(p), frame.at \in Routing
      PROVE  Work(p) = 0 /\ p.answers = <<>>
  <2>1. Certain(Now) /\ Work(Now) <= 1
    BY <1>6, <1>7, NowState DEF Chain
  <2>2. frame \in Working
    BY <1>2, <1>7 DEF Working
  <2> DEFINE a == Hits(q, Working)
             b == Hits(answers, {"end"})
             c == Len(plans)
             d == idles
  <2>3. a \in Nat /\ b \in Nat /\ c \in Nat /\ d \in Nat
        /\ Work(p) = a + d + c + b
    BY <1>2, <1>4, WorkType DEF Work
  <2>4. Hits(stack, Working) = a + 1
    BY <1>2, <2>2, HitsTail
  <2>5. Work(Now) = (a + 1) + d + c + b
    BY <2>4, NowState DEF Work
  <2> HIDE DEF a, b, c, d
  <2>6. Work(p) = 0 /\ b = 0
    BY <2>1, <2>3, <2>5
  <2>7. answers = <<>>
    BY <2>1, <2>6, NowState, AnswersGone DEF b
  <2> QED
    BY <1>4, <2>6, <2>7
<1>8. ASSUME Certain(p), frame.at = "parse"
      PROVE  Judged(p)
  <2>1. 1 \in DOMAIN stack /\ stack[1] = frame
    BY <1>2
  <2>2. Judged(Now)
    BY <1>6, <1>8, <2>1, NowState DEF Answered
  <2> QED
    BY <1>4, <2>2, NowState DEF Judged
<1>9. Inv(t)
  BY <1>1, <1>2, <1>4, <1>5, <1>7, <1>8, ContinueInv
<1> QED
  BY <1>1, <1>9, BecomesNow DEF IInv, Inv

(* The idle callback was the work of the run.                              *)
LEMMA IdleInv == IInv /\ Idle => IInv'
<1> SUFFICES ASSUME IInv, Idle PROVE IInv'
  OBVIOUS
<1> DEFINE k == idles - 1
           p == [Now EXCEPT !.idles = @ - 1]
           t == Route(p, "idle")
<1>1. k \in Nat /\ idles = k + 1
  BY NowState DEF Idle
<1>2. p = [Now EXCEPT !.idles = k]
  BY NowState
<1> HIDE DEF k, p
<1>3. /\ p \in State /\ p.idles = k /\ p.running = running
      /\ p.crossed = crossed /\ p.done = done /\ p.plans = plans
      /\ p.good = good /\ p.answers = answers /\ p.stack = stack
  BY <1>1, <1>2, NowState DEF State
<1>4. Over(p)
  BY <1>3, NowState DEF Over
<1>5. ASSUME Certain(p)
      PROVE  Work(p) = 0 /\ p.answers = <<>>
  <2>1. Certain(Now) /\ Work(Now) <= 1
    BY <1>3, <1>5, NowState DEF Chain, Certain
  <2> DEFINE a == Hits(stack, Working)
             b == Hits(answers, {"end"})
             c == Len(plans)
  <2>2. a \in Nat /\ b \in Nat /\ c \in Nat /\ Work(p) = a + k + c + b
    BY <1>3, WorkType DEF Work
  <2>3. Work(Now) = a + (k + 1) + c + b
    BY <1>1, NowState DEF Work
  <2> HIDE DEF a, b, c
  <2>4. Work(p) = 0 /\ b = 0
    BY <1>1, <2>1, <2>2, <2>3
  <2>5. answers = <<>>
    BY <2>1, <2>4, NowState, AnswersGone DEF b
  <2> QED
    BY <1>3, <2>4, <2>5
<1>6. Inv(t)
  BY <1>3, <1>4, <1>5, RouteInv DEF Clean, Sources
<1>7. Becomes(t)
  BY DEF Idle, p
<1> QED
  BY <1>6, <1>7, BecomesNow DEF IInv, Inv

(* The pipe holds the rest of one answer: at its end parse_response() has  *)
(* what the validator said of m_route, before it there is the one line.    *)
LEMMA AnswerShape ==
    ASSUME IInv, Certain(Now), answers # <<>>
    PROVE  IF Head(answers) = "end"
           THEN answers = <<"end">> /\ Judged(Now)
           ELSE \E line \in {"ok", "error"} :
                   answers = <<line, "end">> /\ (line = "ok" => good)
<1>1. \/ answers = <<>>
      \/ \E line \in {"ok", "error"} :
            answers = <<line, "end">> /\ (line = "ok" => good)
      \/ answers = <<"end">> /\ Judged(Now)
  BY NowState DEF Answered
<1>2. CASE \E line \in {"ok", "error"} :
              answers = <<line, "end">> /\ (line = "ok" => good)
  <2>1. PICK line \in {"ok", "error"} :
            answers = <<line, "end">> /\ (line = "ok" => good)
    BY <1>2
  <2>2. Head(answers) = line
    BY <2>1
  <2>3. Head(answers) # "end"
    BY <2>2
  <2> QED
    BY <1>2, <2>3
<1>3. CASE answers = <<"end">> /\ Judged(Now)
  BY <1>3
<1> QED
  BY <1>1, <1>2, <1>3

(* A line is read: the verdict goes to m_validationresponse, and the end of*)
(* the answer hands the work to parse_response().                          *)
LEMMA ReadLineInv == IInv /\ ReadLine => IInv'
<1> SUFFICES ASSUME IInv, ReadLine PROVE IInv'
  OBVIOUS
<1> DEFINE q == Tail(answers)
           read == [Now EXCEPT !.answers = Tail(@)]
           a == Hits(stack, Working)
           b == Hits(q, {"end"})
           c == Len(plans)
           d == idles
<1>1. /\ answers \in Seq(Lines) /\ answers # <<>> /\ q \in Seq(Lines)
      /\ Head(answers) \in Lines
  BY NowState DEF ReadLine, Readable
<1>2. read = [Now EXCEPT !.answers = q]
  BY NowState
<1> HIDE DEF read
<1>3. /\ read \in State /\ read.answers = q /\ read.running = running
      /\ read.crossed = crossed /\ read.done = done /\ read.plans = plans
      /\ read.good = good /\ read.stack = stack /\ read.idles = idles
      /\ read.response = response
  BY <1>1, <1>2, NowState DEF State
<1>4. /\ a \in Nat /\ b \in Nat /\ c \in Nat /\ d \in Nat
  <2>1. stack \in Seq(Frames) /\ plans \in Seq(BOOLEAN) /\ idles \in Nat
    BY NowState
  <2>2. a \in Nat
    BY <2>1, HitsType
  <2>3. b \in Nat
    BY <1>1, HitsType
  <2>4. c \in Nat
    BY <2>1
  <2> QED
    BY <2>1, <2>2, <2>3, <2>4
<1>5. /\ Work(Now) = a + d + c + Hits(answers, {"end"})
      /\ Hits(answers, {"end"}) = b + IF Head(answers) = "end" THEN 1 ELSE 0
  <2>1. Hits(answers, {"end"}) =
          b + (IF Head(answers) \in {"end"} THEN 1 ELSE 0)
    BY <1>1, HitsTail
  <2> QED
    BY <2>1, NowState DEF Work
<1>6. Certain(read) => Certain(Now) /\ Work(Now) <= 1
  BY <1>3, NowState DEF Certain, Chain
<1>7. Over(read)
  BY <1>3, NowState DEF Over
<1>8. CASE Head(answers) = "end"
  <2> DEFINE p == [read EXCEPT !.timer = FALSE]
             t == Push(p, "output", "parse")
  <2>1. /\ p \in State /\ p.answers = q /\ p.running = running
        /\ p.crossed = crossed /\ p.done = done /\ p.plans = plans
        /\ p.good = good /\ p.stack = stack /\ p.idles = idles
        /\ p.response = response
    BY <1>3 DEF State
  <2> HIDE DEF p
  <2>2. Over(p) /\ (Certain(p) => Certain(read))
    BY <1>3, <1>7, <2>1 DEF Over, Certain
  <2>3. ASSUME Certain(p)
        PROVE  Work(p) = 0 /\ p.answers = <<>> /\ Judged(p)
    <3>1. Work(Now) = a + d + c + (b + 1) /\ Work(p) = a + d + c + b
      BY <1>5, <1>8, <2>1 DEF Work
    <3>2. Work(Now) <= 1 /\ Certain(Now)
      BY <1>6, <2>2, <2>3
    <3> HIDE DEF a, b, c, d
    <3>3. Work(p) = 0
      BY <1>4, <3>1, <3>2
    <3>4. answers = <<"end">> /\ Judged(Now)
      BY <1>1, <1>8, <3>2, NowState, AnswerShape
    <3>5. q = <<>>
      BY <3>4
    <3> QED
      BY <2>1, <3>3, <3>4, <3>5, NowState DEF Judged
  <2>4. Inv(t)
    BY <2>1, <2>2, <2>3, PushInv DEF Clean, Sources, Routing
  <2>5. Becomes(t)
    BY <1>8 DEF ReadLine, p, read
  <2> QED
    BY <2>4, <2>5, BecomesNow DEF IInv, Inv
<1>9. CASE Head(answers) # "end"
  <2> DEFINE l == Head(answers)
             t == [read EXCEPT !.response = IF @ = "none" THEN l ELSE "error"]
             x == IF response = "none" THEN l ELSE "error"
  <2>1. x \in {"ok", "error"}
    BY <1>1, <1>9 DEF Lines
  <2>2. t = [read EXCEPT !.response = x]
    BY <1>3
  <2> HIDE DEF t, x
  <2>3. /\ t \in State /\ t.answers = q /\ t.running = running
        /\ t.crossed = crossed /\ t.done = done /\ t.plans = plans
        /\ t.good = good /\ t.stack = stack /\ t.idles = idles
        /\ t.response = x
    BY <1>3, <2>1, <2>2 DEF State
  <2>4. Work(t) = Work(Now)
    <3>1. Hits(answers, {"end"}) = b
      BY <1>4, <1>5, <1>9
    <3> QED
      BY <1>5, <2>3, <3>1 DEF Work
  <2>5. ASSUME Certain(t)
        PROVE  Answered(t)
    <3>1. Certain(Now) /\ Certain(read) /\ Work(Now) <= 1
      BY <1>3, <1>6, <2>3, <2>5 DEF Certain
    <3>2. PICK line \in {"ok", "error"} :
            answers = <<line, "end">> /\ (line = "ok" => good)
      BY <1>1, <1>9, <3>1, NowState, AnswerShape
    <3>3. q = <<"end">> /\ l = line
      BY <3>2
    <3>4. Judged(t)
      BY <2>3, <3>2, <3>3 DEF Judged, x
    <3> QED
      BY <2>3, <3>1, <3>3, <3>4, NowState DEF Answered
  <2>6. Inv(t)
    BY <1>6, <2>3, <2>4, <2>5, <1>7, <1>3, NowState
    DEF Inv, Chain, Answered, Over, Certain
  <2>7. Becomes(t)
    BY <1>9 DEF ReadLine, t, read
  <2> QED
    BY <2>6, <2>7, BecomesNow DEF IInv, Inv
<1> QED
  BY <1>8, <1>9

(* The end of the file stops the run.                                      *)
LEMMA EofInv == IInv /\ Eof => IInv'
<1> SUFFICES ASSUME IInv, Eof PROVE IInv'
  OBVIOUS
<1>1. Inv(ChildClose(Now))
  BY NowState, ChildCloseInv
<1>2. Inv(Stop(ChildClose(Now)))
  BY <1>1, StopInv DEF Inv
<1> QED
  BY <1>2, BecomesNow DEF Eof, IInv, Inv

(* The exit of the validator closes the pipes and waits in child_timeout().*)
LEMMA WatchInv == IInv /\ Watch => IInv'
<1> SUFFICES ASSUME IInv, Watch PROVE IInv'
  OBVIOUS
<1> DEFINE s == ChildClose(Now)
           t == [s EXCEPT !.timer = FALSE]
<1>1. Inv(s)
  BY NowState, ChildCloseInv
<1> HIDE DEF s
<1>2. /\ s \in State /\ t \in State
      /\ t.running = s.running /\ t.crossed = s.crossed /\ t.done = s.done
      /\ t.plans = s.plans /\ t.answers = s.answers /\ t.stack = s.stack
      /\ t.idles = s.idles /\ t.response = s.response /\ t.good = s.good
  BY <1>1 DEF Inv, State
<1>3. Inv(t)
  BY <1>1, <1>2, SameInv
<1>4. Inv(Push(t, "watch", "timeout"))
  BY <1>3, PushTimeoutInv DEF Sources
<1>5. Becomes(Push(t, "watch", "timeout"))
  BY DEF Watch, s
<1> QED
  BY <1>4, <1>5, BecomesNow DEF IInv, Inv

(* The timer changes no work.                                              *)
LEMMA ExpireInv == IInv /\ Expire => IInv'
<1> SUFFICES ASSUME IInv, Expire PROVE IInv'
  OBVIOUS
<1> DEFINE t == [Now EXCEPT !.timer = FALSE]
<1>1. /\ t \in State
      /\ t.running = running /\ t.crossed = crossed /\ t.done = done
      /\ t.plans = plans /\ t.answers = answers /\ t.stack = stack
      /\ t.idles = idles /\ t.response = response /\ t.good = good
  BY NowState DEF State
<1>2. Inv(t)
  BY <1>1, NowState, SameInv
<1>3. Inv(Push(t, "timer", "timeout"))
  BY <1>2, PushTimeoutInv DEF Sources
<1> QED
  BY <1>3, BecomesNow DEF Expire, IInv, Inv

(* Nor does a timer whose connection has been lost.                        *)
LEMMA ExpireOrphanInv == IInv /\ ExpireOrphan => IInv'
<1> SUFFICES ASSUME IInv, ExpireOrphan PROVE IInv'
  OBVIOUS
<1> DEFINE k == orphans - 1
           t == [Now EXCEPT !.orphans = @ - 1, !.timer = FALSE]
<1>1. k \in Nat
  BY NowState DEF ExpireOrphan
<1>2. t = [Now EXCEPT !.orphans = k, !.timer = FALSE]
  BY NowState
<1> HIDE DEF k, t
<1>3. /\ t \in State
      /\ t.running = running /\ t.crossed = crossed /\ t.done = done
      /\ t.plans = plans /\ t.answers = answers /\ t.stack = stack
      /\ t.idles = idles /\ t.response = response /\ t.good = good
  BY <1>1, <1>2, NowState DEF State
<1>4. Inv(t)
  BY <1>3, NowState, SameInv
<1>5. Inv(Push(t, "orphan", "timeout"))
  BY <1>4, PushTimeoutInv DEF Sources
<1>6. Becomes(Push(t, "orphan", "timeout"))
  BY DEF ExpireOrphan, t
<1> QED
  BY <1>5, <1>6, BecomesNow DEF IInv, Inv

(* A route without a search: the validator is not asked about it.          *)
LEMMA FoundInv ==
    ASSUME NEW s \in State, ~s.running,
           \A i \in DOMAIN s.plans : ~s.plans[i]
    PROVE  Inv([s EXCEPT !.tries.local = 1, !.done = TRUE, !.good = TRUE])
<1> DEFINE t == [s EXCEPT !.tries.local = 1, !.done = TRUE, !.good = TRUE]
<1>1. t \in State /\ ~t.running /\ t.good /\ t.plans = s.plans
  BY DEF State
<1> HIDE DEF t
<1>2. Inv(t)
  BY <1>1 DEF Inv, Chain, Answered, Over, Certain
<1> QED
  BY <1>2 DEF t

(* A run that is not crossed has nothing left over from another.           *)
LEMMA RunClean ==
    ASSUME NEW s \in State, ~s.done
    PROVE  Clean(Run(s))
<1> DEFINE x == Remains(s)
           t == [s EXCEPT !.running = TRUE, !.crossed = x]
<1>1. x \in BOOLEAN
  BY DEF Remains
<1>2. Run(s) = t
  BY DEF Run
<1>3. ~x => /\ \A i \in DOMAIN s.stack : s.stack[i] \notin Working
            /\ s.idles = 0 /\ s.plans = <<>> /\ s.answers = <<>>
  BY DEF Remains, Working, State
<1> HIDE DEF x
<1>4. /\ t \in State /\ ~t.done /\ t.crossed = x /\ t.stack = s.stack
      /\ t.idles = s.idles /\ t.plans = s.plans /\ t.answers = s.answers
  BY <1>1 DEF State
<1> HIDE DEF t
<1>5. ASSUME ~x
      PROVE  Work(t) = 0 /\ t.answers = <<>>
  <2>1. s.stack \in Seq(Frames)
    BY DEF State
  <2>2. Hits(t.stack, Working) = 0
    BY <1>3, <1>4, <1>5, <2>1, HitsType
  <2>3. Hits(t.answers, {"end"}) = 0 /\ Len(t.plans) = 0 /\ t.idles = 0
    BY <1>3, <1>4, <1>5, HitsNone
  <2> QED
    BY <1>3, <1>4, <1>5, <2>2, <2>3 DEF Work
<1> QED
  BY <1>2, <1>4, <1>5 DEF Clean, Over, Certain

(* start(), whatever comes of it.                                          *)
LEMMA StartInv ==
    ASSUME IInv, NEW cont \in BOOLEAN, Start(cont)
    PROVE  IInv'
<1> DEFINE a == [Stop(Now) EXCEPT !.done = FALSE]
<1>1. a \in State /\ ~a.running /\ ~a.done
  <2>1. Stop(Now) \in State /\ ~Stop(Now).running
    BY NowState DEF State, Stop
  <2> QED
    BY <2>1 DEF State
<1> DEFINE Cleared(s) == [Clear(s) EXCEPT !.tries.local = 0,
                                          !.tries.remote = 0]
           Found(t) == [t EXCEPT !.tries.local = 1, !.done = TRUE,
                                 !.good = TRUE]
           Begun(s) == Run(IF cont /\ graph THEN s
                           ELSE [Cleared(s) EXCEPT !.graph = TRUE])
<1>2. PICK s \in ChildRun(a) :
        \/ Becomes(Clear(s))
        \/ Becomes(Found(Cleared(s)))
        \/ Becomes(Found(NewRoute(s)))
        \/ Becomes(Cleared(s))
        \/ Becomes(Route(Begun(s), "command"))
  BY DEF Start
<1> HIDE DEF a
<1>3. s \in State /\ ~s.running /\ ~s.done
  BY <1>1, <1>2, ChildRunState
<1> DEFINE u == Clear(s)
           v == Cleared(s)
<1>4. /\ u \in State /\ ~u.running /\ ~u.done /\ Inv(u)
      /\ \A i \in DOMAIN u.plans : ~u.plans[i]
  <2> DEFINE w == Stop(s)
             x == ClearCurrent(w)
  <2>1. w \in State
    BY <1>3 DEF State, Stop
  <2>2. x \in State /\ \A i \in DOMAIN x.plans : ~x.plans[i]
    BY <2>1, NewRouteState
  <2> HIDE DEF x
  <2>3. u = [x EXCEPT !.done = FALSE, !.graph = FALSE]
    BY DEF Clear, x
  <2>4. ~u.done /\ u.plans = x.plans
    BY <2>2, <2>3 DEF State
  <2> QED
    BY <1>3, <2>2, <2>4, ClearInv DEF Inv
<1>5. v = [u EXCEPT !.tries.local = 0, !.tries.remote = 0]
  OBVIOUS
<1> HIDE DEF u, v
<1>6. /\ v \in State /\ ~v.running /\ ~v.done /\ v.plans = u.plans
  BY <1>4, <1>5 DEF State
<1>7. Inv(v)
  BY <1>6 DEF Inv, Chain, Answered, Over, Certain
<1>8. Inv(Found(v))
  BY <1>4, <1>6, FoundInv
<1>9. Inv(Found(NewRoute(s)))
  <2>1. NewRoute(s).running = s.running
    BY <1>3 DEF State, NewRoute
  <2> QED
    BY <1>3, <2>1, NewRouteState, FoundInv
<1>10. Inv(Route(Begun(s), "command"))
  <2> DEFINE y == [v EXCEPT !.graph = TRUE]
             z == IF cont /\ graph THEN s ELSE y
  <2>1. y \in State /\ ~y.done
    BY <1>6 DEF State
  <2> HIDE DEF y
  <2>2. z \in State /\ ~z.done
    BY <1>3, <2>1
  <2> HIDE DEF z
  <2>3. Clean(Run(z))
    BY <2>2, RunClean
  <2>4. Inv(Route(Run(z), "command"))
    BY <2>3, RouteInv DEF Sources
  <2> QED
    BY <2>4 DEF z, y, v
<1>11. \E t : Inv(t) /\ Becomes(t)
  BY <1>2, <1>4, <1>7, <1>8, <1>9, <1>10 DEF u, v
<1> QED
  BY <1>11, BecomesNow DEF IInv, Inv

(* The commands of the user.                                               *)
LEMMA CommandInv == IInv /\ Command => IInv'
<1> SUFFICES ASSUME IInv, Command PROVE IInv'
  OBVIOUS
<1>1. CASE \E cont \in BOOLEAN : Start(cont)
  BY <1>1, StartInv
<1>2. CASE Becomes(Stop(Now))
  BY <1>2, NowState, StopInv, BecomesNow DEF IInv, Inv
<1>3. CASE Becomes(Clear(Now))
  BY <1>3, NowState, ClearInv, BecomesNow DEF IInv, Inv
<1> QED
  BY <1>1, <1>2, <1>3 DEF Command

(* The validator judges m_route when the run is certain, and its answer    *)
(* takes the place of the plan.                                            *)
LEMMA ValidatorInv == IInv /\ Validator => IInv'
<1> SUFFICES ASSUME IInv, Validator PROVE IInv'
  OBVIOUS
<1>1. PICK line \in {"ok", "error"} :
        Becomes([Now EXCEPT !.plans = Tail(@),
                            !.answers = @ \o <<line, "end">>,
                            !.good = IF Head(plans) THEN line = "ok" ELSE @])
  BY DEF Validator
<1> DEFINE q == Tail(plans)
           r == answers \o <<line, "end">>
           x == IF Head(plans) THEN line = "ok" ELSE good
           t == [Now EXCEPT !.plans = q, !.answers = r, !.good = x]
<1>2. Becomes(t)
  BY <1>1, NowState
<1>3. /\ plans \in Seq(BOOLEAN) /\ plans # <<>> /\ q \in Seq(BOOLEAN)
      /\ Len(plans) = Len(q) + 1 /\ Len(q) \in Nat
      /\ Head(plans) = plans[1] /\ 1 \in DOMAIN plans
  <2>1. plans \in Seq(BOOLEAN)
    BY NowState
  <2>2. plans # <<>>
    BY DEF Validator
  <2> QED
    BY <2>1, <2>2
<1>4. r \in Seq(Lines)
  BY NowState DEF Lines
<1>5. good \in BOOLEAN /\ plans[1] \in BOOLEAN
  <2>1. Now.good \in BOOLEAN
    BY NowState DEF State
  <2> QED
    BY <1>3, <2>1, NowState
<1>6. x \in BOOLEAN
  BY <1>3, <1>5
<1>7. \A i \in DOMAIN q : i + 1 \in DOMAIN plans /\ q[i] = plans[i + 1]
  BY <1>3
<1> HIDE DEF q, r, x, t
<1>8. /\ t \in State /\ t.plans = q /\ t.answers = r /\ t.good = x
      /\ t.running = running /\ t.crossed = crossed /\ t.done = done
      /\ t.stack = stack /\ t.idles = idles /\ t.response = response
  BY <1>3, <1>4, <1>6, NowState DEF State, t
<1>9. ASSUME Certain(t)
      PROVE  Chain(t) /\ Answered(t)
  <2>1. Certain(Now) /\ Work(Now) <= 1
    BY <1>8, <1>9, NowState DEF Certain, Chain
  <2> DEFINE a == Hits(stack, Working)
             b == Hits(answers, {"end"})
             d == idles
             n == Len(q)
  <2>2. a \in Nat /\ b \in Nat /\ d \in Nat /\ n \in Nat
    BY <1>3, NowState, HitsType
  <2>3. Work(Now) = a + d + (n + 1) + b
    BY <1>3, NowState DEF Work
  <2> HIDE DEF a, b, d, n
  <2>4. a = 0 /\ b = 0 /\ d = 0 /\ n = 0
    BY <2>1, <2>2, <2>3
  <2>5. answers = <<>>
    BY <2>1, <2>4, NowState, AnswersGone DEF b
  <2>6. r = <<line, "end">>
    BY <2>5 DEF r
  <2>7. q = <<>>
    BY <1>3, <2>4 DEF n
  <2>8. plans[1]
    BY <1>3, <2>1, NowState DEF Answered
  <2>9. x <=> line = "ok"
    BY <1>3, <2>8 DEF x
  <2>10. Hits(r, {"end"}) = 1
    <3>1. Hits(<<line, "end">>, {"end"}) = 1
      <4> DEFINE w == <<line, "end">>
      <4>1. DOMAIN w = {1, 2} /\ w[1] = line /\ w[2] = "end"
        OBVIOUS
      <4>2. line # "end"
        BY <1>1
      <4> HIDE DEF w
      <4>3. {i \in DOMAIN w : w[i] \in {"end"}} = {2}
        BY <4>1, <4>2
      <4>4. Hits(w, {"end"}) = 1
        BY <4>3, FS_Singleton DEF Hits
      <4> QED
        BY <4>4 DEF w
    <3> QED
      BY <2>6, <3>1
  <2>11. Work(t) = 1
    <3>1. Hits(stack, Working) = 0 /\ idles = 0 /\ Len(q) = 0
      BY <2>4 DEF a, d, n
    <3> QED
      BY <1>8, <2>10, <3>1 DEF Work
  <2>12. \A i \in DOMAIN stack : stack[i].at # "parse"
    <3>1. \A i \in DOMAIN stack : stack[i] \notin Working
      BY <2>4, NowState, HitsType DEF a
    <3>2. \A i \in DOMAIN stack : stack[i] \in Frames
      BY NowState
    <3> QED
      BY <3>1, <3>2 DEF Working, Routing
  <2>13. Answered(t)
    BY <1>8, <2>6, <2>7, <2>9, <2>12 DEF Answered
  <2> QED
    BY <2>11, <2>13 DEF Chain
<1>10. Over(t)
  <2> SUFFICES ASSUME t.done, ~t.crossed
               PROVE  /\ ~t.running /\ t.good
                      /\ \A i \in DOMAIN t.plans : ~t.plans[i]
    BY <1>8, NowState DEF Over
  <2>1. ~running /\ good /\ \A i \in DOMAIN plans : ~plans[i]
    BY <1>8, NowState DEF Over
  <2>2. x = good
    BY <1>3, <2>1 DEF x
  <2> QED
    BY <1>7, <1>8, <2>1, <2>2
<1>11. Inv(t)
  BY <1>8, <1>9, <1>10 DEF Inv, Chain, Answered
<1> QED
  BY <1>2, <1>11, BecomesNow DEF IInv, Inv

(* Nothing is going on in the beginning.                                   *)
LEMMA InvInit == Init => IInv
<1> SUFFICES ASSUME Init PROVE IInv
  OBVIOUS
<1>1. /\ <<>> \in Seq(BOOLEAN) /\ <<>> \in Seq(Lines) /\ <<>> \in Seq(Frames)
  OBVIOUS
<1>2. Now \in State
  BY <1>1 DEF Init, Now, State
<1> QED
  BY <1>2 DEF Init, Now, IInv, Inv, Chain, Answered, Over, Certain

(* Every step keeps the invariant.                                         *)
LEMMA InvNext == IInv /\ [Next]_vars => IInv'
<1> SUFFICES ASSUME IInv, [Next]_vars PROVE IInv'
  OBVIOUS
<1>1. CASE UNCHANGED vars
  <2>1. Now' = Now
    BY <1>1 DEF vars, Now
  <2> QED
    BY <2>1 DEF IInv
<1> QED
  BY <1>1, ResumeInv, IdleInv, ReadLineInv, EofInv, WatchInv, ExpireInv,
    ExpireOrphanInv, CommandInv, ValidatorInv
  DEF Next

(* The invariant holds throughout, for any limits.                         *)
THEOREM AutorouteInvariant == Spec => []IInv
  BY InvInit, InvNext, PTL DEF Spec

(* A run ends with success only when the validator has found its route     *)
(* good, or the route needs no validator, or the run has met the remains   *)
(* of another.                                                             *)
THEOREM AutorouteSuccess == Spec => []SuccessIsJudged
<1>1. IInv => SuccessIsJudged
  BY NowState DEF Over, SuccessIsJudged
<1> QED
  BY <1>1, AutorouteInvariant, PTL

(* Functions of the iteration, idle callbacks and answers of the validator *)
(* follow one another: no route is searched while another is judged.       *)
THEOREM AutorouteOneChain == Spec => []OneChain
<1>1. ASSUME IInv PROVE OneChain
  <2>1. AtWork = Hits(stack, Working)
    <3>1. \A i \in DOMAIN stack : stack[i] \in Frames
      BY <1>1, NowState
    <3>2. {i \in DOMAIN stack : stack[i].at \in Routing} =
            {i \in DOMAIN stack : stack[i] \in Working}
      BY <3>1 DEF Working
    <3> QED
      BY <3>2 DEF AtWork, Hits
  <2>2. Ends = Hits(answers, {"end"})
    <3>1. {i \in DOMAIN answers : answers[i] = "end"} =
            {i \in DOMAIN answers : answers[i] \in {"end"}}
      OBVIOUS
    <3> QED
      BY <3>1 DEF Ends, Hits
  <2>3. Work(Now) = AtWork + idles + Len(plans) + Ends
    BY <1>1, <2>1, <2>2, NowState DEF Work
  <2> QED
    BY <1>1, <2>3, NowState DEF Chain, Certain, OneChain
<1> QED
  BY <1>1, AutorouteInvariant, PTL

=============================================================================
