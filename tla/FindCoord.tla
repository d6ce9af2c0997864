------------------------------ MODULE FindCoord ------------------------------
(***************************************************************************)
(* IcaoFlightPlan::FindCoord: a lookup that starts several queries at once *)
(* and blocks until the last of them is done.  The callers keep it on the  *)
(* stack, use it for one or several lookups and let it go out of scope.    *)
(*                                                                         *)
(* The Engine is what AsyncQuery promises, which DbThread implements; one  *)
(* detail of DbThread is kept because FindCoord is exposed to it: the      *)
(* worker is one thread, and between m_done = true and the end of the slot *)
(* it is busy with one query (telling).                                    *)
(***************************************************************************)
EXTENDS Naturals, FiniteSets

CONSTANTS Paired,       \* kinds looked up by ident and by name: two queries
          Single,       \* kinds with one query
          Alone,        \* kinds that are only looked up on their own
          Kept,         \* kinds whose elements async_clear() leaves alone
          MaxFinds,     \* lookups made with one FindCoord (bound)
          NoQuery

Kinds == Paired \cup Single
Places == (Kinds \X {"main"}) \cup (Paired \X {"alt"})
Queries == (1..MaxFinds) \X Places

ASSUME KindAssumption == /\ Paired \cap Single = {}
                         /\ Kept \subseteq Kinds
                         /\ Alone \subseteq Single
                         /\ MaxFinds \in Nat
                         /\ NoQuery \notin Queries

VARIABLES
    status, listening, told,    \* the Engine: see AsyncQuery
    telling,        \* the query whose slots the worker is running
    found,          \* the queries whose result is not empty
    pc,             \* where the thread that uses the FindCoord is
    finds,          \* number of lookups begun
    todo,           \* places still to be started, connected or looked at
    ref,            \* places whose query pointer is set
    elements,       \* the query a list of elements comes from, if not empty
    altUsed         \* flags of async_waitdone(): found by the second query

engineVars == <<status, listening, told, telling, found>>
finderVars == <<pc, finds, todo, ref, elements, altUsed>>
findVars == <<engineVars, finderVars>>

Engine == INSTANCE AsyncQuery

Query(p) == <<finds, p>>
Done(q) == status[q] \in {"ready", "failed"}
Untold == {q \in listening : told[q] = 0}

FindTypeOK ==
    /\ Engine!TypeOK
    /\ telling \in Queries \cup {NoQuery}
    /\ pc \in {"idle", "start", "connect", "scan", "waiting", "woken", "gone"}
    /\ finds \in 0..MaxFinds
    /\ todo \in SUBSET (Places \cup Kinds)
    /\ ref \in SUBSET Places
    /\ found \in SUBSET Queries
    /\ elements \in [Kinds -> Queries \cup {NoQuery}]
    /\ altUsed \in SUBSET Paired
    /\ pc \in {"idle", "waiting", "woken", "gone"} => todo = {}

FindInit ==
    /\ Engine!Init
    /\ telling = NoQuery
    /\ found = {}
    /\ pc = "idle"
    /\ finds = 0
    /\ todo = {}
    /\ ref = {}
    /\ elements = [k \in Kinds |-> NoQuery]
    /\ altUsed = {}

(* Plausible mistakes (here and below): operators with a suffix that       *)
(* stand for one of the definitions, to show that a property notices.      *)
(* a callback that signals without having waited for the mutex *)
MutexFree_Ignored == TRUE

(* m_mutex of the FindCoord is held while the queries are looked at.       *)
MutexFree == pc # "scan"

-----------------------------------------------------------------------------
(* Plausible mistakes. *)

(* one query of a pair is enough *)
Reap_OneEnough(k) ==
    /\ pc = "scan"
    /\ k \in todo
    /\ todo' = todo \ {k}
    /\ LET ps == {p \in ref : p[1] = k}
       IN  IF \E p \in ps : Done(Query(p))
           THEN /\ ref' = ref \ ps
                /\ \E p \in ps :
                      /\ Done(Query(p))
                      /\ elements' = [elements EXCEPT
                            ![k] = IF Query(p) \in found
                                   THEN Query(p) ELSE NoQuery]
           ELSE UNCHANGED <<elements, ref>>
    /\ UNCHANGED <<engineVars, pc, finds, altUsed>>

(* async_clear() forgets another list *)
Begin_NoClear(ps) ==
    /\ pc = "idle"
    /\ finds < MaxFinds
    /\ pc' = "start"
    /\ finds' = finds + 1
    /\ todo' = ps
    /\ ref' = {}
    /\ altUsed' = {}
    /\ UNCHANGED <<engineVars, elements>>

-----------------------------------------------------------------------------
(* The thread that looks something up. *)

(* The places a lookup of the kinds ks uses: find_by_name() with an icao   *)
(* code and a name, find_by_ident() with an ident and a name, each of      *)
(* which may be empty; find_by_coord(), find_airway() and find_area() use  *)
(* the first queries only.                                                 *)
MainOf(ks) == ks \X {"main"}
AltOf(ks) == (ks \cap Paired) \X {"alt"}
If(b, S) == IF b THEN S ELSE {}

ByName(ks, icao, name) ==
    If(icao, MainOf(ks \cap Paired))
        \cup If(name, AltOf(ks) \cup MainOf(ks \cap Single))
ByIdent(ks, ident, name) == If(ident, MainOf(ks)) \cup If(name, AltOf(ks))

Lookups ==
    LET sets == SUBSET (Kinds \ Alone)
    IN  {ByName(ks, b, c) : ks \in sets, b, c \in BOOLEAN}
          \cup {ByIdent(ks, b, c) : ks \in sets, b, c \in BOOLEAN}
          \cup {MainOf({k}) : k \in Alone}

(* async_cancel() finds no pointer set: every lookup waits for its end.    *)
(* async_clear() empties the lists, those of Kept excepted.                *)
Begin(ps) ==
    /\ pc = "idle"
    /\ finds < MaxFinds
    /\ pc' = "start"
    /\ finds' = finds + 1
    /\ todo' = ps
    /\ ref' = {}
    /\ elements' = [k \in Kinds |-> IF k \in Kept THEN elements[k]
                                                   ELSE NoQuery]
    /\ altUsed' = {}
    /\ UNCHANGED engineVars

Start(p) ==
    /\ pc = "start"
    /\ p \in todo
    /\ Engine!Submit(Query(p))
    /\ ref' = ref \cup {p}
    /\ todo' = todo \ {p}
    /\ UNCHANGED <<telling, found, pc, finds, elements, altUsed>>

AllStarted ==
    /\ pc = "start"
    /\ todo = {}
    /\ pc' = "connect"
    /\ todo' = ref
    /\ UNCHANGED <<engineVars, finds, ref, elements, altUsed>>

(* connect() blocks while the slots of this very query run.  A query that  *)
(* is done is told at once, by this thread: async_done() finds nobody      *)
(* waiting.                                                                *)
ConnectQuery(p) ==
    /\ pc = "connect"
    /\ p \in todo
    /\ telling # Query(p)
    /\ listening' = listening \cup {Query(p)}
    /\ told' = [told EXCEPT ![Query(p)] = IF Done(Query(p)) THEN @ + 1
                                                            ELSE @]
    /\ todo' = todo \ {p}
    /\ UNCHANGED <<status, telling, found, pc, finds, ref, elements, altUsed>>

(* async_waitdone() locks m_mutex. *)
AllConnected ==
    /\ pc = "connect"
    /\ todo = {}
    /\ pc' = "scan"
    /\ todo' = Kinds
    /\ UNCHANGED <<engineVars, finds, ref, elements, altUsed>>

(* get_result() of a query that ended without an error is the vector of    *)
(* what it found, an empty one when nothing matched.                       *)
ResultOf(q) == IF q \in found THEN q ELSE NoQuery

(* The result of the first query is taken unless it failed, be it empty,   *)
(* and what the second one found is then forgotten; the pointers are       *)
(* reset, but the slots stay connected.                                    *)
Reap(k) ==
    /\ pc = "scan"
    /\ k \in todo
    /\ todo' = todo \ {k}
    /\ LET ps == {p \in ref : p[1] = k}
           ready == {p \in ps : status[Query(p)] = "ready"}
           first == IF <<k, "main">> \in ready THEN "main" ELSE "alt"
       IN  IF ps # {} /\ \A p \in ps : Done(Query(p))
           THEN /\ elements' = [elements EXCEPT ![k] =
                      IF ready = {} THEN NoQuery
                                    ELSE ResultOf(Query(<<k, first>>))]
                /\ altUsed' = altUsed \cup
                     {j \in {k} : ready = {<<k, "alt">>}}
                /\ ref' = ref \ ps
           ELSE UNCHANGED <<elements, ref, altUsed>>
    /\ UNCHANGED <<engineVars, pc, finds>>

Wait ==
    /\ pc = "scan"
    /\ todo = {}
    /\ ref # {}
    /\ pc' = "waiting"
    /\ UNCHANGED <<engineVars, finds, todo, ref, elements, altUsed>>

FinderWakesUp ==
    /\ pc = "woken"
    /\ pc' = "scan"
    /\ todo' = Kinds
    /\ UNCHANGED <<engineVars, finds, ref, elements, altUsed>>

Return ==
    /\ pc = "scan"
    /\ todo = {}
    /\ ref = {}
    /\ pc' = "idle"
    /\ UNCHANGED <<engineVars, finds, todo, ref, elements, altUsed>>

(* The FindCoord goes out of scope; it has no destructor of its own.       *)
GoneOutOfScope ==
    /\ pc = "idle"
    /\ pc' = "gone"
    /\ UNCHANGED <<engineVars, finds, todo, ref, elements, altUsed>>

-----------------------------------------------------------------------------
(* The worker thread of the Engine. *)

(* A query that ends without an error may have found something or nothing. *)
WorkerFinish(q) ==
    /\ telling = NoQuery
    /\ Engine!Finish(q)
    /\ telling' = q
    /\ \/ UNCHANGED found
       \/ status'[q] = "ready" /\ found' = found \cup {q}
    /\ UNCHANGED finderVars

(* The slot is async_done(), which locks m_mutex and broadcasts; if it is  *)
(* not connected, or has been called by connect(), nothing happens.        *)
WorkerTell ==
    /\ telling # NoQuery
    /\ telling \in Untold => MutexFree
    /\ IF telling \in Untold
       THEN /\ Engine!Tell(telling)
            /\ pc' = IF pc = "waiting" THEN "woken" ELSE pc
       ELSE UNCHANGED <<status, listening, told, pc>>
    /\ telling' = NoQuery
    /\ UNCHANGED <<found, finds, todo, ref, elements, altUsed>>

EngineWorker == WorkerTell \/ \E q \in Queries : WorkerFinish(q)

Finder == \/ \E p \in Places : Start(p) \/ ConnectQuery(p)
          \/ \E k \in Kinds : Reap(k)
          \/ AllStarted \/ AllConnected \/ Wait \/ FinderWakesUp \/ Return

FindNext == \/ \E ps \in Lookups : Begin(ps)
        \/ Finder
        \/ GoneOutOfScope
        \/ EngineWorker

(* A lookup that has begun goes on, and so does the worker. *)
FindFairness == WF_findVars(Finder) /\ WF_findVars(EngineWorker)

FindSpec == FindInit /\ [][FindNext]_findVars /\ FindFairness

-----------------------------------------------------------------------------
(* Properties *)

(* When a lookup returns, every query it started has come to its end, and  *)
(* what one of them has found is in the list of its kind, whatever was     *)
(* still running when the thread looked or was woken by a late call of an  *)
(* earlier lookup.  What the query by name has found is given up where the *)
(* query by ident has ended without an error, even if that found nothing.  *)
Complete ==
    \A p \in Places : finds > 0 =>
        /\ status[Query(p)] # "pending"
        /\ Query(p) \in found =>
              \/ elements[p[1]] = Query(p)
              \/ p[2] = "alt" /\ status[Query(<<p[1], "main">>)] = "ready"

(* A caller sees elements that a query of this very lookup has found, and  *)
(* never those of an earlier one, the kinds async_clear() forgets (the     *)
(* airways) excepted.                                                      *)
Fresh ==
    \A k \in Kinds \ Kept : elements[k] # NoQuery =>
        /\ elements[k] \in found
        /\ \E p \in Places : p[1] = k /\ elements[k] = Query(p)

(* The elements are reported as found by name (and the ones with a longer  *)
(* name then thrown away) just where the query by name ended without an    *)
(* error and the one by ident failed or was not made.                      *)
AltOnlyIfMainFailed ==
    finds > 0 =>
        \A k \in Paired : k \in altUsed <=>
            /\ status[Query(<<k, "alt">>)] = "ready"
            /\ status[Query(<<k, "main">>)] # "ready"

(* What async_waitdone() leaves to find_by_name() and the like, which sort *)
(* and shorten the lists and return.                                       *)
LookupRight == pc = "idle" => Complete /\ Fresh /\ AltOnlyIfMainFailed

(* is_done() may be seen before the slot has run, so that the FindCoord    *)
(* may be gone when it runs.  At most the one query the worker is telling  *)
(* is in that state when a lookup has returned.                            *)
OnlyCurrentCallOutstanding ==
    pc \in {"idle", "gone"} => \A q \in Untold : q = telling

(* No wakeup is lost: every lookup returns. *)
LookupEnds == pc = "start" ~> pc = "idle"
=============================================================================
