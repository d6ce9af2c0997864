------------------------------ MODULE DctPool ------------------------------
(***************************************************************************)
(* DctParameters::run() with worker threads: every pair of points of the   *)
(* restriction database that may be flown direct is computed by one of the *)
(* workers and saved by the main thread, which alone uses the database.    *)
(* Results wait in a list; a worker that finds the list too long waits     *)
(* until the main thread has taken some.  Workers and the main thread      *)
(* share one mutex and one condition, which whoever changes the list       *)
(* broadcasts after unlocking.                                             *)
(*                                                                         *)
(* An action under the mutex is atomic; a thread that waits for the        *)
(* condition is in waiting, and examines the list again when it has left   *)
(* it.  The order of the list does not matter to what is saved: it is a    *)
(* set here, next to the count m_resultscnt that the code keeps.           *)
(***************************************************************************)
EXTENDS Integers, FiniteSets

CONSTANTS
    NPoints,        \* m_points.size()
    Kind,           \* "null", "airport" or "point", of each point
    NWorkers,       \* m_worker
    Limit           \* of the list, 1024 in the code

Points == 0..(NPoints - 1)
Workers == 0..(NWorkers - 1)
Pairs == {p \in Points \X Points : p[1] < p[2]}

ASSUME DctAssumption ==
    /\ NPoints \in Nat
    /\ Kind \in [Points -> {"null", "airport", "point"}]
    /\ NWorkers \in Nat \ {0}
    /\ Limit \in Nat

VARIABLES
    row, col,       \* i0 and i1 of each worker
    pc,             \* what each worker does next
    main,           \* what the main thread does next
    hand,           \* calc of the main thread: a pair, or none
    results,        \* m_results
    resultscnt,     \* m_resultscnt
    finished,       \* m_finished
    waiting,        \* the threads that wait for m_cond
    saved,          \* the pairs the main thread has dealt with
    skipped         \* the pairs that are too far apart

workerVars == <<row, col, pc, skipped>>
mainVars == <<main, hand, saved>>
vars == <<workerVars, mainVars, results, resultscnt, finished, waiting>>

Main == NWorkers                        \* the main thread among the threads
Threads == Workers \cup {Main}

TypeOK ==
    /\ row \in [Workers -> Nat]
    /\ col \in [Workers -> Nat]
    /\ pc \in [Workers -> {"row", "col", "push", "told", "finish",
                           "finished", "done"}]
    /\ main \in {"look", "tell", "save", "join", "done"}
    /\ hand \in SUBSET Pairs
    /\ results \in SUBSET Pairs
    /\ resultscnt \in Nat
    /\ finished \in Nat
    /\ waiting \in SUBSET Threads
    /\ saved \in SUBSET Pairs
    /\ skipped \in SUBSET Pairs

Init ==
    /\ row = [w \in Workers |-> w]
    /\ col = [w \in Workers |-> 0]
    /\ pc = [w \in Workers |-> "row"]
    /\ main = "look"
    /\ hand = {}
    /\ results = {}
    /\ resultscnt = 0
    /\ finished = 0
    /\ waiting = {}
    /\ saved = {}
    /\ skipped = {}

(* m_cond.broadcast(), and the mutant that wakes one thread only.          *)
Broadcast_Signal ==
    IF waiting = {} THEN waiting' = {}
    ELSE \E t \in waiting : waiting' = waiting \ {t}
Broadcast == waiting' = {}

-----------------------------------------------------------------------------
(* run_threaded(), of worker w                                             *)

NextRow(w) ==
    /\ row' = [row EXCEPT ![w] = @ + NWorkers]
    /\ col' = [col EXCEPT ![w] = 0]

(* The loop over i0: a point that is null has no pairs.                    *)
Row(w) ==
    /\ pc[w] = "row"
    /\ \/ /\ row[w] >= NPoints
          /\ pc' = [pc EXCEPT ![w] = "finish"]
          /\ UNCHANGED <<row, col>>
       \/ /\ row[w] < NPoints
          /\ Kind[row[w]] = "null"
          /\ NextRow(w)
          /\ UNCHANGED pc
       \/ /\ row[w] < NPoints
          /\ Kind[row[w]] # "null"
          /\ col' = [col EXCEPT ![w] = row[w] + 1]
          /\ pc' = [pc EXCEPT ![w] = "col"]
          /\ UNCHANGED row
    /\ UNCHANGED <<mainVars, results, resultscnt, finished, waiting, skipped>>

(* There is no direct between two airports.                                *)
MayCompute(p) == /\ Kind[p[1]] # "null"
                 /\ Kind[p[2]] # "null"
                 /\ Kind[p[1]] # "airport" \/ Kind[p[2]] # "airport"

(* Between points that are no airports the distance decides.               *)
MaySkip(p) == Kind[p[1]] # "airport" /\ Kind[p[2]] # "airport"

Cursor(w) == <<row[w], col[w]>>

(* The loop over i1.                                                       *)
Col(w) ==
    /\ pc[w] = "col"
    /\ \/ /\ col[w] >= NPoints
          /\ NextRow(w)
          /\ pc' = [pc EXCEPT ![w] = "row"]
          /\ UNCHANGED skipped
       \/ /\ col[w] < NPoints
          /\ ~MayCompute(Cursor(w))
          /\ col' = [col EXCEPT ![w] = @ + 1]
          /\ UNCHANGED <<row, pc, skipped>>
       \/ /\ col[w] < NPoints
          /\ MayCompute(Cursor(w)) /\ MaySkip(Cursor(w))
          /\ skipped' = skipped \cup {Cursor(w)}
          /\ col' = [col EXCEPT ![w] = @ + 1]
          /\ UNCHANGED <<row, pc>>
       \/ /\ col[w] < NPoints
          /\ MayCompute(Cursor(w))
          /\ pc' = [pc EXCEPT ![w] = "push"]
          /\ UNCHANGED <<row, col, skipped>>
    /\ UNCHANGED <<mainVars, results, resultscnt, finished, waiting>>

(* result(): waits while the list is too long.                             *)
PushWaits(w) ==
    /\ pc[w] = "push"
    /\ w \notin waiting
    /\ resultscnt > Limit
    /\ waiting' = waiting \cup {w}
    /\ UNCHANGED <<workerVars, mainVars, results, resultscnt, finished>>

Push(w) ==
    /\ pc[w] = "push"
    /\ w \notin waiting
    /\ resultscnt <= Limit
    /\ results' = results \cup {Cursor(w)}
    /\ resultscnt' = resultscnt + 1
    /\ col' = [col EXCEPT ![w] = @ + 1]
    /\ pc' = [pc EXCEPT ![w] = "told"]
    /\ UNCHANGED <<mainVars, finished, waiting, row, skipped>>

Told(w) ==
    /\ pc[w] = "told"
    /\ pc' = [pc EXCEPT ![w] = "col"]
    /\ Broadcast
    /\ UNCHANGED <<mainVars, results, resultscnt, finished, row, col, skipped>>

(* finished()                                                              *)
Finish(w) ==
    /\ pc[w] = "finish"
    /\ finished' = finished + 1
    /\ pc' = [pc EXCEPT ![w] = "finished"]
    /\ UNCHANGED <<mainVars, results, resultscnt, waiting, row, col, skipped>>

FinishTold(w) ==
    /\ pc[w] = "finished"
    /\ pc' = [pc EXCEPT ![w] = "done"]
    /\ Broadcast
    /\ UNCHANGED <<mainVars, results, resultscnt, finished, row, col, skipped>>

-----------------------------------------------------------------------------
(* run(): the main thread                                                  *)

(* Mutant: the count of the workers is looked at before the list.          *)
Look_FinishedFirst ==
    /\ main = "look"
    /\ Main \notin waiting
    /\ \/ /\ finished >= NWorkers
          /\ main' = "join"
          /\ UNCHANGED <<hand, results, resultscnt, waiting>>
       \/ /\ finished < NWorkers
          /\ \E p \in results :
               /\ hand' = {p}
               /\ results' = results \ {p}
          /\ resultscnt' = resultscnt - 1
          /\ main' = "tell"
          /\ UNCHANGED waiting
       \/ /\ finished < NWorkers
          /\ results = {}
          /\ waiting' = waiting \cup {Main}
          /\ UNCHANGED <<main, hand, results, resultscnt>>
    /\ UNCHANGED <<workerVars, finished, saved>>

(* Mutant: a result is copied, not taken.                                  *)
Look_Copies ==
    /\ main = "look"
    /\ Main \notin waiting
    /\ \/ /\ \E p \in results : hand' = {p}
          /\ resultscnt' = resultscnt - 1
          /\ main' = "tell"
          /\ UNCHANGED <<results, waiting>>
       \/ /\ results = {}
          /\ finished >= NWorkers
          /\ main' = "join"
          /\ UNCHANGED <<hand, results, resultscnt, waiting>>
       \/ /\ results = {}
          /\ finished < NWorkers
          /\ waiting' = waiting \cup {Main}
          /\ UNCHANGED <<main, hand, results, resultscnt>>
    /\ UNCHANGED <<workerVars, finished, saved>>

(* A result is taken; or all workers have finished; or the thread waits.   *)
Look ==
    /\ main = "look"
    /\ Main \notin waiting
    /\ \/ /\ \E p \in results :
               /\ hand' = {p}
               /\ results' = results \ {p}
          /\ resultscnt' = resultscnt - 1
          /\ main' = "tell"
          /\ UNCHANGED waiting
       \/ /\ results = {}
          /\ finished >= NWorkers
          /\ main' = "join"
          /\ UNCHANGED <<hand, results, resultscnt, waiting>>
       \/ /\ results = {}
          /\ finished < NWorkers
          /\ waiting' = waiting \cup {Main}
          /\ UNCHANGED <<main, hand, results, resultscnt>>
    /\ UNCHANGED <<workerVars, finished, saved>>

Tell ==
    /\ main = "tell"
    /\ main' = "save"
    /\ Broadcast
    /\ UNCHANGED <<workerVars, hand, saved, results, resultscnt, finished>>

(* save_dct(), or nothing for an empty leg in an empty database            *)
Save ==
    /\ main = "save"
    /\ saved' = saved \cup hand
    /\ hand' = {}
    /\ main' = "look"
    /\ UNCHANGED <<workerVars, results, resultscnt, finished, waiting>>

(* The threads are joined and the transaction is committed.                *)
Join ==
    /\ main = "join"
    /\ \A w \in Workers : pc[w] = "done"
    /\ main' = "done"
    /\ UNCHANGED <<workerVars, hand, saved, results, resultscnt, finished,
                   waiting>>

(* g_cond_wait() may return without a broadcast.                           *)
Spurious ==
    \E t \in waiting :
        /\ waiting' = waiting \ {t}
        /\ UNCHANGED <<workerVars, mainVars, results, resultscnt, finished>>

-----------------------------------------------------------------------------
WorkerStep(w) ==
    \/ Row(w) \/ Col(w)
    \/ PushWaits(w) \/ Push(w) \/ Told(w)
    \/ Finish(w) \/ FinishTold(w)

MainStep == Look \/ Tell \/ Save \/ Join

Next ==
    \/ \E w \in Workers : WorkerStep(w)
    \/ MainStep
    \/ Spurious

Spec == Init /\ [][Next]_vars

(* Every thread runs, and nobody counts on a spurious wake-up.             *)
FairSpec ==
    /\ Spec
    /\ \A w \in Workers : WF_vars(WorkerStep(w))
    /\ WF_vars(MainStep)

-----------------------------------------------------------------------------
(* The pairs a worker holds.                                               *)
InHand(w) == IF pc[w] = "push" THEN {Cursor(w)} ELSE {}

(* A pair is in one place at a time, whoever it belongs to, and stays      *)
(* saved: no worker computes what another has computed, no result is taken *)
(* twice.  The count is that of the list, which flow control bounds.       *)
EachOnce ==
    /\ \A w \in Workers :
         /\ InHand(w) \cap (results \cup hand \cup saved \cup skipped) = {}
         /\ \A v \in Workers \ {w} : InHand(w) \cap InHand(v) = {}
    /\ results \cap (hand \cup saved \cup skipped) = {}
    /\ hand \cap (saved \cup skipped) = {}
    /\ saved \cap skipped = {}
    /\ resultscnt = Cardinality(results)
    /\ resultscnt <= Limit + 1

(* When the main thread stops looking, every worker has finished and every *)
(* pair that may be flown has been saved or found too far apart: none is   *)
(* left in the list or missed by the strides of the workers.               *)
AllDone ==
    main \in {"join", "done"} =>
      /\ \A w \in Workers : pc[w] \in {"finished", "done"}
      /\ results = {} /\ hand = {}
      /\ {p \in Pairs : MayCompute(p)} \subseteq saved \cup skipped

(* run() ends: main thread and workers never all wait for one another.     *)
Returns == <>(main = "done")

=============================================================================
