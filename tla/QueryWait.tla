----------------------------- MODULE QueryWait -----------------------------
(***************************************************************************)
(* The callers that need the answer of a query at once: they connect a     *)
(* slot that signals a condition variable and sleep on it.  The code has   *)
(* three ways to do so:                                                    *)
(*                                                                         *)
(*   "altitudes"   FPlanRoute::fix_invalid_altitudes(nr, eng): a batch of  *)
(*                 queries per waypoint; the slot is Glib::Cond::broadcast *)
(*                 and takes no mutex; a query that has ended is cancelled *)
(*   "profile"     Aircraft::NavFPlan::Profile: one query per leg; the     *)
(*                 slot locks the caller's mutex; nothing is cancelled     *)
(*   "simulator"   Simulator::find_coord(): one query per kind of point;   *)
(*                 connect() is called, and the sleep begun, with the      *)
(*                 mutex locked; nothing is cancelled                      *)
(*                                                                         *)
(* The caller is composed with DbThread: each of its steps is a step of    *)
(* the owner of a query there or leaves DbThread alone, and the slot runs  *)
(* inside Notify.  The Engine outlives its callers.                        *)
(***************************************************************************)
EXTENDS DbThread

CONSTANT Batches        \* for each style the queries: a sequence of sequences

Styles == {"altitudes", "profile", "simulator"}

(* No query occurs twice. *)
ASSUME BatchesAssumption ==
    /\ Batches \in [Styles -> Seq(Seq(Tasks))]
    /\ \A s \in Styles :
          /\ Batches[s] # <<>>
          /\ \A b \in 1..Len(Batches[s]) : Batches[s][b] # <<>>
          /\ \A b, c \in 1..Len(Batches[s]) :
                \A i \in 1..Len(Batches[s][b]), j \in 1..Len(Batches[s][c]) :
                    Batches[s][b][i] = Batches[s][c][j] => b = c /\ i = j

VARIABLES
    style,              \* which of the three the caller is
    cpc,                \* where the caller is
    bi, ci,             \* its batch, and the query of the batch
    left,               \* the references of the batch it has not reset
    locked,             \* it has locked its mutex
    missed              \* history: told after their test, before the sleep

callerVars == <<style, cpc, bi, ci, left, locked, missed>>
waitVars == <<vars, callerVars>>

CallerStates == {"make", "connect", "calling", "test", "cancel", "asleep",
                 "woken", "out"}

Batch == Batches[style][bi]
Q == Batch[ci]
QueriesOf(s, b) == {Batches[s][b][i] : i \in 1..Len(Batches[s][b])}

WaitTypeOK ==
    /\ style \in Styles
    /\ cpc \in CallerStates
    /\ bi \in 1..Len(Batches[style])
    /\ ci \in 1..Len(Batch) + 1
    /\ cpc \in {"make", "connect", "calling", "cancel"} => ci <= Len(Batch)
    /\ left \subseteq QueriesOf(style, bi)
    /\ locked \in BOOLEAN
    /\ missed \subseteq QueriesOf(style, bi)

WaitInit ==
    /\ Init
    /\ style \in Styles
    /\ cpc = "make"
    /\ bi = 1
    /\ ci = 1
    /\ left = QueriesOf(style, 1)
    /\ locked = FALSE
    /\ missed = {}

-----------------------------------------------------------------------------
(* What the three have in common, and in what they differ. *)

(* A plausible mistake (see below): an owner that asks is_error() too.     *)
Ended_Error(t) == done[t] \/ error[t]

SlotLocks(s) == s \in {"profile", "simulator"}
ConnectsLocked(s) == s = "simulator"
Cancels(s) == s = "altitudes"

Ended(t) == done[t] \/ (style # "profile" /\ error[t])

(* the queries of this round that had not ended when they were tested *)
Tested == IF cpc \in {"test", "cancel"}
          THEN left \cap {Batch[i] : i \in 1..ci - 1}
          ELSE {}

-----------------------------------------------------------------------------
(* The caller *)

(* async_*_find_*() for the queries of the batch, one after the other. *)
Make ==
    /\ cpc = "make"
    /\ QueueTest(Q) \/ QueuePush(Q)
    /\ IF handle'[Q] # "held"
       THEN UNCHANGED <<cpc, ci, locked>>
       ELSE IF ci < Len(Batch)
       THEN ci' = ci + 1 /\ UNCHANGED <<cpc, locked>>
       ELSE /\ cpc' = "connect"
            /\ ci' = 1
            /\ locked' = ConnectsLocked(style)
    /\ UNCHANGED <<style, bi, left, missed>>

(* After a connect(): the next one, or the wait.  The simulator sleeps     *)
(* first and tests later, the others test first.                           *)
AfterConnect_SleepsFirst ==
    IF ci < Len(Batch)
    THEN ci' = ci + 1 /\ cpc' = "connect" /\ UNCHANGED locked
    ELSE ci' = 1 /\ cpc' = "asleep" /\ locked' = FALSE

AfterConnect ==
    IF ci < Len(Batch)
    THEN ci' = ci + 1 /\ cpc' = "connect" /\ UNCHANGED locked
    ELSE /\ ci' = 1
         /\ IF style = "simulator"
            THEN cpc' = "asleep" /\ locked' = FALSE
            ELSE cpc' = "test" /\ locked' = TRUE

ConnectSlot ==
    /\ cpc = "connect"
    /\ Connect(Q)
    /\ IF handle'[Q] = "calling"
       THEN cpc' = "calling" /\ UNCHANGED <<ci, locked>>
       ELSE AfterConnect
    /\ UNCHANGED <<style, bi, left, missed>>

(* connect() came too late and calls the slot itself.  A Glib::Mutex is    *)
(* not recursive.                                                          *)
CallSlot ==
    /\ cpc = "calling"
    /\ ~(SlotLocks(style) /\ locked)
    /\ ConnectCall(Q)
    /\ AfterConnect
    /\ UNCHANGED <<style, bi, left, missed>>

TestEnded ==
    /\ cpc = "test"
    /\ ci <= Len(Batch)
    /\ Q \in left
    /\ Ended(Q)
    /\ left' = left \ {Q}
    /\ IF Cancels(style)
       THEN cpc' = "cancel" /\ UNCHANGED ci
       ELSE ci' = ci + 1 /\ UNCHANGED cpc
    /\ UNCHANGED <<vars, style, bi, locked, missed>>

TestNotEnded ==
    /\ cpc = "test"
    /\ ci <= Len(Batch)
    /\ ~(Q \in left /\ Ended(Q))
    /\ ci' = ci + 1
    /\ UNCHANGED <<vars, style, cpc, bi, left, locked, missed>>

CancelEnded ==
    /\ cpc = "cancel"
    /\ Cancel(Q) \/ Interrupt(Q)
    /\ IF handle'[Q] = "dropped"
       THEN cpc' = "test" /\ ci' = ci + 1
       ELSE UNCHANGED <<cpc, ci>>
    /\ UNCHANGED <<style, bi, left, locked, missed>>

FallAsleep ==
    /\ cpc = "test"
    /\ ci > Len(Batch)
    /\ left # {}
    /\ cpc' = "asleep"
    /\ locked' = FALSE
    /\ UNCHANGED <<vars, style, bi, ci, left, missed>>

(* The next waypoint, leg or kind of point, or the end. *)
Leave ==
    /\ cpc = "test"
    /\ ci > Len(Batch)
    /\ left = {}
    /\ locked' = FALSE
    /\ missed' = {}
    /\ \/ /\ bi < Len(Batches[style])
          /\ cpc' = "make"
          /\ bi' = bi + 1
          /\ ci' = 1
          /\ left' = QueriesOf(style, bi + 1)
       \/ cpc' = "out" /\ UNCHANGED <<bi, ci, left>>
    /\ UNCHANGED <<vars, style>>

CallerWakesUp ==
    /\ cpc = "woken"
    /\ cpc' = "test"
    /\ ci' = 1
    /\ locked' = TRUE
    /\ missed' = {}
    /\ UNCHANGED <<vars, style, bi, left>>

CallerSpuriousWakeup ==
    /\ cpc = "asleep"
    /\ cpc' = "woken"
    /\ UNCHANGED <<vars, style, bi, ci, left, locked, missed>>

-----------------------------------------------------------------------------
(* The worker *)

(* Notify runs the slot: it locks the caller's mutex, or does not, and     *)
(* signals.  It also signals to a caller that sleeps for another query.    *)
Tell_NoSignal ==
    /\ Notify
    /\ ~(slot[cur] /\ SlotLocks(style) /\ locked)
    /\ missed' = IF slot[cur] THEN missed \cup (Tested \cap {cur}) ELSE missed
    /\ UNCHANGED <<style, cpc, bi, ci, left, locked>>

Tell ==
    /\ Notify
    /\ IF slot[cur]
       THEN /\ ~(SlotLocks(style) /\ locked)
            /\ cpc' = IF cpc = "asleep" THEN "woken" ELSE cpc
            /\ missed' = missed \cup (Tested \cap {cur})
       ELSE UNCHANGED <<cpc, missed>>
    /\ UNCHANGED <<style, bi, ci, left, locked>>

WorkerAlone ==
    /\ wpc # "notify"
    /\ Worker \/ SpuriousWakeup
    /\ UNCHANGED callerVars

-----------------------------------------------------------------------------
Caller == \/ Make \/ ConnectSlot \/ CallSlot \/ TestEnded \/ TestNotEnded
          \/ CancelEnded \/ FallAsleep \/ Leave \/ CallerWakesUp

WaitNext == Caller \/ CallerSpuriousWakeup \/ Tell \/ WorkerAlone

(* Both threads run when they can, and nothing forces a wait to end        *)
(* without a signal.  The waits that do may lock a mutex again and again:  *)
(* the other thread gets it in the end.                                    *)
WaitFairness ==
    /\ WF_waitVars(Caller)
    /\ SF_waitVars(Make)
    /\ WF_waitVars(wpc # "notify" /\ Worker /\ UNCHANGED callerVars)
    /\ SF_waitVars(Tell)

WaitSpec == WaitInit /\ [][WaitNext]_waitVars /\ WaitFairness

-----------------------------------------------------------------------------
(* Properties *)

(* A caller that sleeps for a query which has ended, and been told of, is  *)
(* stranded: nobody signals again.  It happens to no caller whose slot     *)
(* locks its mutex, and only by a query told of between its test and the   *)
(* sleep.                                                                  *)
Stranded(t) == cpc = "asleep" /\ t \in left /\ done[t] /\ cur # t

StrandedOnlyInGap ==
    \A t \in Tasks : Stranded(t) => style = "altitudes" /\ t \in missed

(* The simulator calls connect() with its mutex locked: when the query has *)
(* ended by then, the slot waits for the mutex of its own caller.          *)
LocksItselfOut == style = "simulator" /\ cpc = "calling" /\ locked

(* Every caller gets out, or one of two things happens to it: it sleeps    *)
(* for queries that were all told of in the gap, or it locks itself out.   *)
GetsOut ==
    cpc # "out" ~> \/ cpc = "out"
                   \/ cpc = "asleep" /\ left \subseteq missed
                   \/ LocksItselfOut

(* fix_invalid_altitudes() cancels what has ended, and is not called any   *)
(* more when it is out: its mutex and condition variable are local         *)
(* variables.                                                              *)
QuietWhenOut ==
    style = "altitudes" /\ cpc = "out" => \A t \in Tasks : ~slot[t]

(* Profile does not cancel.  It may be out before the slot of its last     *)
(* query has run, and the slot then uses the object that is gone.  With a  *)
(* test of is_done() alone that slot is the one the worker is about to     *)
(* run; no other query can call the object any more.                       *)
OnlyTheLastIsTold ==
    style = "profile" /\ cpc = "out" =>
        \A t \in Tasks : slot[t] /\ calls[t] = 0 => cur = t /\ wpc = "notify"

-----------------------------------------------------------------------------
(* The inductive invariant the theorems of EngineProofs rest on. *)

LockInv ==
    /\ dtor = "none"
    /\ ~terminate
    /\ cpc \in {"test", "cancel"} => locked
    /\ style = "simulator" /\ cpc \in {"connect", "calling"} => locked

(* Where the caller is tells what it has done to its queries, *)
HandleInv ==
    /\ \A t \in Tasks :
          (\A b \in 1..bi : t \notin QueriesOf(style, b)) => handle[t] = "none"
    /\ cpc = "make" =>
          \A i \in 1..Len(Batch) :
              /\ i < ci => handle[Batch[i]] = "held" /\ ~connected[Batch[i]]
              /\ i = ci => handle[Batch[i]] \in {"none", "queueing"}
              /\ i > ci => handle[Batch[i]] = "none"
    /\ cpc \in {"connect", "calling"} =>
          \A i \in 1..Len(Batch) :
              /\ i < ci => handle[Batch[i]] = "held" /\ connected[Batch[i]]
              /\ i = ci => IF cpc = "connect"
                           THEN handle[Batch[i]] = "held"
                                /\ ~connected[Batch[i]]
                           ELSE handle[Batch[i]] = "calling"
                                /\ connected[Batch[i]]
              /\ i > ci => handle[Batch[i]] = "held" /\ ~connected[Batch[i]]
    /\ cpc \in {"make", "connect", "calling"} => left = QueriesOf(style, bi)
    /\ cpc \in {"test", "cancel", "asleep", "woken"} =>
          \A t \in left : handle[t] = "held" /\ connected[t]
    /\ cpc = "out" => left = {}

(* ... what it has cancelled, *)
CancelInv ==
    /\ cpc = "cancel" => Cancels(style) /\ Q \notin left
    /\ cpc = "cancel" => handle[Q] \in {"held", "interrupting"}
    /\ Cancels(style) =>
          \A t \in Tasks :
              \/ handle[t] = "dropped"
              \/ t \in left
              \/ cpc = "cancel" /\ t = Q
              \/ \A b \in 1..bi : t \notin QueriesOf(style, b)

(* ... and how many of those it no longer has are done. *)
ForgottenInv ==
    style = "profile" =>
        \A t \in Tasks :
            \/ done[t] /\ handle[t] = "held"
            \/ t \in left
            \/ \A b \in 1..bi : t \notin QueriesOf(style, b)

(* A query that had not ended when it was tested, or connected to with the *)
(* mutex locked, is still to be told of, or was told of in the gap.        *)
GapInv ==
    /\ \A t \in Tested : done[t] /\ cur # t => t \in missed
    /\ style = "simulator" /\ cpc = "connect" =>
          \A i \in 1..Len(Batch) :
              i < ci /\ done[Batch[i]] => cur = Batch[i]

ToldInGap == \A t \in Tasks : Stranded(t) => t \in missed

LockClosesGap == style # "altitudes" => missed = {}

WaitInv == /\ IInv
           /\ WaitTypeOK
           /\ LockInv
           /\ HandleInv
           /\ CancelInv
           /\ ForgottenInv
           /\ GapInv
           /\ LockClosesGap
           /\ ToldInGap
=============================================================================
