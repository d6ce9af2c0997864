------------------------------ MODULE DbThread ------------------------------
(***************************************************************************)
(* Engine::DbThread: one worker thread takes database queries from a list  *)
(* and runs them.  A query is a reference counted ResultBase which its     *)
(* owner (a window, a draw thread, a FindCoord) creates through one of the *)
(* *_find_* functions, connects a slot to and eventually cancels.          *)
(*                                                                         *)
(* Every action is a stretch of code between two accesses to state that    *)
(* another thread changes.  DbThread::m_mutex is held across an action     *)
(* boundary only between the test of m_terminate and the wait (wpc =       *)
(* "tested"); ResultBase::m_mutex only while the slots run (wpc =          *)
(* "notify") and while the owner interrupts the database (handle =         *)
(* "interrupting").  The destructor takes no mutex at all.                 *)
(***************************************************************************)
EXTENDS Naturals, Sequences, FiniteSets

CONSTANT Tasks,         \* the ResultBase objects
         NoTask         \* "the worker has no task"

ASSUME NoTaskAssumption == NoTask \notin Tasks

VARIABLES
    terminate,          \* m_terminate
    tasklist,           \* m_tasklist
    wpc,                \* where DbThread::thread() is
    cur,                \* its local variable task
    dtor,               \* where ~DbThread() is
    handle,             \* where the owner of a task is
    done, error, executing,     \* m_done, m_error, m_executing
    slot,               \* the owner's slot is in m_donecb
    result,             \* set_result() has stored the elements
    hit,                \* tasks whose statement sqlite3_interrupt() reached
    connected,          \* history: connect() has been called
    calls               \* history: how often the owner's slot has run

workerVars == <<wpc, cur>>
taskVars == <<done, error, executing, slot, result>>
history == <<hit, connected, calls>>
vars == <<terminate, tasklist, workerVars, dtor, handle, taskVars, history>>

WorkerStates == {"loop", "tested", "waiting", "woken", "popped", "execute",
                 "starting", "exec", "ran", "finish", "notify", "drain",
                 "draining", "ended"}
TasklessStates == {"loop", "tested", "waiting", "woken", "drain", "ended"}
HandleStates == {"none", "queueing", "held", "calling", "interrupting",
                 "dropped"}

(* The worker has a task between taking it off the list and being done     *)
(* with it.                                                                *)
TypeOK ==
    /\ terminate \in BOOLEAN
    /\ tasklist \in Seq(Tasks)
    /\ wpc \in WorkerStates
    /\ cur \in Tasks \cup {NoTask}
    /\ cur = NoTask <=> wpc \in TasklessStates
    /\ dtor \in {"none", "set", "join", "joined"}
    /\ handle \in [Tasks -> HandleStates]
    /\ done \in [Tasks -> BOOLEAN]
    /\ error \in [Tasks -> BOOLEAN]
    /\ executing \in [Tasks -> BOOLEAN]
    /\ slot \in [Tasks -> BOOLEAN]
    /\ result \in [Tasks -> BOOLEAN]
    /\ hit \in SUBSET Tasks
    /\ connected \in [Tasks -> BOOLEAN]
    /\ calls \in [Tasks -> Nat]

Init ==
    /\ terminate = FALSE
    /\ tasklist = <<>>
    /\ wpc = "loop"
    /\ cur = NoTask
    /\ dtor = "none"
    /\ handle = [t \in Tasks |-> "none"]
    /\ done = [t \in Tasks |-> FALSE]
    /\ error = [t \in Tasks |-> FALSE]
    /\ executing = [t \in Tasks |-> FALSE]
    /\ slot = [t \in Tasks |-> FALSE]
    /\ result = [t \in Tasks |-> FALSE]
    /\ hit = {}
    /\ connected = [t \in Tasks |-> FALSE]
    /\ calls = [t \in Tasks |-> 0]

WorkerHoldsMutex == wpc = "tested"
InList(t) == \E i \in 1..Len(tasklist) : tasklist[i] = t

(* Plausible mistakes (see below): a canceller that interrupts without the *)
(* mutex; no broadcast.                                                    *)
TaskMutexFree_CancelUnlocked(t) == ~(wpc = "notify" /\ cur = t)
Woken_NoBroadcast == wpc

TaskMutexFree(t) == /\ ~(wpc = "notify" /\ cur = t)
                    /\ handle[t] # "interrupting"

(* m_cond.broadcast() *)
Woken == IF wpc = "waiting" THEN "woken" ELSE wpc

TakeFront(pc) ==
    /\ cur' = Head(tasklist)
    /\ tasklist' = Tail(tasklist)
    /\ wpc' = pc

-----------------------------------------------------------------------------
(* Plausible mistakes.  The specification does not use this section: each  *)
(* operator replaces the one whose name it begins with to show that some   *)
(* property would notice.                                                  *)

(* a connect() that does not wait until execute() has called the slots *)
Connect_DuringNotify(t) ==
    /\ handle[t] = "held"
    /\ ~connected[t]
    /\ slot' = [slot EXCEPT ![t] = TRUE]
    /\ connected' = [connected EXCEPT ![t] = TRUE]
    /\ handle' = [handle EXCEPT ![t] = IF done[t] THEN "calling" ELSE "held"]
    /\ UNCHANGED <<terminate, tasklist, workerVars, dtor, done, error,
                   executing, result, hit, calls>>

Cancel_KeepsSlot(t) ==
    /\ handle[t] = "held"
    /\ TaskMutexFree(t)
    /\ done' = [done EXCEPT ![t] = TRUE]
    /\ error' = [error EXCEPT ![t] = @ \/ ~done[t]]
    /\ handle' = [handle EXCEPT ![t] = "dropped"]
    /\ UNCHANGED <<terminate, tasklist, workerVars, dtor, executing, slot,
                   result, history>>

(* what the member function cancel(void), which nobody calls, does *)
Cancel_SpoilsVerdict(t) ==
    /\ handle[t] = "held"
    /\ TaskMutexFree(t)
    /\ slot' = [slot EXCEPT ![t] = FALSE]
    /\ done' = [done EXCEPT ![t] = TRUE]
    /\ error' = [error EXCEPT ![t] = TRUE]
    /\ handle' = [handle EXCEPT ![t] = IF executing[t]
                                       THEN "interrupting" ELSE "dropped"]
    /\ UNCHANGED <<terminate, tasklist, workerVars, dtor, executing, result,
                   history>>

LoopTest_Untested ==
    /\ wpc = "loop"
    /\ wpc' = "tested"
    /\ UNCHANGED <<terminate, tasklist, cur, dtor, handle, taskVars, history>>

-----------------------------------------------------------------------------
(* The owner of a task. *)

(* A *_find_* function makes a result and passes it to queue(), which      *)
(* reads m_terminate without the mutex.  No call starts once the           *)
(* destructor has returned.                                                *)
QueueTest(t) ==
    /\ handle[t] = "none"
    /\ dtor # "joined"
    /\ IF terminate
       THEN /\ handle' = [handle EXCEPT ![t] = "held"]
            /\ done' = [done EXCEPT ![t] = TRUE]
            /\ error' = [error EXCEPT ![t] = TRUE]
       ELSE /\ handle' = [handle EXCEPT ![t] = "queueing"]
            /\ UNCHANGED <<done, error>>
    /\ UNCHANGED <<terminate, tasklist, workerVars, dtor, executing, slot,
                   result, history>>

QueuePush(t) ==
    /\ handle[t] = "queueing"
    /\ dtor # "joined"
    /\ ~WorkerHoldsMutex
    /\ tasklist' = Append(tasklist, t)
    /\ wpc' = Woken
    /\ handle' = [handle EXCEPT ![t] = "held"]
    /\ UNCHANGED <<terminate, cur, dtor, taskVars, history>>

(* ResultBase::connect(): the slot goes in and m_done is read under the    *)
(* mutex; a slot that comes too late is called after the mutex is free.    *)
Connect(t) ==
    /\ handle[t] = "held"
    /\ ~connected[t]
    /\ TaskMutexFree(t)
    /\ slot' = [slot EXCEPT ![t] = TRUE]
    /\ connected' = [connected EXCEPT ![t] = TRUE]
    /\ handle' = [handle EXCEPT ![t] = IF done[t] THEN "calling" ELSE "held"]
    /\ UNCHANGED <<terminate, tasklist, workerVars, dtor, done, error,
                   executing, result, hit, calls>>

ConnectCall(t) ==
    /\ handle[t] = "calling"
    /\ calls' = [calls EXCEPT ![t] = @ + 1]
    /\ handle' = [handle EXCEPT ![t] = "held"]
    /\ UNCHANGED <<terminate, tasklist, workerVars, dtor, taskVars, hit,
                   connected>>

(* ResultBase::cancel(RefPtr&) up to the call of m_dbcancel. *)
Cancel(t) ==
    /\ handle[t] = "held"
    /\ TaskMutexFree(t)
    /\ slot' = [slot EXCEPT ![t] = FALSE]
    /\ IF done[t]
       THEN UNCHANGED <<done, error>>
       ELSE /\ done' = [done EXCEPT ![t] = TRUE]
            /\ error' = [error EXCEPT ![t] = TRUE]
    /\ handle' = [handle EXCEPT ![t] = IF ~done[t] /\ executing[t]
                                       THEN "interrupting" ELSE "dropped"]
    /\ UNCHANGED <<terminate, tasklist, workerVars, dtor, executing, result,
                   history>>

(* m_dbcancel is the interrupt() of a database, that is                    *)
(* sqlite3_interrupt(): it aborts whatever statement runs at that moment   *)
(* and does nothing when none does.                                        *)
Interrupt(t) ==
    /\ handle[t] = "interrupting"
    /\ hit' = IF wpc = "exec" THEN hit \cup {cur} ELSE hit
    /\ handle' = [handle EXCEPT ![t] = "dropped"]
    /\ UNCHANGED <<terminate, tasklist, workerVars, dtor, taskVars,
                   connected, calls>>

-----------------------------------------------------------------------------
(* DbThread::thread() *)

LoopTest ==
    /\ wpc = "loop"
    /\ wpc' = IF terminate THEN "drain" ELSE "tested"
    /\ UNCHANGED <<terminate, tasklist, cur, dtor, handle, taskVars, history>>

WaitOrPop ==
    /\ wpc = "tested"
    /\ IF tasklist = <<>>
       THEN wpc' = "waiting" /\ UNCHANGED <<tasklist, cur>>
       ELSE TakeFront("popped")
    /\ UNCHANGED <<terminate, dtor, handle, taskVars, history>>

(* A condition variable may wake up without a signal. *)
SpuriousWakeup ==
    /\ wpc = "waiting"
    /\ wpc' = "woken"
    /\ UNCHANGED <<terminate, tasklist, cur, dtor, handle, taskVars, history>>

(* Back from the wait: an empty list sends the loop round again, and the   *)
(* mutex stays locked until m_terminate has been tested.                   *)
WakeUp ==
    /\ wpc = "woken"
    /\ IF tasklist # <<>>
       THEN TakeFront("popped")
       ELSE /\ wpc' = IF terminate THEN "drain" ELSE "tested"
            /\ UNCHANGED <<tasklist, cur>>
    /\ UNCHANGED <<terminate, dtor, handle, taskVars, history>>

(* if (!task->is_error()): no mutex is held *)
SkipOrExecute ==
    /\ wpc = "popped"
    /\ IF error[cur]
       THEN wpc' = "loop" /\ cur' = NoTask
       ELSE wpc' = "execute" /\ UNCHANGED cur
    /\ UNCHANGED <<terminate, tasklist, dtor, handle, taskVars, history>>

(* execute(): the test of m_error, *)
ExecuteTest ==
    /\ wpc = "execute"
    /\ wpc' = IF error[cur] THEN "finish" ELSE "starting"
    /\ UNCHANGED <<terminate, tasklist, cur, dtor, handle, taskVars, history>>

(* m_executing = true and the start of m_dbaction(), *)
ExecuteStart ==
    /\ wpc = "starting"
    /\ executing' = [executing EXCEPT ![cur] = TRUE]
    /\ wpc' = "exec"
    /\ UNCHANGED <<terminate, tasklist, cur, dtor, handle, done, error, slot,
                   result, history>>

(* m_dbaction() returns the elements or throws; an interrupt may come too  *)
(* late to make the statement fail, and a statement may fail without one.  *)
ActionReturns ==
    /\ wpc = "exec"
    /\ \/ result' = [result EXCEPT ![cur] = TRUE] /\ UNCHANGED error
       \/ error' = [error EXCEPT ![cur] = TRUE] /\ UNCHANGED result
    /\ wpc' = "ran"
    /\ UNCHANGED <<terminate, tasklist, cur, dtor, handle, done, executing,
                   slot, history>>

ExecuteClear ==
    /\ wpc = "ran"
    /\ executing' = [executing EXCEPT ![cur] = FALSE]
    /\ wpc' = "finish"
    /\ UNCHANGED <<terminate, tasklist, cur, dtor, handle, done, error, slot,
                   result, history>>

(* m_done = true under the mutex, which stays locked while the slots run.  *)
ExecuteDone ==
    /\ wpc = "finish"
    /\ TaskMutexFree(cur)
    /\ done' = [done EXCEPT ![cur] = TRUE]
    /\ wpc' = "notify"
    /\ UNCHANGED <<terminate, tasklist, cur, dtor, handle, error, executing,
                   slot, result, history>>

Notify ==
    /\ wpc = "notify"
    /\ calls' = [calls EXCEPT ![cur] = IF slot[cur] THEN @ + 1 ELSE @]
    /\ wpc' = "loop"
    /\ cur' = NoTask
    /\ UNCHANGED <<terminate, tasklist, dtor, handle, taskVars, hit,
                   connected>>

(* After the loop: what is still in the list is marked as failed. *)
Drain ==
    /\ wpc = "drain"
    /\ IF tasklist = <<>>
       THEN wpc' = "ended" /\ UNCHANGED <<tasklist, cur>>
       ELSE TakeFront("draining")
    /\ UNCHANGED <<terminate, dtor, handle, taskVars, history>>

(* seterror(); a task of the list is never executing, so there is nothing  *)
(* to interrupt.                                                           *)
DrainSetError ==
    /\ wpc = "draining"
    /\ TaskMutexFree(cur)
    /\ done' = [done EXCEPT ![cur] = TRUE]
    /\ error' = [error EXCEPT ![cur] = TRUE]
    /\ wpc' = "drain"
    /\ cur' = NoTask
    /\ UNCHANGED <<terminate, tasklist, dtor, handle, executing, slot, result,
                   history>>

-----------------------------------------------------------------------------
(* ~DbThread(), called by the thread that owns the Engine *)

DtorTerminate ==
    /\ dtor = "none"
    /\ terminate' = TRUE
    /\ dtor' = "set"
    /\ UNCHANGED <<tasklist, workerVars, handle, taskVars, history>>

DtorBroadcast ==
    /\ dtor = "set"
    /\ wpc' = Woken
    /\ dtor' = "join"
    /\ UNCHANGED <<terminate, tasklist, cur, handle, taskVars, history>>

DtorJoin ==
    /\ dtor = "join"
    /\ wpc = "ended"
    /\ dtor' = "joined"
    /\ UNCHANGED <<terminate, tasklist, workerVars, handle, taskVars, history>>

-----------------------------------------------------------------------------
Owner(t) == \/ QueueTest(t) \/ QueuePush(t) \/ Connect(t) \/ ConnectCall(t)
            \/ Cancel(t) \/ Interrupt(t)

Worker == \/ LoopTest \/ WaitOrPop \/ WakeUp \/ SkipOrExecute \/ ExecuteTest
          \/ ExecuteStart \/ ActionReturns \/ ExecuteClear \/ ExecuteDone
          \/ Notify \/ Drain \/ DrainSetError

Destructor == DtorTerminate \/ DtorBroadcast \/ DtorJoin

Next == \/ \E t \in Tasks : Owner(t)
        \/ Worker
        \/ SpuriousWakeup
        \/ Destructor

(* The scheduler runs every thread that can run.  A thread that has        *)
(* entered an operation finishes it; nothing forces an owner to begin one, *)
(* the Engine to be destroyed, or a wait to end without a signal.          *)
Fairness ==
    /\ WF_vars(Worker)
    /\ \A t \in Tasks : WF_vars(QueuePush(t) \/ ConnectCall(t) \/ Interrupt(t))
    /\ WF_vars(DtorBroadcast \/ DtorJoin)

Spec == Init /\ [][Next]_vars /\ Fairness

-----------------------------------------------------------------------------
(* Properties *)

(* sqlite3_interrupt() knows no task: it aborts what the database happens  *)
(* to run.  It reaches a task only if the owner of that task cancelled it, *)
(* because execute() cannot leave a task whose mutex the canceller holds.  *)
InterruptHitsCancelled == \A t \in hit : handle[t] = "dropped"

(* Owners read a result without a mutex after is_done() and !is_error():   *)
(* by then the elements have been stored.                                  *)
ResultPublished == \A t \in Tasks : done[t] /\ ~error[t] => result[t]

(* ... and neither the verdict nor the elements change under the reader    *)
(* any more: execute() has left the task, and cancel() leaves it alone.    *)
PublishedIsFinal ==
    [][\A t \in Tasks : done[t] /\ ~error[t]
         => /\ done'[t] /\ ~error'[t]
            /\ result'[t] = result[t]
            /\ ~executing'[t]]_vars

(* Once cancel() has returned, the slot does not run any more: the owner   *)
(* is free to destroy the object the slot belongs to.                      *)
NoCallAfterCancel ==
    [][\A t \in Tasks : handle[t] = "dropped" => calls'[t] = calls[t]]_vars

(* A slot runs at most once, however connect() and execute() interleave,   *)
(* and never before the task is done.                                      *)
CalledOnceWhenDone ==
    \A t \in Tasks : calls[t] > 0 => calls[t] = 1 /\ done[t]

(* seterror() runs no slot.  The only owners that are left waiting on a    *)
(* finished query are those whose query the destructor drained.            *)
UncalledOnlyAfterTerminate ==
    \A t \in Tasks :
        /\ handle[t] = "held"
        /\ connected[t]
        /\ done[t]
        /\ calls[t] = 0
        /\ ~(wpc = "notify" /\ cur = t)
        => terminate /\ error[t]

(* No task gets lost: one that queue() has accepted is in the list, in the *)
(* hands of the worker, or done.  (One whose queue() had read m_terminate  *)
(* before the destructor began may stay in the list for ever, see the      *)
(* README; it is never dropped.)                                           *)
NoTaskLost ==
    \A t \in Tasks :
        \/ handle[t] \in {"none", "queueing"}
        \/ done[t]
        \/ cur = t
        \/ InList(t)

(* Until the Engine goes away, a connected owner that does not cancel      *)
(* hears of the end of its query.                                          *)
ConnectedIsCalled ==
    \A t \in Tasks :
        handle[t] = "held" /\ connected[t]
            ~> calls[t] > 0 \/ handle[t] = "dropped" \/ terminate

(* The destructor returns unless its broadcast falls between the worker's  *)
(* test of m_terminate and its wait: the destructor does not hold m_mutex, *)
(* and then nobody wakes the worker (tested, with an empty list) any more. *)
JoinReturns ==
    dtor = "join" /\ wpc \notin {"tested", "waiting"} ~> dtor = "joined"

-----------------------------------------------------------------------------
(* The inductive invariant the theorems of EngineProofs rest on. *)

Accepted(t) == handle[t] \notin {"none", "queueing"}
InUse(t) == handle[t] \in {"held", "calling"}

(* A task is pushed once: it is in the list once or with the worker, and   *)
(* nothing has happened to it before.                                      *)
QueueInv ==
    /\ \A i, j \in 1..Len(tasklist) : tasklist[i] = tasklist[j] => i = j
    /\ \A t \in Tasks : InList(t) \/ cur = t => Accepted(t)
    /\ \A t \in Tasks : InList(t) => cur # t
    /\ \A t \in Tasks : ~Accepted(t) =>
          ~done[t] /\ ~error[t] /\ ~slot[t] /\ ~connected[t] /\ calls[t] = 0

ExecutingInv ==
    \A t \in Tasks : executing[t] => cur = t /\ wpc \in {"exec", "ran"}

InterruptInv ==
    \A t \in Tasks : handle[t] = "interrupting" =>
        cur = t /\ wpc \in {"exec", "ran", "finish"}

VerdictInv ==
    /\ wpc \in {"ran", "finish"} => error[cur] \/ result[cur]
    /\ wpc = "notify" => done[cur]
    /\ \A t \in Tasks :
          error[t] => done[t] \/ (cur = t /\ wpc \in {"ran", "finish"})
    /\ wpc \in {"drain", "draining", "ended"} => terminate

(* A task that ended by itself has left the list and the worker. *)
FinishedInv ==
    \A t \in Tasks : done[t] /\ (InUse(t) \/ ~error[t]) =>
        ~InList(t) /\ (cur = t => wpc = "notify")

CallInv ==
    \A t \in Tasks :
        /\ slot[t] <=> connected[t] /\ InUse(t)
        /\ handle[t] = "calling" =>
              done[t] /\ connected[t] /\ calls[t] = 0 /\ cur # t
        /\ calls[t] > 0 => connected[t] /\ ~InList(t) /\ cur # t

IInv == /\ TypeOK
        /\ QueueInv
        /\ ExecutingInv
        /\ InterruptInv
        /\ VerdictInv
        /\ FinishedInv
        /\ CallInv
        /\ InterruptHitsCancelled
        /\ ResultPublished
        /\ CalledOnceWhenDone
        /\ NoTaskLost
        /\ UncalledOnlyAfterTerminate

-----------------------------------------------------------------------------
(* What an owner of a query relies on: see AsyncQuery. *)

QueryStatus(t) ==
    CASE handle[t] \in {"none", "queueing"} -> "none"
      [] handle[t] \in {"interrupting", "dropped"} -> "dropped"
      [] OTHER -> IF ~done[t] THEN "pending"
                  ELSE IF error[t] THEN "failed" ELSE "ready"

Promise == INSTANCE AsyncQuery WITH
    Queries <- Tasks,
    status <- [t \in Tasks |-> QueryStatus(t)],
    listening <- {t \in Tasks : connected[t]},
    told <- calls

(* DbThread implements AsyncQuery: whatever the owners, the worker and the  *)
(* destructor do, a query ends once, and its slot is called once at most,  *)
(* by connect() or by execute() but never by both, after the end and not   *)
(* once cancel() has returned.                                             *)
ImplementsPromise == Promise!Spec
=============================================================================
