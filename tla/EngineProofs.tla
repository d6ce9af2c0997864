---------------------------- MODULE EngineProofs ----------------------------
(***************************************************************************)
(* The safety of the Engine, in four parts: its worker thread (DbThread),  *)
(* what the owner of a query sees of it (AsyncQuery), the callers that     *)
(* wait for one query after the other (QueryWait), and the lookups that    *)
(* wait for several at once (FindCoord).                                   *)
(*                                                                         *)
(* 1. All theorems about DbThread, for any set of tasks, rest on one       *)
(* inductive invariant, IInv of DbThread: besides the properties           *)
(* themselves it says that a task is pushed once and owned by the list or  *)
(* the worker (QueueInv), that m_executing means what it says and pins the *)
(* worker to a task while its mutex is held (ExecutingInv, InterruptInv),  *)
(* and what has become of a task when its flags are set (VerdictInv,       *)
(* FinishedInv, CallInv).                                                  *)
(***************************************************************************)
EXTENDS QueryWait, FindCoord, TLAPS

(* What m_tasklist.pop_front() does to a list without duplicates. *)
LEMMA TakeFrontFacts ==
    ASSUME TypeOK, QueueInv, NEW place, tasklist # <<>>, TakeFront(place)
    PROVE  \E f \in Tasks :
              /\ cur' = f
              /\ InList(f)
              /\ ~InList(f)'
              /\ \A t \in Tasks : InList(t) <=> InList(t)' \/ t = f
              /\ tasklist' \in Seq(Tasks)
              /\ \A i, j \in 1..Len(tasklist') :
                    tasklist'[i] = tasklist'[j] => i = j
<1>1. PICK f \in Tasks :
         /\ cur' = f
         /\ f = tasklist[1]
         /\ tasklist' \in Seq(Tasks)
         /\ Len(tasklist) \in Nat \ {0}
         /\ Len(tasklist') = Len(tasklist) - 1
         /\ \A i \in 1..Len(tasklist') : tasklist'[i] = tasklist[i + 1]
  BY DEF TakeFront, TypeOK
<1>2. /\ 1 \in 1..Len(tasklist)
      /\ \A i \in 1..Len(tasklist') : i + 1 \in 1..Len(tasklist) /\ i + 1 # 1
  BY <1>1
<1>3. InList(f)
  BY <1>1, <1>2 DEF InList
<1>4. ASSUME NEW t \in Tasks, InList(t), t # f PROVE InList(t)'
  <2>1. PICK i \in 1..Len(tasklist) : tasklist[i] = t
    BY <1>4 DEF InList
  <2>2. i - 1 \in 1..Len(tasklist') /\ (i - 1) + 1 = i
    BY <2>1, <1>1, <1>4
  <2>3. tasklist'[i - 1] = t
    BY <2>1, <2>2, <1>1
  <2> QED
    BY <2>2, <2>3 DEF InList
<1>5. ASSUME NEW t \in Tasks, InList(t)' PROVE InList(t)
  BY <1>5, <1>1, <1>2 DEF InList
<1>6. ~InList(f)'
  BY <1>1, <1>2 DEF InList, QueueInv
<1>7. \A i, j \in 1..Len(tasklist') : tasklist'[i] = tasklist'[j] => i = j
  BY <1>1, <1>2 DEF QueueInv
<1> QED
  BY <1>1, <1>3, <1>4, <1>5, <1>6, <1>7

-----------------------------------------------------------------------------
LEMMA InvInit == Init => IInv
<1> USE NoTaskAssumption DEF Init, TasklessStates
<1> SUFFICES ASSUME Init PROVE IInv
  OBVIOUS
<1>1. TypeOK
  <2>1. tasklist \in Seq(Tasks) /\ calls \in [Tasks -> Nat]
    OBVIOUS
  <2>2. cur = NoTask <=> wpc \in TasklessStates
    OBVIOUS
  <2> QED
    BY <2>1, <2>2 DEF TypeOK, WorkerStates, HandleStates
<1>2. QueueInv /\ FinishedInv /\ CallInv /\ CalledOnceWhenDone
  BY DEF QueueInv, FinishedInv, CallInv, CalledOnceWhenDone, InList, Accepted,
         InUse
<1>3. ExecutingInv /\ InterruptInv /\ InterruptHitsCancelled
  BY DEF ExecutingInv, InterruptInv, InterruptHitsCancelled
<1>4. VerdictInv /\ ResultPublished /\ NoTaskLost
      /\ UncalledOnlyAfterTerminate
  BY DEF VerdictInv, ResultPublished, NoTaskLost, UncalledOnlyAfterTerminate
<1> QED
  BY <1>1, <1>2, <1>3, <1>4 DEF IInv

LEMMA InvNext == IInv /\ [Next]_vars => IInv'
<1> USE NoTaskAssumption
    DEF vars, workerVars, taskVars, history
<1> SUFFICES ASSUME IInv, [Next]_vars PROVE IInv'
  OBVIOUS
<1>1. ASSUME NEW t \in Tasks, QueueTest(t) PROVE IInv'
  <2>1. CASE terminate
    <3>1. (TypeOK /\ QueueInv)'
      <4>1. TypeOK'
        BY <1>1, <2>1
        DEF IInv, TypeOK, QueueInv, TasklessStates, Accepted, WorkerStates,
            HandleStates, QueueTest
      <4>2. QueueInv'
        BY <1>1, <2>1
        DEF IInv, TypeOK, QueueInv, InList, Accepted, QueueTest
      <4> QED
        BY <4>1, <4>2
    <3>2. (ExecutingInv /\ InterruptInv /\ InterruptHitsCancelled)'
      BY <1>1, <2>1
      DEF IInv, ExecutingInv, InterruptInv, InterruptHitsCancelled, TypeOK,
          TasklessStates, QueueTest
    <3>3. VerdictInv'
      BY <1>1, <2>1
      DEF IInv, VerdictInv, TypeOK, QueueInv, TasklessStates, InList,
          Accepted, QueueTest
    <3>4. ResultPublished'
      BY <1>1, <2>1
      DEF IInv, ResultPublished, TypeOK, VerdictInv, TasklessStates,
          QueueTest
    <3>5. FinishedInv'
      BY <1>1, <2>1
      DEF IInv, FinishedInv, TypeOK, QueueInv, VerdictInv, InList, InUse,
          TasklessStates, Accepted, QueueTest
    <3>6. CallInv'
      BY <1>1, <2>1
      DEF IInv, TypeOK, QueueInv, CallInv, InList, InUse, Accepted, QueueTest
    <3>7. CalledOnceWhenDone'
      BY <1>1, <2>1
      DEF IInv, TypeOK, QueueInv, CalledOnceWhenDone, Accepted, QueueTest
    <3>8. UncalledOnlyAfterTerminate'
      <4>1. terminate' = TRUE
        BY <1>1, <2>1 DEF QueueTest
      <4>2. ASSUME NEW u \in Tasks, connected'[u]
            PROVE  u # t /\ error'[u] = error[u] /\ done'[u] = done[u]
                   /\ handle'[u] = handle[u]
        BY <1>1, <4>2 DEF IInv, TypeOK, QueueInv, Accepted, QueueTest
      <4> QED
        BY <1>1, <4>1, <4>2
        DEF IInv, QueueTest, UncalledOnlyAfterTerminate
    <3>9. NoTaskLost'
      BY <1>1, <2>1
      DEF IInv, NoTaskLost, TypeOK, QueueInv, VerdictInv, InList,
          TasklessStates, Accepted, QueueTest
    <3> QED
      BY <3>1, <3>2, <3>3, <3>4, <3>5, <3>6, <3>7, <3>8, <3>9
      DEF IInv
  <2>2. CASE ~terminate
    <3>1. (TypeOK /\ QueueInv)'
      BY <1>1, <2>2
      DEF IInv, TypeOK, QueueInv, TasklessStates, InList, Accepted,
          WorkerStates, HandleStates, QueueTest
    <3>2. (ExecutingInv /\ InterruptInv /\ InterruptHitsCancelled /\
           VerdictInv /\ ResultPublished)'
      BY <1>1, <2>2
      DEF IInv, ExecutingInv, InterruptInv, InterruptHitsCancelled,
          VerdictInv, ResultPublished, TypeOK, QueueInv, TasklessStates,
          InList, Accepted, QueueTest
    <3>3. FinishedInv'
      BY <1>1, <2>2
      DEF IInv, FinishedInv, TypeOK, QueueInv, VerdictInv, InList, InUse,
          TasklessStates, Accepted, QueueTest
    <3>4. (CallInv /\ CalledOnceWhenDone)'
      BY <1>1, <2>2
      DEF IInv, CallInv, CalledOnceWhenDone, TypeOK, QueueInv, VerdictInv,
          FinishedInv, InList, InUse, TasklessStates, Accepted, QueueTest
    <3>5. UncalledOnlyAfterTerminate'
      BY <1>1, <2>2
      DEF IInv, UncalledOnlyAfterTerminate, TypeOK, QueueInv, VerdictInv,
          CallInv, TasklessStates, InList, Accepted, InUse, QueueTest
    <3>6. NoTaskLost'
      BY <1>1, <2>2
      DEF IInv, NoTaskLost, TypeOK, InList, QueueTest
    <3> QED
      BY <3>1, <3>2, <3>3, <3>4, <3>5, <3>6 DEF IInv
  <2> QED
    BY <2>1, <2>2
<1>2. ASSUME NEW t \in Tasks, QueuePush(t) PROVE IInv'
  <2>1. (TypeOK /\ QueueInv)'
    BY <1>2
    DEF IInv, TypeOK, QueueInv, TasklessStates, InList, Accepted, Woken,
        WorkerHoldsMutex, WorkerStates, HandleStates, QueuePush
  <2>2. (ExecutingInv /\ InterruptInv /\ InterruptHitsCancelled /\
         VerdictInv /\ ResultPublished)'
    BY <1>2
    DEF IInv, ExecutingInv, InterruptInv, InterruptHitsCancelled,
        VerdictInv, ResultPublished, TypeOK, QueueInv, TasklessStates,
        InList, Accepted, Woken, WorkerHoldsMutex, QueuePush
  <2>3. FinishedInv'
    BY <1>2
    DEF IInv, FinishedInv, TypeOK, QueueInv, VerdictInv, InList, InUse,
        TasklessStates, Accepted, Woken, WorkerHoldsMutex, QueuePush
  <2>4. (CallInv /\ CalledOnceWhenDone)'
    BY <1>2
    DEF IInv, CallInv, CalledOnceWhenDone, TypeOK, QueueInv, VerdictInv,
        FinishedInv, InList, InUse, TasklessStates, Accepted, Woken,
        WorkerHoldsMutex, QueuePush
  <2>5. UncalledOnlyAfterTerminate'
    BY <1>2
    DEF IInv, UncalledOnlyAfterTerminate, TypeOK, QueueInv, VerdictInv,
        CallInv, TasklessStates, InList, Accepted, InUse, Woken,
        WorkerHoldsMutex, QueuePush
  <2>6. NoTaskLost'
    BY <1>2
    DEF IInv, NoTaskLost, TypeOK, QueueInv, VerdictInv, InList,
        TasklessStates, Accepted, Woken, WorkerHoldsMutex, QueuePush
  <2> QED
    BY <2>1, <2>2, <2>3, <2>4, <2>5, <2>6 DEF IInv
<1>3. ASSUME NEW t \in Tasks, Connect(t) PROVE IInv'
  <2>1. (TypeOK /\ QueueInv)'
    BY <1>3
    DEF IInv, TypeOK, QueueInv, TasklessStates, InList, Accepted,
        TaskMutexFree, WorkerStates, HandleStates, Connect
  <2>2. (ExecutingInv /\ InterruptInv /\ InterruptHitsCancelled /\
         VerdictInv /\ ResultPublished)'
    BY <1>3
    DEF IInv, ExecutingInv, InterruptInv, InterruptHitsCancelled,
        VerdictInv, ResultPublished, TypeOK, QueueInv, TasklessStates,
        InList, Accepted, TaskMutexFree, Connect
  <2>3. (FinishedInv /\ CallInv /\ CalledOnceWhenDone /\
         UncalledOnlyAfterTerminate /\ NoTaskLost)'
    BY <1>3
    DEF IInv, FinishedInv, CallInv, CalledOnceWhenDone,
        UncalledOnlyAfterTerminate, NoTaskLost, TypeOK, QueueInv,
        VerdictInv, InList, InUse, TasklessStates, Accepted, TaskMutexFree,
        Connect
  <2> QED
    BY <2>1, <2>2, <2>3 DEF IInv
<1>4. ASSUME NEW t \in Tasks, ConnectCall(t) PROVE IInv'
  <2>1. (TypeOK /\ QueueInv)'
    BY <1>4
    DEF IInv, TypeOK, QueueInv, TasklessStates, InList, Accepted,
        WorkerStates, HandleStates, ConnectCall
  <2>2. (ExecutingInv /\ InterruptInv /\ InterruptHitsCancelled /\
         VerdictInv /\ ResultPublished)'
    BY <1>4
    DEF IInv, ExecutingInv, InterruptInv, InterruptHitsCancelled,
        VerdictInv, ResultPublished, TypeOK, QueueInv, TasklessStates,
        InList, Accepted, ConnectCall
  <2>3. (FinishedInv /\ CallInv /\ CalledOnceWhenDone /\
         UncalledOnlyAfterTerminate /\ NoTaskLost)'
    BY <1>4
    DEF IInv, FinishedInv, CallInv, CalledOnceWhenDone,
        UncalledOnlyAfterTerminate, NoTaskLost, TypeOK, QueueInv,
        VerdictInv, InList, InUse, TasklessStates, Accepted, ConnectCall
  <2> QED
    BY <2>1, <2>2, <2>3 DEF IInv
<1>5. ASSUME NEW t \in Tasks, Cancel(t) PROVE IInv'
  <2>1. (TypeOK /\ QueueInv)'
    <3>1. TypeOK'
      BY <1>5
      DEF IInv, TypeOK, QueueInv, TasklessStates, Accepted, WorkerStates,
          HandleStates, Cancel
    <3>2. QueueInv'
      BY <1>5
      DEF IInv, TypeOK, QueueInv, InList, Accepted, Cancel
    <3> QED
      BY <3>1, <3>2
  <2>2. (ExecutingInv /\ InterruptInv /\ InterruptHitsCancelled)'
    BY <1>5
    DEF IInv, ExecutingInv, InterruptInv, InterruptHitsCancelled, TypeOK,
        TasklessStates, TaskMutexFree, Cancel
  <2>3. VerdictInv'
    BY ZenonT(40), <1>5
    DEF IInv, VerdictInv, TypeOK, TasklessStates, Cancel
  <2>4. ResultPublished'
    BY <1>5
    DEF IInv, ResultPublished, TypeOK, Cancel
  <2>5. FinishedInv'
    BY SMTT(20), <1>5
    DEF IInv, FinishedInv, TypeOK, QueueInv, VerdictInv, InList, InUse,
        TasklessStates, Accepted, TaskMutexFree, Cancel
  <2>6. (CallInv /\ CalledOnceWhenDone)'
    BY <1>5
    DEF IInv, CallInv, CalledOnceWhenDone, TypeOK, QueueInv, VerdictInv,
        FinishedInv, InList, InUse, TasklessStates, Accepted, TaskMutexFree,
        Cancel
  <2>7. UncalledOnlyAfterTerminate'
    BY <1>5
    DEF IInv, UncalledOnlyAfterTerminate, TypeOK, QueueInv, VerdictInv,
        CallInv, TasklessStates, InList, Accepted, InUse, TaskMutexFree,
        Cancel
  <2>8. NoTaskLost'
    BY <1>5
    DEF IInv, NoTaskLost, TypeOK, QueueInv, VerdictInv, InList,
        TasklessStates, Accepted, TaskMutexFree, Cancel
  <2> QED
    BY <2>1, <2>2, <2>3, <2>4, <2>5, <2>6, <2>7, <2>8 DEF IInv
<1>6. ASSUME NEW t \in Tasks, Interrupt(t) PROVE IInv'
  <2>1. (TypeOK /\ QueueInv)'
    BY <1>6
    DEF IInv, TypeOK, QueueInv, TasklessStates, InList, Accepted,
        WorkerStates, HandleStates, Interrupt
  <2>2. (ExecutingInv /\ InterruptInv /\ InterruptHitsCancelled /\
         VerdictInv /\ ResultPublished)'
    BY <1>6
    DEF IInv, ExecutingInv, InterruptInv, InterruptHitsCancelled,
        VerdictInv, ResultPublished, TypeOK, QueueInv, TasklessStates,
        InList, Accepted, Interrupt
  <2>3. (FinishedInv /\ CallInv /\ CalledOnceWhenDone /\
         UncalledOnlyAfterTerminate /\ NoTaskLost)'
    BY <1>6
    DEF IInv, FinishedInv, CallInv, CalledOnceWhenDone,
        UncalledOnlyAfterTerminate, NoTaskLost, TypeOK, QueueInv,
        VerdictInv, InList, InUse, TasklessStates, Accepted, Interrupt
  <2> QED
    BY <2>1, <2>2, <2>3 DEF IInv
<1>7. CASE LoopTest
  <2>1. (TypeOK /\ QueueInv)'
    BY <1>7
    DEF IInv, TypeOK, QueueInv, TasklessStates, InList, Accepted,
        WorkerStates, HandleStates, LoopTest
  <2>2. (ExecutingInv /\ InterruptInv /\ InterruptHitsCancelled /\
         VerdictInv /\ ResultPublished)'
    BY <1>7
    DEF IInv, ExecutingInv, InterruptInv, InterruptHitsCancelled,
        VerdictInv, ResultPublished, TypeOK, QueueInv, TasklessStates,
        InList, Accepted, LoopTest
  <2>3. (FinishedInv /\ CallInv /\ CalledOnceWhenDone /\
         UncalledOnlyAfterTerminate /\ NoTaskLost)'
    BY <1>7
    DEF IInv, FinishedInv, CallInv, CalledOnceWhenDone,
        UncalledOnlyAfterTerminate, NoTaskLost, TypeOK, QueueInv,
        VerdictInv, InList, InUse, TasklessStates, Accepted, LoopTest
  <2> QED
    BY <2>1, <2>2, <2>3 DEF IInv
<1>8. CASE WaitOrPop
  <2>1. CASE tasklist # <<>>
    <3>a. wpc' = "popped" /\ TakeFront("popped")
      BY <1>8, <2>1 DEF WaitOrPop, TakeFront
    <3>b. PICK f \in Tasks :
             /\ cur' = f
             /\ InList(f)
             /\ ~InList(f)'
             /\ \A t \in Tasks : InList(t) <=> InList(t)' \/ t = f
             /\ tasklist' \in Seq(Tasks)
             /\ \A i, j \in 1..Len(tasklist') :
                   tasklist'[i] = tasklist'[j] => i = j
      BY <2>1, <3>a, TakeFrontFacts DEF IInv
    <3>1. (TypeOK /\ QueueInv)'
      BY <1>8, <2>1, <3>a, <3>b
      DEF IInv, TypeOK, QueueInv, TasklessStates, Accepted, WorkerStates,
          HandleStates, WaitOrPop
    <3>2. (ExecutingInv /\ InterruptInv /\ InterruptHitsCancelled /\
           VerdictInv /\ ResultPublished)'
      BY <1>8, <2>1, <3>a, <3>b
      DEF IInv, ExecutingInv, InterruptInv, InterruptHitsCancelled,
          VerdictInv, ResultPublished, TypeOK, QueueInv, TasklessStates,
          Accepted, WaitOrPop
    <3>3. (FinishedInv /\ CallInv /\ CalledOnceWhenDone /\
           UncalledOnlyAfterTerminate /\ NoTaskLost)'
      BY <1>8, <2>1, <3>a, <3>b
      DEF IInv, FinishedInv, CallInv, CalledOnceWhenDone,
          UncalledOnlyAfterTerminate, NoTaskLost, TypeOK, QueueInv,
          VerdictInv, InUse, TasklessStates, Accepted, WaitOrPop
    <3> QED
      BY <3>1, <3>2, <3>3 DEF IInv
  <2>2. CASE tasklist = <<>>
    <3>1. (TypeOK /\ QueueInv)'
      BY <1>8, <2>2
      DEF IInv, TypeOK, QueueInv, TasklessStates, InList, Accepted,
          WorkerStates, HandleStates, WaitOrPop
    <3>2. (ExecutingInv /\ InterruptInv /\ InterruptHitsCancelled /\
           VerdictInv /\ ResultPublished)'
      BY <1>8, <2>2
      DEF IInv, ExecutingInv, InterruptInv, InterruptHitsCancelled,
          VerdictInv, ResultPublished, TypeOK, QueueInv, TasklessStates,
          InList, Accepted, WaitOrPop
    <3>3. (FinishedInv /\ CallInv /\ CalledOnceWhenDone /\
           UncalledOnlyAfterTerminate /\ NoTaskLost)'
      BY <1>8, <2>2
      DEF IInv, FinishedInv, CallInv, CalledOnceWhenDone,
          UncalledOnlyAfterTerminate, NoTaskLost, TypeOK, QueueInv,
          VerdictInv, InList, InUse, TasklessStates, Accepted, WaitOrPop
    <3> QED
      BY <3>1, <3>2, <3>3 DEF IInv
  <2> QED
    BY <2>1, <2>2
<1>9. CASE WakeUp
  <2>1. CASE tasklist # <<>>
    <3>a. wpc' = "popped" /\ TakeFront("popped")
      BY <1>9, <2>1 DEF WakeUp, TakeFront
    <3>b. PICK f \in Tasks :
             /\ cur' = f
             /\ InList(f)
             /\ ~InList(f)'
             /\ \A t \in Tasks : InList(t) <=> InList(t)' \/ t = f
             /\ tasklist' \in Seq(Tasks)
             /\ \A i, j \in 1..Len(tasklist') :
                   tasklist'[i] = tasklist'[j] => i = j
      BY <2>1, <3>a, TakeFrontFacts DEF IInv
    <3>1. (TypeOK /\ QueueInv)'
      BY <1>9, <2>1, <3>a, <3>b
      DEF IInv, TypeOK, QueueInv, TasklessStates, Accepted, WorkerStates,
          HandleStates, WakeUp
    <3>2. (ExecutingInv /\ InterruptInv /\ InterruptHitsCancelled /\
           VerdictInv /\ ResultPublished)'
      BY <1>9, <2>1, <3>a, <3>b
      DEF IInv, ExecutingInv, InterruptInv, InterruptHitsCancelled,
          VerdictInv, ResultPublished, TypeOK, QueueInv, TasklessStates,
          Accepted, WakeUp
    <3>3. (FinishedInv /\ CallInv /\ CalledOnceWhenDone /\
           UncalledOnlyAfterTerminate /\ NoTaskLost)'
      BY <1>9, <2>1, <3>a, <3>b
      DEF IInv, FinishedInv, CallInv, CalledOnceWhenDone,
          UncalledOnlyAfterTerminate, NoTaskLost, TypeOK, QueueInv,
          VerdictInv, InUse, TasklessStates, Accepted, WakeUp
    <3> QED
      BY <3>1, <3>2, <3>3 DEF IInv
  <2>2. CASE tasklist = <<>>
    <3>1. (TypeOK /\ QueueInv)'
      BY <1>9, <2>2
      DEF IInv, TypeOK, QueueInv, TasklessStates, InList, Accepted,
          WorkerStates, HandleStates, WakeUp
    <3>2. (ExecutingInv /\ InterruptInv /\ InterruptHitsCancelled /\
           VerdictInv /\ ResultPublished)'
      BY <1>9, <2>2
      DEF IInv, ExecutingInv, InterruptInv, InterruptHitsCancelled,
          VerdictInv, ResultPublished, TypeOK, QueueInv, TasklessStates,
          InList, Accepted, WakeUp
    <3>3. (FinishedInv /\ CallInv /\ CalledOnceWhenDone /\
           UncalledOnlyAfterTerminate /\ NoTaskLost)'
      BY <1>9, <2>2
      DEF IInv, FinishedInv, CallInv, CalledOnceWhenDone,
          UncalledOnlyAfterTerminate, NoTaskLost, TypeOK, QueueInv,
          VerdictInv, InList, InUse, TasklessStates, Accepted, WakeUp
    <3> QED
      BY <3>1, <3>2, <3>3 DEF IInv
  <2> QED
    BY <2>1, <2>2
<1>10. CASE SkipOrExecute
  <2>1. (TypeOK /\ QueueInv)'
    BY <1>10
    DEF IInv, TypeOK, QueueInv, TasklessStates, InList, Accepted,
        WorkerStates, HandleStates, SkipOrExecute
  <2>2. (ExecutingInv /\ InterruptInv /\ InterruptHitsCancelled /\
         VerdictInv /\ ResultPublished)'
    BY <1>10
    DEF IInv, ExecutingInv, InterruptInv, InterruptHitsCancelled,
        VerdictInv, ResultPublished, TypeOK, QueueInv, TasklessStates,
        InList, Accepted, SkipOrExecute
  <2>3. (FinishedInv /\ CallInv /\ CalledOnceWhenDone /\
         UncalledOnlyAfterTerminate /\ NoTaskLost)'
    BY <1>10
    DEF IInv, FinishedInv, CallInv, CalledOnceWhenDone,
        UncalledOnlyAfterTerminate, NoTaskLost, TypeOK, QueueInv,
        VerdictInv, InList, InUse, TasklessStates, Accepted, SkipOrExecute
  <2> QED
    BY <2>1, <2>2, <2>3 DEF IInv
<1>11. CASE ExecuteTest
  <2>1. (TypeOK /\ QueueInv)'
    BY <1>11
    DEF IInv, TypeOK, QueueInv, TasklessStates, InList, Accepted,
        WorkerStates, HandleStates, ExecuteTest
  <2>2. (ExecutingInv /\ InterruptInv /\ InterruptHitsCancelled /\
         VerdictInv /\ ResultPublished)'
    BY <1>11
    DEF IInv, ExecutingInv, InterruptInv, InterruptHitsCancelled,
        VerdictInv, ResultPublished, TypeOK, QueueInv, TasklessStates,
        InList, Accepted, ExecuteTest
  <2>3. (FinishedInv /\ CallInv /\ CalledOnceWhenDone /\
         UncalledOnlyAfterTerminate /\ NoTaskLost)'
    BY <1>11
    DEF IInv, FinishedInv, CallInv, CalledOnceWhenDone,
        UncalledOnlyAfterTerminate, NoTaskLost, TypeOK, QueueInv,
        VerdictInv, InList, InUse, TasklessStates, Accepted, ExecuteTest
  <2> QED
    BY <2>1, <2>2, <2>3 DEF IInv
<1>12. CASE ExecuteStart
  <2>1. (TypeOK /\ QueueInv)'
    BY <1>12
    DEF IInv, TypeOK, QueueInv, TasklessStates, InList, Accepted,
        WorkerStates, HandleStates, ExecuteStart
  <2>2. (ExecutingInv /\ InterruptInv /\ InterruptHitsCancelled /\
         VerdictInv /\ ResultPublished)'
    BY <1>12
    DEF IInv, ExecutingInv, InterruptInv, InterruptHitsCancelled,
        VerdictInv, ResultPublished, TypeOK, QueueInv, TasklessStates,
        InList, Accepted, ExecuteStart
  <2>3. (FinishedInv /\ CallInv /\ CalledOnceWhenDone /\
         UncalledOnlyAfterTerminate /\ NoTaskLost)'
    BY <1>12
    DEF IInv, FinishedInv, CallInv, CalledOnceWhenDone,
        UncalledOnlyAfterTerminate, NoTaskLost, TypeOK, QueueInv,
        VerdictInv, InList, InUse, TasklessStates, Accepted, ExecuteStart
  <2> QED
    BY <2>1, <2>2, <2>3 DEF IInv
<1>13. CASE ActionReturns
  <2>1. (TypeOK /\ QueueInv)'
    BY <1>13
    DEF IInv, TypeOK, QueueInv, TasklessStates, InList, Accepted,
        WorkerStates, HandleStates, ActionReturns
  <2>2. (ExecutingInv /\ InterruptInv /\ InterruptHitsCancelled)'
    BY <1>13
    DEF IInv, ExecutingInv, InterruptInv, InterruptHitsCancelled, TypeOK,
        ActionReturns
  <2>4. VerdictInv'
    BY <1>13
    DEF IInv, VerdictInv, TypeOK, TasklessStates, ActionReturns
  <2>5. ResultPublished'
    BY <1>13
    DEF IInv, ResultPublished, TypeOK, TasklessStates, ActionReturns
  <2>3. (FinishedInv /\ CallInv /\ CalledOnceWhenDone /\
         UncalledOnlyAfterTerminate /\ NoTaskLost)'
    BY <1>13
    DEF IInv, FinishedInv, CallInv, CalledOnceWhenDone,
        UncalledOnlyAfterTerminate, NoTaskLost, TypeOK, QueueInv,
        VerdictInv, InList, InUse, TasklessStates, Accepted, ActionReturns
  <2> QED
    BY <2>1, <2>2, <2>3, <2>4, <2>5 DEF IInv
<1>14. CASE ExecuteClear
  <2>1. (TypeOK /\ QueueInv)'
    BY <1>14
    DEF IInv, TypeOK, QueueInv, TasklessStates, InList, Accepted,
        WorkerStates, HandleStates, ExecuteClear
  <2>2. (ExecutingInv /\ InterruptInv /\ InterruptHitsCancelled /\
         VerdictInv /\ ResultPublished)'
    BY <1>14
    DEF IInv, ExecutingInv, InterruptInv, InterruptHitsCancelled,
        VerdictInv, ResultPublished, TypeOK, QueueInv, TasklessStates,
        InList, Accepted, ExecuteClear
  <2>3. (FinishedInv /\ CallInv /\ CalledOnceWhenDone /\
         UncalledOnlyAfterTerminate /\ NoTaskLost)'
    BY <1>14
    DEF IInv, FinishedInv, CallInv, CalledOnceWhenDone,
        UncalledOnlyAfterTerminate, NoTaskLost, TypeOK, QueueInv,
        VerdictInv, InList, InUse, TasklessStates, Accepted, ExecuteClear
  <2> QED
    BY <2>1, <2>2, <2>3 DEF IInv
<1>15. CASE ExecuteDone
  <2>1. (TypeOK /\ QueueInv)'
    BY <1>15
    DEF IInv, TypeOK, QueueInv, TasklessStates, InList, Accepted,
        TaskMutexFree, WorkerStates, HandleStates, ExecuteDone
  <2>2. (ExecutingInv /\ InterruptInv /\ InterruptHitsCancelled /\
         VerdictInv /\ ResultPublished)'
    BY <1>15
    DEF IInv, ExecutingInv, InterruptInv, InterruptHitsCancelled,
        VerdictInv, ResultPublished, TypeOK, QueueInv, TasklessStates,
        InList, Accepted, TaskMutexFree, ExecuteDone
  <2>3. (FinishedInv /\ CallInv /\ CalledOnceWhenDone /\
         UncalledOnlyAfterTerminate /\ NoTaskLost)'
    BY <1>15
    DEF IInv, FinishedInv, CallInv, CalledOnceWhenDone,
        UncalledOnlyAfterTerminate, NoTaskLost, TypeOK, QueueInv,
        VerdictInv, InList, InUse, TasklessStates, Accepted, TaskMutexFree,
        ExecuteDone
  <2> QED
    BY <2>1, <2>2, <2>3 DEF IInv
<1>16. CASE Notify
  <2>1. (TypeOK /\ QueueInv)'
    BY <1>16
    DEF IInv, TypeOK, QueueInv, TasklessStates, InList, Accepted,
        WorkerStates, HandleStates, Notify
  <2>2. (ExecutingInv /\ InterruptInv /\ InterruptHitsCancelled /\
         VerdictInv /\ ResultPublished)'
    BY <1>16
    DEF IInv, ExecutingInv, InterruptInv, InterruptHitsCancelled,
        VerdictInv, ResultPublished, TypeOK, QueueInv, TasklessStates,
        InList, Accepted, Notify
  <2>3. FinishedInv'
    BY <1>16
    DEF IInv, FinishedInv, TypeOK, QueueInv, VerdictInv, InList, InUse,
        TasklessStates, Accepted, Notify
  <2>4. (CallInv /\ CalledOnceWhenDone)'
    BY <1>16
    DEF IInv, CallInv, CalledOnceWhenDone, TypeOK, QueueInv, VerdictInv,
        FinishedInv, InList, InUse, TasklessStates, Accepted, Notify
  <2>5. UncalledOnlyAfterTerminate'
    BY <1>16
    DEF IInv, UncalledOnlyAfterTerminate, TypeOK, QueueInv, VerdictInv,
        CallInv, TasklessStates, InList, Accepted, InUse, Notify
  <2>6. NoTaskLost'
    BY <1>16
    DEF IInv, NoTaskLost, TypeOK, VerdictInv, InList, TasklessStates, Notify
  <2> QED
    BY <2>1, <2>2, <2>3, <2>4, <2>5, <2>6 DEF IInv
<1>17. CASE Drain
  <2>1. CASE tasklist # <<>>
    <3>a. wpc' = "draining" /\ TakeFront("draining")
      BY <1>17, <2>1 DEF Drain, TakeFront
    <3>b. PICK f \in Tasks :
             /\ cur' = f
             /\ InList(f)
             /\ ~InList(f)'
             /\ \A t \in Tasks : InList(t) <=> InList(t)' \/ t = f
             /\ tasklist' \in Seq(Tasks)
             /\ \A i, j \in 1..Len(tasklist') :
                   tasklist'[i] = tasklist'[j] => i = j
      BY <2>1, <3>a, TakeFrontFacts DEF IInv
    <3>1. (TypeOK /\ QueueInv)'
      BY <1>17, <2>1, <3>a, <3>b
      DEF IInv, TypeOK, QueueInv, TasklessStates, Accepted, WorkerStates,
          HandleStates, Drain
    <3>2. (ExecutingInv /\ InterruptInv /\ InterruptHitsCancelled /\
           VerdictInv /\ ResultPublished)'
      BY <1>17, <2>1, <3>a, <3>b
      DEF IInv, ExecutingInv, InterruptInv, InterruptHitsCancelled,
          VerdictInv, ResultPublished, TypeOK, QueueInv, TasklessStates,
          Accepted, Drain
    <3>3. (FinishedInv /\ CallInv /\ CalledOnceWhenDone /\
           UncalledOnlyAfterTerminate /\ NoTaskLost)'
      BY <1>17, <2>1, <3>a, <3>b
      DEF IInv, FinishedInv, CallInv, CalledOnceWhenDone,
          UncalledOnlyAfterTerminate, NoTaskLost, TypeOK, QueueInv,
          VerdictInv, InUse, TasklessStates, Accepted, Drain
    <3> QED
      BY <3>1, <3>2, <3>3 DEF IInv
  <2>2. CASE tasklist = <<>>
    <3>1. (TypeOK /\ QueueInv)'
      BY <1>17, <2>2
      DEF IInv, TypeOK, QueueInv, TasklessStates, InList, Accepted,
          WorkerStates, HandleStates, Drain
    <3>2. (ExecutingInv /\ InterruptInv /\ InterruptHitsCancelled /\
           VerdictInv /\ ResultPublished)'
      BY <1>17, <2>2
      DEF IInv, ExecutingInv, InterruptInv, InterruptHitsCancelled,
          VerdictInv, ResultPublished, TypeOK, QueueInv, TasklessStates,
          InList, Accepted, Drain
    <3>3. (FinishedInv /\ CallInv /\ CalledOnceWhenDone /\
           UncalledOnlyAfterTerminate /\ NoTaskLost)'
      BY <1>17, <2>2
      DEF IInv, FinishedInv, CallInv, CalledOnceWhenDone,
          UncalledOnlyAfterTerminate, NoTaskLost, TypeOK, QueueInv,
          VerdictInv, InList, InUse, TasklessStates, Accepted, Drain
    <3> QED
      BY <3>1, <3>2, <3>3 DEF IInv
  <2> QED
    BY <2>1, <2>2
<1>18. CASE DrainSetError
  <2>1. (TypeOK /\ QueueInv)'
    BY <1>18
    DEF IInv, TypeOK, QueueInv, TasklessStates, InList, Accepted,
        TaskMutexFree, WorkerStates, HandleStates, DrainSetError
  <2>2. (ExecutingInv /\ InterruptInv /\ InterruptHitsCancelled /\
         VerdictInv /\ ResultPublished)'
    BY <1>18
    DEF IInv, ExecutingInv, InterruptInv, InterruptHitsCancelled,
        VerdictInv, ResultPublished, TypeOK, QueueInv, TasklessStates,
        InList, Accepted, TaskMutexFree, DrainSetError
  <2>3. (FinishedInv /\ CallInv /\ CalledOnceWhenDone /\
         UncalledOnlyAfterTerminate /\ NoTaskLost)'
    BY <1>18
    DEF IInv, FinishedInv, CallInv, CalledOnceWhenDone,
        UncalledOnlyAfterTerminate, NoTaskLost, TypeOK, QueueInv,
        VerdictInv, InList, InUse, TasklessStates, Accepted, TaskMutexFree,
        DrainSetError
  <2> QED
    BY <2>1, <2>2, <2>3 DEF IInv
<1>19. CASE SpuriousWakeup
  <2>1. (TypeOK /\ QueueInv)'
    BY <1>19
    DEF IInv, TypeOK, QueueInv, TasklessStates, InList, Accepted,
        WorkerStates, HandleStates, SpuriousWakeup
  <2>2. (ExecutingInv /\ InterruptInv /\ InterruptHitsCancelled /\
         VerdictInv /\ ResultPublished)'
    BY <1>19
    DEF IInv, ExecutingInv, InterruptInv, InterruptHitsCancelled,
        VerdictInv, ResultPublished, TypeOK, QueueInv, TasklessStates,
        InList, Accepted, SpuriousWakeup
  <2>3. (FinishedInv /\ CallInv /\ CalledOnceWhenDone /\
         UncalledOnlyAfterTerminate /\ NoTaskLost)'
    BY <1>19
    DEF IInv, FinishedInv, CallInv, CalledOnceWhenDone,
        UncalledOnlyAfterTerminate, NoTaskLost, TypeOK, QueueInv,
        VerdictInv, InList, InUse, TasklessStates, Accepted, SpuriousWakeup
  <2> QED
    BY <2>1, <2>2, <2>3 DEF IInv
<1>20. CASE DtorTerminate
  <2>1. (TypeOK /\ QueueInv)'
    BY <1>20
    DEF IInv, TypeOK, QueueInv, TasklessStates, InList, Accepted,
        WorkerStates, HandleStates, DtorTerminate
  <2>2. (ExecutingInv /\ InterruptInv /\ InterruptHitsCancelled /\
         VerdictInv /\ ResultPublished)'
    BY <1>20
    DEF IInv, ExecutingInv, InterruptInv, InterruptHitsCancelled,
        VerdictInv, ResultPublished, TypeOK, QueueInv, TasklessStates,
        InList, Accepted, DtorTerminate
  <2>3. (FinishedInv /\ CallInv /\ CalledOnceWhenDone /\
         UncalledOnlyAfterTerminate /\ NoTaskLost)'
    BY <1>20
    DEF IInv, FinishedInv, CallInv, CalledOnceWhenDone,
        UncalledOnlyAfterTerminate, NoTaskLost, TypeOK, QueueInv,
        VerdictInv, InList, InUse, TasklessStates, Accepted, DtorTerminate
  <2> QED
    BY <2>1, <2>2, <2>3 DEF IInv
<1>21. CASE DtorBroadcast
  <2>1. (TypeOK /\ QueueInv)'
    BY <1>21
    DEF IInv, TypeOK, QueueInv, TasklessStates, InList, Accepted, Woken,
        WorkerStates, HandleStates, DtorBroadcast
  <2>2. (ExecutingInv /\ InterruptInv /\ InterruptHitsCancelled /\
         VerdictInv /\ ResultPublished)'
    BY <1>21
    DEF IInv, ExecutingInv, InterruptInv, InterruptHitsCancelled,
        VerdictInv, ResultPublished, TypeOK, QueueInv, TasklessStates,
        InList, Accepted, Woken, DtorBroadcast
  <2>3. (FinishedInv /\ CallInv /\ CalledOnceWhenDone /\
         UncalledOnlyAfterTerminate /\ NoTaskLost)'
    BY <1>21
    DEF IInv, FinishedInv, CallInv, CalledOnceWhenDone,
        UncalledOnlyAfterTerminate, NoTaskLost, TypeOK, QueueInv,
        VerdictInv, InList, InUse, TasklessStates, Accepted, Woken,
        DtorBroadcast
  <2> QED
    BY <2>1, <2>2, <2>3 DEF IInv
<1>22. CASE DtorJoin
  <2>1. (TypeOK /\ QueueInv)'
    BY <1>22
    DEF IInv, TypeOK, QueueInv, TasklessStates, InList, Accepted,
        WorkerStates, HandleStates, DtorJoin
  <2>2. (ExecutingInv /\ InterruptInv /\ InterruptHitsCancelled /\
         VerdictInv /\ ResultPublished)'
    BY <1>22
    DEF IInv, ExecutingInv, InterruptInv, InterruptHitsCancelled,
        VerdictInv, ResultPublished, TypeOK, QueueInv, TasklessStates,
        InList, Accepted, DtorJoin
  <2>3. (FinishedInv /\ CallInv /\ CalledOnceWhenDone /\
         UncalledOnlyAfterTerminate /\ NoTaskLost)'
    BY <1>22
    DEF IInv, FinishedInv, CallInv, CalledOnceWhenDone,
        UncalledOnlyAfterTerminate, NoTaskLost, TypeOK, QueueInv,
        VerdictInv, InList, InUse, TasklessStates, Accepted, DtorJoin
  <2> QED
    BY <2>1, <2>2, <2>3 DEF IInv
<1>23. CASE UNCHANGED vars
  <2>1. (TypeOK /\ QueueInv)'
    BY <1>23
    DEF IInv, TypeOK, QueueInv, TasklessStates, InList, Accepted,
        WorkerStates, HandleStates
  <2>2. (ExecutingInv /\ InterruptInv /\ InterruptHitsCancelled /\
         VerdictInv /\ ResultPublished)'
    BY <1>23
    DEF IInv, ExecutingInv, InterruptInv, InterruptHitsCancelled,
        VerdictInv, ResultPublished, TypeOK, QueueInv, TasklessStates,
        InList, Accepted
  <2>3. (FinishedInv /\ CallInv /\ CalledOnceWhenDone /\
         UncalledOnlyAfterTerminate /\ NoTaskLost)'
    BY <1>23
    DEF IInv, FinishedInv, CallInv, CalledOnceWhenDone,
        UncalledOnlyAfterTerminate, NoTaskLost, TypeOK, QueueInv,
        VerdictInv, InList, InUse, TasklessStates, Accepted
  <2> QED
    BY <2>1, <2>2, <2>3 DEF IInv
<1> QED
  BY <1>1, <1>2, <1>3, <1>4, <1>5, <1>6, <1>7, <1>8, <1>9, <1>10, <1>11, <1>12,
     <1>13, <1>14, <1>15, <1>16, <1>17, <1>18, <1>19, <1>20, <1>21, <1>22,
     <1>23
  DEF Next, Owner, Worker, Destructor

-----------------------------------------------------------------------------
(* The worker, its list and its owners keep the invariant, whatever they   *)
(* do: no fairness is needed.                                              *)
THEOREM Invariance == Spec => []IInv
  BY InvInit, InvNext, PTL DEF Spec

(* The types, and that the worker has a task exactly where it should. *)
THEOREM TypeCorrect == Spec => []TypeOK
<1>1. IInv => TypeOK
  BY DEF IInv
<1> QED
  BY <1>1, Invariance, PTL

(* sqlite3_interrupt() never reaches the statement of another owner. *)
THEOREM InterruptSafe == Spec => []InterruptHitsCancelled
<1>1. IInv => InterruptHitsCancelled
  BY DEF IInv
<1> QED
  BY <1>1, Invariance, PTL

(* is_done() and !is_error() imply that the elements are there. *)
THEOREM PublishedSafe == Spec => []ResultPublished
<1>1. IInv => ResultPublished
  BY DEF IInv
<1> QED
  BY <1>1, Invariance, PTL

(* A slot runs at most once and only for a finished query. *)
THEOREM CalledOnce == Spec => []CalledOnceWhenDone
<1>1. IInv => CalledOnceWhenDone
  BY DEF IInv
<1> QED
  BY <1>1, Invariance, PTL

(* queue() and the worker lose no query. *)
THEOREM NothingLost == Spec => []NoTaskLost
<1>1. IInv => NoTaskLost
  BY DEF IInv
<1> QED
  BY <1>1, Invariance, PTL

(* Only a query drained at shutdown leaves its listener uncalled. *)
THEOREM UncalledOnlyDrained == Spec => []UncalledOnlyAfterTerminate
<1>1. IInv => UncalledOnlyAfterTerminate
  BY DEF IInv
<1> QED
  BY <1>1, Invariance, PTL

-----------------------------------------------------------------------------
(* No callback reaches an owner that has cancelled: its slot is no longer  *)
(* in the signal, and execute() cannot be in the middle of the signal.     *)
THEOREM SilentAfterCancel == Spec => NoCallAfterCancel
<1>1. ASSUME IInv, [Next]_vars, NEW t \in Tasks, handle[t] = "dropped"
      PROVE  calls'[t] = calls[t]
  <2> USE <1>1 DEF vars, workerVars, taskVars, history
  <2>1. CASE Notify
    <3>1. ~slot[t] /\ cur \in Tasks
      BY <2>1 DEF IInv, CallInv, InUse, TypeOK, TasklessStates, Notify
    <3> QED
      BY <2>1, <3>1 DEF IInv, TypeOK, Notify
  <2>2. ASSUME NEW u \in Tasks, ConnectCall(u)
        PROVE  calls'[t] = calls[t]
    BY <2>2 DEF IInv, TypeOK, ConnectCall
  <2>3. CASE UNCHANGED calls
    BY <2>3
  <2> QED
    BY <2>1, <2>2, <2>3
    DEF Next, Owner, Worker, Destructor, QueueTest, QueuePush, Connect,
        Cancel, Interrupt, LoopTest, WaitOrPop, SpuriousWakeup, WakeUp,
        SkipOrExecute, ExecuteTest, ExecuteStart, ActionReturns,
        ExecuteClear, ExecuteDone, Drain, DrainSetError, DtorTerminate,
        DtorBroadcast, DtorJoin
<1>2. IInv /\ [Next]_vars
      => [\A t \in Tasks : handle[t] = "dropped" => calls'[t] = calls[t]]_vars
  BY <1>1
<1> QED
  BY <1>2, Invariance, PTL DEF Spec, NoCallAfterCancel

(* What a reader has seen of a finished query does not change any more. *)
THEOREM VerdictIsFinal == Spec => PublishedIsFinal
<1> DEFINE Same(t) == /\ done'[t] /\ ~error'[t]
                      /\ result'[t] = result[t]
                      /\ ~executing'[t]
<1>1. ASSUME IInv, [Next]_vars, NEW t \in Tasks, done[t] /\ ~error[t]
      PROVE  Same(t)
  <2> USE NoTaskAssumption, <1>1 DEF vars, workerVars, taskVars, history
  <2>1. /\ cur = t => wpc = "notify"
        /\ ~executing[t]
        /\ Accepted(t)
    BY DEF IInv, FinishedInv, ExecutingInv, QueueInv, InList
  <2>2. ASSUME NEW u \in Tasks, QueueTest(u) PROVE Same(t)
    BY <2>1, <2>2 DEF QueueTest, Accepted, IInv, TypeOK
  <2>3. ASSUME NEW u \in Tasks, Cancel(u) PROVE Same(t)
    BY <2>1, <2>3 DEF Cancel, IInv, TypeOK
  <2>4. CASE ExecuteStart \/ ActionReturns \/ ExecuteClear \/ ExecuteDone
             \/ DrainSetError
    BY <2>1, <2>4 DEF ExecuteStart, ActionReturns, ExecuteClear, ExecuteDone,
                      DrainSetError, IInv, TypeOK
  <2>5. CASE UNCHANGED <<done, error, result, executing>>
    BY <2>1, <2>5
  <2> QED
    BY <2>2, <2>3, <2>4, <2>5
    DEF Next, Owner, Worker, Destructor, QueuePush, Connect, ConnectCall,
        Interrupt, LoopTest, WaitOrPop, SpuriousWakeup, WakeUp,
        SkipOrExecute, ExecuteTest, Notify, Drain, DtorTerminate,
        DtorBroadcast, DtorJoin
<1>2. IInv /\ [Next]_vars
      => [\A t \in Tasks : done[t] /\ ~error[t] => Same(t)]_vars
  BY <1>1
<1> QED
  BY <1>2, Invariance, PTL DEF Spec, PublishedIsFinal

-----------------------------------------------------------------------------
(***************************************************************************)
(* 2. DbThread implements AsyncQuery, for any set of tasks.  Submitting a  *)
(* query is the push (or the refusal of a terminating Engine), finishing   *)
(* it is the worker's m_done = true, dropping it is cancel(); all other    *)
(* steps of the worker are invisible to the owner.                         *)
(***************************************************************************)

(* An Engine that starts has no query of the owner.                        *)
LEMMA RefInit == Init => Promise!Init
  BY DEF Init, Promise!Init, QueryStatus

(* Each step of the Engine is one of the promise or does not show.         *)
LEMMA RefNext == IInv /\ [Next]_vars => [Promise!Next]_(Promise!vars)
<1> DEFINE st == [t \in Tasks |-> QueryStatus(t)]
           hears == {t \in Tasks : connected[t]}
<1> USE NoTaskAssumption DEF vars, workerVars, taskVars, history
<1> SUFFICES ASSUME IInv, [Next]_vars
             PROVE  [Promise!Next]_(Promise!vars)
  OBVIOUS
<1>a. UNCHANGED st /\ UNCHANGED hears /\ UNCHANGED calls
      => UNCHANGED Promise!vars
  BY DEF Promise!vars
<1>1. ASSUME NEW t \in Tasks, QueueTest(t)
      PROVE UNCHANGED Promise!vars \/ Promise!Submit(t)
  <2>1. CASE terminate
    <3>1. st[t] = "none" /\ st' = [st EXCEPT ![t] = "failed"]
      BY <1>1, <2>1 DEF IInv, TypeOK, QueueTest, QueryStatus
    <3> QED
      BY <1>1, <3>1 DEF Promise!Submit, QueueTest
  <2>2. CASE ~terminate
    <3>1. UNCHANGED st
      BY <1>1, <2>2 DEF IInv, TypeOK, QueueTest, QueryStatus
    <3> QED
      BY <1>1, <2>2, <3>1, <1>a DEF QueueTest
  <2> QED
    BY <2>1, <2>2
<1>2. ASSUME NEW t \in Tasks, QueuePush(t) PROVE Promise!Submit(t)
  <2>1. st[t] = "none" /\ st' = [st EXCEPT ![t] = "pending"]
    BY <1>2 DEF IInv, TypeOK, QueueInv, Accepted, QueuePush, QueryStatus
  <2> QED
    BY <1>2, <2>1 DEF Promise!Submit, QueuePush
<1>3. ASSUME NEW t \in Tasks, Connect(t) PROVE Promise!Listen(t)
  <2>1. st[t] \in {"pending", "ready", "failed"} /\ UNCHANGED st
    BY <1>3 DEF IInv, TypeOK, Connect, QueryStatus
  <2>2. t \notin hears /\ hears' = hears \cup {t}
    BY <1>3 DEF IInv, TypeOK, Connect
  <2> QED
    BY <1>3, <2>1, <2>2 DEF Promise!Listen, Connect
<1>4. ASSUME NEW t \in Tasks, ConnectCall(t) PROVE Promise!Tell(t)
  <2>1. st[t] \in {"ready", "failed"} /\ UNCHANGED st
    BY <1>4 DEF IInv, TypeOK, ConnectCall, CallInv, QueryStatus
  <2>2. t \in hears /\ calls[t] = 0
    BY <1>4 DEF IInv, TypeOK, ConnectCall, CallInv
  <2> QED
    BY <1>4, <2>1, <2>2 DEF Promise!Tell, ConnectCall
<1>5. ASSUME NEW t \in Tasks, Cancel(t) PROVE Promise!Drop(t)
  <2>1. /\ st[t] \in {"pending", "ready", "failed"}
        /\ st' = [st EXCEPT ![t] = "dropped"]
    BY ZenonT(40), <1>5 DEF IInv, TypeOK, Cancel, QueryStatus
  <2> QED
    BY <1>5, <2>1 DEF Promise!Drop, Cancel
<1>6. ASSUME NEW t \in Tasks, Interrupt(t) PROVE UNCHANGED Promise!vars
  <2>1. UNCHANGED st
    BY <1>6 DEF IInv, TypeOK, Interrupt, QueryStatus
  <2> QED
    BY <1>6, <2>1, <1>a DEF Interrupt
<1>7. ASSUME ActionReturns PROVE UNCHANGED Promise!vars
  <2>1. UNCHANGED st
    <3>1. cur \in Tasks /\ (~InUse(cur) \/ ~done[cur])
      BY <1>7 DEF IInv, TypeOK, TasklessStates, FinishedInv, ActionReturns
    <3>2. ASSUME NEW t \in Tasks PROVE QueryStatus(t)' = QueryStatus(t)
      <4>1. CASE t = cur
        BY <1>7, <3>1, <4>1
        DEF IInv, QueueInv, Accepted, TypeOK, InUse, ActionReturns,
            QueryStatus, HandleStates
      <4>2. CASE t # cur
        BY <1>7, <4>2 DEF IInv, TypeOK, ActionReturns, QueryStatus
      <4> QED
        BY <4>1, <4>2
    <3> QED
      BY <3>2
  <2> QED
    BY <1>7, <2>1, <1>a DEF ActionReturns
<1>8. ASSUME ExecuteDone PROVE UNCHANGED Promise!vars \/ Promise!Next
  <2>1. PICK c \in Tasks : c = cur /\ Accepted(c)
    BY <1>8 DEF IInv, TypeOK, TasklessStates, QueueInv, ExecuteDone
  <2>2. CASE InUse(c)
    <3>1. ~done[c]
      BY <1>8, <2>1, <2>2 DEF IInv, FinishedInv, ExecuteDone
    <3>2. /\ st[c] = "pending"
          /\ \E s \in {"ready", "failed"} : st' = [st EXCEPT ![c] = s]
      BY ZenonT(40), <1>8, <2>1, <2>2, <3>1
      DEF IInv, TypeOK, InUse, ExecuteDone, QueryStatus
    <3> QED
      BY <1>8, <2>1, <3>2 DEF Promise!Next, Promise!Finish, ExecuteDone
  <2>3. CASE ~InUse(c)
    <3>1. UNCHANGED st
      BY <1>8, <2>1, <2>3
      DEF IInv, TypeOK, InUse, Accepted, HandleStates, ExecuteDone, QueryStatus
    <3> QED
      BY <1>8, <3>1, <1>a DEF ExecuteDone
  <2> QED
    BY <2>2, <2>3
<1>9. ASSUME DrainSetError PROVE UNCHANGED Promise!vars \/ Promise!Next
  <2>1. PICK c \in Tasks : c = cur /\ Accepted(c)
    BY <1>9 DEF IInv, TypeOK, TasklessStates, QueueInv, DrainSetError
  <2>2. CASE InUse(c)
    <3>1. ~done[c]
      BY <1>9, <2>1, <2>2 DEF IInv, FinishedInv, DrainSetError
    <3>2. st[c] = "pending" /\ st' = [st EXCEPT ![c] = "failed"]
      BY <1>9, <2>1, <2>2, <3>1
      DEF IInv, TypeOK, InUse, DrainSetError, QueryStatus
    <3> QED
      BY <1>9, <2>1, <3>2 DEF Promise!Next, Promise!Finish, DrainSetError
  <2>3. CASE ~InUse(c)
    <3>1. UNCHANGED st
      BY <1>9, <2>1, <2>3
      DEF IInv, TypeOK, InUse, Accepted, HandleStates, DrainSetError,
          QueryStatus
    <3> QED
      BY <1>9, <3>1, <1>a DEF DrainSetError
  <2> QED
    BY <2>2, <2>3
<1>10. ASSUME Notify PROVE UNCHANGED Promise!vars \/ Promise!Next
  <2>1. PICK c \in Tasks : c = cur /\ done[c] /\ UNCHANGED st
    BY <1>10 DEF IInv, TypeOK, TasklessStates, VerdictInv, Notify, QueryStatus
  <2>2. CASE slot[c]
    <3>1. st[c] \in {"ready", "failed"} /\ c \in hears /\ calls[c] = 0
      BY <1>10, <2>1, <2>2 DEF IInv, TypeOK, CallInv, InUse, QueryStatus
    <3>2. calls' = [calls EXCEPT ![c] = @ + 1]
      BY <1>10, <2>1, <2>2, <3>1 DEF IInv, TypeOK, Notify
    <3> QED
      BY <1>10, <2>1, <3>1, <3>2 DEF Promise!Next, Promise!Tell, Notify
  <2>3. CASE ~slot[c]
    <3>1. UNCHANGED calls
      BY <1>10, <2>1, <2>3 DEF IInv, TypeOK, Notify
    <3> QED
      BY <1>10, <2>1, <3>1, <1>a DEF Notify
  <2> QED
    BY <2>2, <2>3
<1>11. CASE UNCHANGED <<handle, done, error, connected, calls>>
  <2>1. UNCHANGED st /\ UNCHANGED hears
    BY <1>11 DEF QueryStatus
  <2> QED
    BY <1>11, <2>1, <1>a
<1>13. ASSUME NEW t \in Tasks, Owner(t)
       PROVE  UNCHANGED Promise!vars \/ Promise!Next
  BY <1>1, <1>2, <1>3, <1>4, <1>5, <1>6, <1>13 DEF Owner, Promise!Next
<1>14. CASE Worker
  <2>1. CASE ActionReturns \/ ExecuteDone \/ DrainSetError \/ Notify
    BY <1>7, <1>8, <1>9, <1>10, <2>1
  <2>2. CASE LoopTest \/ WaitOrPop \/ WakeUp \/ SkipOrExecute \/ ExecuteTest
             \/ ExecuteStart \/ ExecuteClear \/ Drain
    BY <1>11, <2>2
    DEF LoopTest, WaitOrPop, WakeUp, SkipOrExecute, ExecuteTest,
        ExecuteStart, ExecuteClear, Drain
  <2> QED
    BY <1>14, <2>1, <2>2 DEF Worker
<1>15. CASE SpuriousWakeup \/ Destructor \/ UNCHANGED vars
  BY <1>11, <1>15
  DEF SpuriousWakeup, Destructor, DtorTerminate, DtorBroadcast, DtorJoin
<1> QED
  BY <1>13, <1>14, <1>15 DEF Next

(* An owner of a query sees what AsyncQuery promises. *)
THEOREM Refinement == Spec => ImplementsPromise
  BY RefInit, RefNext, Invariance, PTL
  DEF Spec, ImplementsPromise, Promise!Spec

-----------------------------------------------------------------------------
(***************************************************************************)
(* 3. The safety of the callers that wait for a query, for any sequence of *)
(* batches and each of the three styles.  A caller only takes the steps    *)
(* DbThread allows the owner of a query, so that IInv of DbThread carries  *)
(* over (StepOfDbThread with InvNext); WaitInv adds to it what the caller  *)
(* has done to its queries, by the place where it is.                      *)
(***************************************************************************)

(* BatchesAssumption for the style of this caller. *)
LEMMA NoQueryTwice ==
    ASSUME style \in Styles,
           NEW b \in 1..Len(Batches[style]), NEW c \in 1..Len(Batches[style]),
           NEW i \in 1..Len(Batches[style][b]),
           NEW j \in 1..Len(Batches[style][c]),
           Batches[style][b][i] = Batches[style][c][j]
    PROVE  b = c /\ i = j
<1> DEFINE P == Batches[style]
<1>1. \A d, e \in 1..Len(P) : \A k \in 1..Len(P[d]), l \in 1..Len(P[e]) :
         P[d][k] = P[e][l] => d = e /\ k = l
  BY BatchesAssumption, Zenon
<1> HIDE DEF P
<1>2. /\ b \in 1..Len(P) /\ c \in 1..Len(P)
      /\ i \in 1..Len(P[b]) /\ j \in 1..Len(P[c])
      /\ P[b][i] = P[c][j]
  BY DEF P
<1>3. b = c /\ i = j
  BY <1>1, <1>2
<1> QED
  BY <1>3

LEMMA BatchFacts ==
    ASSUME style \in Styles
    PROVE
    /\ Len(Batches[style]) \in Nat \ {0}
    /\ \A b \in 1..Len(Batches[style]) :
          /\ Batches[style][b] \in Seq(Tasks)
          /\ Len(Batches[style][b]) \in Nat \ {0}
          /\ QueriesOf(style, b) \subseteq Tasks
          /\ \A i \in 1..Len(Batches[style][b]) :
                Batches[style][b][i] \in Tasks \cap QueriesOf(style, b)
    /\ \A b, c \in 1..Len(Batches[style]) : \A t \in QueriesOf(style, b) :
          t \in QueriesOf(style, c) => b = c
<1>1. Batches[style] \in Seq(Seq(Tasks)) /\ Batches[style] # <<>>
  BY BatchesAssumption
<1>2. Len(Batches[style]) \in Nat \ {0}
  BY <1>1
<1>3. ASSUME NEW b \in 1..Len(Batches[style])
      PROVE  /\ Batches[style][b] \in Seq(Tasks)
             /\ Len(Batches[style][b]) \in Nat \ {0}
             /\ QueriesOf(style, b) \subseteq Tasks
             /\ \A i \in 1..Len(Batches[style][b]) :
                   Batches[style][b][i] \in Tasks \cap QueriesOf(style, b)
  <2>1. Batches[style][b] \in Seq(Tasks) /\ Batches[style][b] # <<>>
    BY <1>1, BatchesAssumption
  <2>2. /\ Len(Batches[style][b]) \in Nat \ {0}
        /\ \A i \in 1..Len(Batches[style][b]) : Batches[style][b][i] \in Tasks
    BY <2>1
  <2> QED
    BY <2>1, <2>2 DEF QueriesOf
<1>4. ASSUME NEW b \in 1..Len(Batches[style]),
             NEW c \in 1..Len(Batches[style]),
             NEW t \in QueriesOf(style, b), t \in QueriesOf(style, c)
      PROVE  b = c
  <2>1. PICK i \in 1..Len(Batches[style][b]) : t = Batches[style][b][i]
    BY DEF QueriesOf
  <2>2. PICK j \in 1..Len(Batches[style][c]) : t = Batches[style][c][j]
    BY <1>4 DEF QueriesOf
  <2>3. Batches[style][b][i] = Batches[style][c][j]
    BY <2>1, <2>2
  <2> QED
    BY <2>3, NoQueryTwice
<1> QED
  BY <1>2, <1>3, <1>4

(* The queries of a batch are as many as its places. *)
LEMMA BatchDistinct ==
    ASSUME style \in Styles,
           NEW b \in 1..Len(Batches[style]),
           NEW i \in 1..Len(Batches[style][b]),
           NEW j \in 1..Len(Batches[style][b]),
           Batches[style][b][i] = Batches[style][b][j]
    PROVE  i = j
BY NoQueryTwice

(* The caller is an owner of queries to DbThread. *)
LEMMA StepOfDbThread == WaitTypeOK /\ [WaitNext]_waitVars => [Next]_vars
<1> SUFFICES ASSUME WaitTypeOK, [WaitNext]_waitVars PROVE [Next]_vars
  OBVIOUS
<1>1. cpc \in {"make", "connect", "calling", "cancel"} => Q \in Tasks
  BY BatchFacts DEF WaitTypeOK, Batch, Q
<1>2. CASE Make
  BY <1>1, <1>2 DEF Make, Next, Owner
<1>3. CASE ConnectSlot
  BY <1>1, <1>3 DEF ConnectSlot, Next, Owner
<1>4. CASE CallSlot
  BY <1>1, <1>4 DEF CallSlot, Next, Owner
<1>5. CASE CancelEnded
  BY <1>1, <1>5 DEF CancelEnded, Next, Owner
<1>6. CASE TestEnded \/ TestNotEnded \/ FallAsleep \/ Leave \/ CallerWakesUp
           \/ CallerSpuriousWakeup
  BY <1>6 DEF TestEnded, TestNotEnded, FallAsleep, Leave, CallerWakesUp,
              CallerSpuriousWakeup
<1>7. CASE Tell
  BY <1>7 DEF Tell, Next, Worker
<1>8. CASE WorkerAlone
  BY <1>8 DEF WorkerAlone, Next
<1>9. CASE UNCHANGED waitVars
  BY <1>9 DEF waitVars
<1> QED
  BY <1>2, <1>3, <1>4, <1>5, <1>6, <1>7, <1>8, <1>9 DEF WaitNext, Caller

(* What the worker does to the queries of an owner while the Engine lives: *)
(* it takes away none of their flags, and lets go of one that is done by   *)
(* telling.                                                                *)
LEMMA WorkerFacts ==
    ASSUME IInv, ~terminate, Worker \/ SpuriousWakeup
    PROVE  /\ UNCHANGED <<dtor, terminate, handle, connected>>
           /\ \A t \in Tasks : done[t] => done'[t]
           /\ \A t \in Tasks : done'[t] /\ cur' # t =>
                 done[t] /\ (cur = t => wpc = "notify" \/ ~InUse(t))
<1> USE DEF IInv, TypeOK, TasklessStates
<1>1. UNCHANGED <<dtor, terminate, handle, connected>>
  BY DEF Worker, SpuriousWakeup, LoopTest, WaitOrPop, WakeUp, SkipOrExecute,
         ExecuteTest, ExecuteStart, ActionReturns, ExecuteClear, ExecuteDone,
         Notify, Drain, DrainSetError, history, taskVars
<1>2. wpc \notin {"drain", "draining"}
  BY DEF VerdictInv
<1>3. CASE ExecuteDone
  BY <1>1, <1>3 DEF ExecuteDone
<1>4. CASE Notify
  BY <1>1, <1>4 DEF Notify, taskVars
<1>5. CASE SkipOrExecute
  <2>1. cur \in Tasks /\ wpc = "popped" /\ done' = done
    BY <1>5 DEF SkipOrExecute, taskVars
  <2>2. error[cur] => done[cur]
    BY <2>1 DEF VerdictInv
  <2>3. error[cur] => ~InUse(cur)
    BY <2>1, <2>2 DEF FinishedInv
  <2> QED
    BY <1>1, <2>1, <2>3, <1>5 DEF SkipOrExecute
<1>6. CASE LoopTest \/ WaitOrPop \/ WakeUp \/ SpuriousWakeup
  <2>1. cur = NoTask /\ done' = done
    BY <1>6 DEF LoopTest, WaitOrPop, WakeUp, SpuriousWakeup, taskVars
  <2> QED
    BY <1>1, <2>1, NoTaskAssumption
<1>7. CASE ExecuteTest \/ ExecuteStart \/ ActionReturns \/ ExecuteClear
  <2>1. cur' = cur /\ done' = done
    BY <1>7 DEF ExecuteTest, ExecuteStart, ActionReturns, ExecuteClear,
                taskVars
  <2> QED
    BY <1>1, <2>1
<1> QED
  BY <1>2, <1>3, <1>4, <1>5, <1>6, <1>7
  DEF Worker, Drain, DrainSetError

-----------------------------------------------------------------------------
LEMMA WaitInvInit == WaitInit => WaitInv
<1> SUFFICES ASSUME WaitInit PROVE WaitInv
  OBVIOUS
<1>1. /\ Init /\ cpc = "make" /\ bi = 1 /\ ci = 1 /\ left = QueriesOf(style, 1)
      /\ locked = FALSE /\ missed = {} /\ style \in Styles
  BY DEF WaitInit
<1>2. IInv
  BY <1>1, InvInit
<1>3. 1 \in 1..Len(Batches[style]) /\ bi \in 1..Len(Batches[style])
      /\ Len(Batch) \in Nat \ {0}
  BY <1>1, BatchFacts DEF Batch
<1>4. WaitTypeOK
  <2>1. ci \in 1..Len(Batch) + 1 /\ ci <= Len(Batch)
    BY <1>1, <1>3
  <2>2. left \cup missed \subseteq QueriesOf(style, bi)
    BY <1>1
  <2> QED
    BY <1>1, <1>3, <2>1, <2>2 DEF WaitTypeOK, CallerStates
<1>5. LockInv
  BY <1>1 DEF LockInv, Init
<1>6. HandleInv
  BY <1>1, <1>3, BatchFacts DEF HandleInv, Init, Batch
<1>7. CancelInv /\ ForgottenInv
  BY <1>1 DEF CancelInv, ForgottenInv
<1>8. GapInv
  BY <1>1 DEF GapInv, Tested
<1>9. LockClosesGap /\ ToldInGap
  BY <1>1 DEF LockClosesGap, ToldInGap, Stranded
<1> QED
  BY <1>2, <1>4, <1>5, <1>6, <1>7, <1>8, <1>9 DEF WaitInv

(* Worker steps other than telling. *)
LEMMA WorkerAloneKeepsInv == WaitInv /\ WorkerAlone => WaitInv'
<1> SUFFICES ASSUME WaitInv, WorkerAlone PROVE WaitInv'
  OBVIOUS
<1>1. /\ wpc # "notify"
      /\ UNCHANGED <<style, cpc, bi, ci, left, locked, missed>>
      /\ UNCHANGED <<dtor, terminate, handle, connected>>
      /\ \A t \in Tasks : done[t] => done'[t]
      /\ \A t \in Tasks : done'[t] /\ cur' # t =>
            done[t] /\ (cur # t \/ ~InUse(t))
  BY WorkerFacts DEF WorkerAlone, WaitInv, LockInv, callerVars
<1>2. IInv'
  BY StepOfDbThread, InvNext DEF WaitInv, WaitNext
<1>3. WaitTypeOK'
  BY <1>1 DEF WaitInv, WaitTypeOK, Batch
<1>4. LockInv'
  BY <1>1 DEF WaitInv, LockInv
<1>5. HandleInv'
  BY <1>1 DEF WaitInv, HandleInv, Batch
<1>6. CancelInv' /\ ForgottenInv'
  BY <1>1 DEF WaitInv, CancelInv, ForgottenInv, Batch, Q
<1>7. left \subseteq Tasks /\ Tested' = Tested /\ Tested \subseteq left
  BY <1>1, BatchFacts DEF WaitInv, WaitTypeOK, Tested, Batch
<1>8. \A t \in left : cpc \in {"test", "cancel", "asleep", "woken"} => InUse(t)
  BY DEF WaitInv, HandleInv, InUse
<1>9. GapInv'
  <2>1. ASSUME NEW t \in Tested, done'[t], cur' # t PROVE t \in missed
    <3>1. InUse(t) /\ t \in Tasks
      BY <1>7, <1>8 DEF Tested
    <3> QED
      BY <1>1, <2>1, <3>1 DEF WaitInv, GapInv
  <2>2. ASSUME style = "simulator", cpc = "connect",
               NEW i \in 1..Len(Batch), i < ci, done'[Batch[i]]
        PROVE  cur' = Batch[i]
    <3>1. InUse(Batch[i]) /\ Batch[i] \in Tasks
      BY <2>2, BatchFacts DEF WaitInv, WaitTypeOK, HandleInv, InUse, Batch
    <3> QED
      BY <1>1, <2>2, <3>1 DEF WaitInv, GapInv
  <2> QED
    BY <1>1, <1>7, <2>1, <2>2 DEF GapInv, Batch
<1>10. LockClosesGap'
  BY <1>1 DEF WaitInv, LockClosesGap
<1>11. ToldInGap'
  <2>1. ASSUME NEW t \in Tasks, cpc = "asleep", t \in left, done'[t], cur' # t
        PROVE  t \in missed
    BY <1>1, <1>8, <2>1 DEF WaitInv, ToldInGap, Stranded
  <2> QED
    BY <1>1, <2>1 DEF ToldInGap, Stranded
<1> QED
  BY <1>2, <1>3, <1>4, <1>5, <1>6, <1>9, <1>10, <1>11 DEF WaitInv

LEMMA TellKeepsInv == WaitInv /\ Tell => WaitInv'
<1> SUFFICES ASSUME WaitInv, Tell PROVE WaitInv'
  OBVIOUS
<1>1. /\ UNCHANGED <<style, bi, ci, left, locked>>
      /\ UNCHANGED <<dtor, terminate, handle, connected, done, slot>>
      /\ cur \in Tasks
      /\ cur' = NoTask
      /\ IF slot[cur]
         THEN /\ ~(SlotLocks(style) /\ locked)
              /\ cpc' = IF cpc = "asleep" THEN "woken" ELSE cpc
              /\ missed' = missed \cup (Tested \cap {cur})
         ELSE UNCHANGED <<cpc, missed>>
  BY DEF Tell, Notify, taskVars, WaitInv, IInv, TypeOK, TasklessStates
<1>2. IInv'
  BY StepOfDbThread, InvNext DEF WaitInv, WaitNext
<1>3. left \subseteq Tasks /\ Tested \subseteq left
      /\ left \subseteq QueriesOf(style, bi) /\ Tested' = Tested
  BY <1>1, BatchFacts DEF WaitInv, WaitTypeOK, Tested, Batch
<1>4. WaitTypeOK'
  BY <1>1, <1>3 DEF WaitInv, WaitTypeOK, Batch, CallerStates
<1>5. LockInv'
  BY <1>1 DEF WaitInv, LockInv
<1>6. HandleInv'
  BY <1>1 DEF WaitInv, HandleInv, Batch
<1>7. CancelInv' /\ ForgottenInv'
  BY <1>1 DEF WaitInv, CancelInv, ForgottenInv, Batch, Q
<1>8. \A t \in Tasks : connected[t] /\ handle[t] = "held" => slot[t]
  BY DEF WaitInv, IInv, CallInv, InUse
<1>9. GapInv'
  <2>1. ASSUME NEW t \in Tested, done[t] PROVE t \in missed'
    <3>1. t \in Tasks /\ slot[t]
      BY <1>3, <1>8 DEF WaitInv, HandleInv, Tested
    <3>2. CASE cur = t
      BY <1>1, <2>1, <3>1, <3>2
    <3>3. CASE cur # t
      BY <1>1, <2>1, <3>3 DEF WaitInv, GapInv
    <3> QED
      BY <3>2, <3>3
  <2>2. ASSUME style = "simulator", cpc' = "connect",
               NEW i \in 1..Len(Batch), i < ci, done[Batch[i]]
        PROVE  FALSE
    <3>1. cpc = "connect" /\ locked /\ SlotLocks(style)
      BY <1>1, <2>2 DEF WaitInv, LockInv, SlotLocks
    <3>2. Batch[i] \in Tasks /\ slot[Batch[i]]
      BY <1>8, <2>2, <3>1, BatchFacts
      DEF WaitInv, WaitTypeOK, HandleInv, Batch
    <3>3. cur = Batch[i]
      BY <2>2, <3>1 DEF WaitInv, GapInv
    <3> QED
      BY <1>1, <3>1, <3>2, <3>3
  <2> QED
    BY <1>1, <1>3, <2>1, <2>2 DEF GapInv, Batch
<1>10. LockClosesGap'
  <2>1. CASE Tested = {}
    BY <1>1, <2>1 DEF WaitInv, LockClosesGap
  <2>2. CASE Tested # {}
    BY <1>1, <2>2
    DEF WaitInv, WaitTypeOK, LockClosesGap, LockInv, Tested, SlotLocks, Styles
  <2> QED
    BY <2>1, <2>2
<1>11. ToldInGap'
  <2>1. ASSUME NEW t \in Tasks, cpc' = "asleep", t \in left, done[t]
        PROVE  t \in missed'
    <3>1. cpc = "asleep" /\ ~slot[cur]
      BY <1>1, <2>1
    <3>2. cur # t
      BY <1>8, <2>1, <3>1 DEF WaitInv, HandleInv
    <3> QED
      BY <1>1, <2>1, <3>1, <3>2 DEF WaitInv, ToldInGap, Stranded
  <2> QED
    BY <1>1, <2>1 DEF ToldInGap, Stranded
<1> QED
  BY <1>2, <1>4, <1>5, <1>6, <1>7, <1>9, <1>10, <1>11 DEF WaitInv

-----------------------------------------------------------------------------
(* Steps of the caller that leave DbThread alone. *)
LEMMA TestEndedKeepsInv == WaitInv /\ TestEnded => WaitInv'
<1> SUFFICES ASSUME WaitInv, TestEnded PROVE WaitInv'
  OBVIOUS
<1>1. /\ cpc = "test" /\ ci <= Len(Batch) /\ Q \in left /\ Ended(Q)
      /\ left' = left \ {Q}
      /\ Cancels(style) => cpc' = "cancel" /\ ci' = ci
      /\ ~Cancels(style) => ci' = ci + 1 /\ cpc' = "test"
      /\ UNCHANGED <<style, bi, locked, missed>>
      /\ UNCHANGED vars
  BY DEF TestEnded
<1>2. IInv'
  BY <1>1, InvNext DEF WaitInv
<1>3. /\ ci \in 1..Len(Batch) /\ Len(Batch) \in Nat \ {0}
      /\ left \subseteq QueriesOf(style, bi) /\ left \subseteq Tasks
      /\ Q = Batch[ci]
  BY <1>1, BatchFacts DEF WaitInv, WaitTypeOK, Batch, Q
<1>4. Batch' = Batch /\ (Cancels(style) => Q' = Q)
  BY <1>1 DEF Batch, Q
<1>5. UNCHANGED <<dtor, terminate, handle, connected, done, cur>>
  BY <1>1 DEF vars, workerVars, taskVars, history
<1>6. WaitTypeOK'
  BY <1>1, <1>3, <1>4 DEF WaitInv, WaitTypeOK, CallerStates
<1>7. LockInv'
  BY <1>1, <1>5 DEF WaitInv, LockInv
<1>8. HandleInv'
  BY <1>1, <1>4, <1>5 DEF WaitInv, HandleInv
<1>9. handle[Q] = "held"
  BY <1>1 DEF WaitInv, HandleInv
<1>10. CancelInv'
  BY <1>1, <1>4, <1>5, <1>9 DEF WaitInv, CancelInv
<1>11. ForgottenInv'
  BY <1>1, <1>5, <1>9 DEF WaitInv, ForgottenInv, Ended
<1>12. \A t \in Tested' : t \in Tested
  <2>1. ASSUME NEW i \in 1..ci, Batch[i] \in left', ~Cancels(style)
        PROVE  i \in 1..ci - 1
    BY <1>1, <1>3, <2>1
  <2>2. (ci + 1) - 1 = ci
    BY <1>3
  <2> QED
    BY <1>1, <1>4, <2>1, <2>2 DEF Tested
<1>13. GapInv'
  BY <1>1, <1>4, <1>5, <1>12 DEF WaitInv, GapInv
<1>14. LockClosesGap' /\ ToldInGap'
  BY <1>1 DEF WaitInv, LockClosesGap, ToldInGap, Stranded
<1> QED
  BY <1>2, <1>6, <1>7, <1>8, <1>10, <1>11, <1>13, <1>14 DEF WaitInv

LEMMA TestNotEndedKeepsInv == WaitInv /\ TestNotEnded => WaitInv'
<1> SUFFICES ASSUME WaitInv, TestNotEnded PROVE WaitInv'
  OBVIOUS
<1>1. /\ cpc = "test" /\ ci <= Len(Batch) /\ ~(Q \in left /\ Ended(Q))
      /\ ci' = ci + 1
      /\ UNCHANGED <<style, cpc, bi, left, locked, missed>>
      /\ UNCHANGED vars
  BY DEF TestNotEnded
<1>2. IInv'
  BY <1>1, InvNext DEF WaitInv
<1>3. /\ ci \in 1..Len(Batch) /\ Len(Batch) \in Nat \ {0}
      /\ Q = Batch[ci]
  BY <1>1, BatchFacts DEF WaitInv, WaitTypeOK, Batch, Q
<1>4. Batch' = Batch
  BY <1>1 DEF Batch
<1>5. UNCHANGED <<dtor, terminate, handle, connected, done, cur>>
  BY <1>1 DEF vars, workerVars, taskVars, history
<1>6. WaitTypeOK'
  BY <1>1, <1>3, <1>4 DEF WaitInv, WaitTypeOK
<1>7. LockInv' /\ HandleInv' /\ CancelInv' /\ ForgottenInv'
  BY <1>1, <1>4, <1>5
  DEF WaitInv, LockInv, HandleInv, CancelInv, ForgottenInv
<1>8. \A t \in Tested' : t \in Tested \/ (t = Q /\ t \in left)
  <2>1. \A i \in 1..(ci + 1) - 1 : i \in 1..ci - 1 \/ i = ci
    BY <1>3
  <2> QED
    BY <1>1, <1>3, <1>4, <2>1 DEF Tested
<1>9. GapInv'
  BY <1>1, <1>4, <1>5, <1>8 DEF WaitInv, GapInv, Ended
<1>10. LockClosesGap' /\ ToldInGap'
  BY <1>1 DEF WaitInv, LockClosesGap, ToldInGap, Stranded
<1> QED
  BY <1>2, <1>6, <1>7, <1>9, <1>10 DEF WaitInv

LEMMA FallAsleepKeepsInv == WaitInv /\ FallAsleep => WaitInv'
<1> SUFFICES ASSUME WaitInv, FallAsleep PROVE WaitInv'
  OBVIOUS
<1>1. /\ cpc = "test" /\ ci > Len(Batch) /\ cpc' = "asleep" /\ locked' = FALSE
      /\ UNCHANGED <<style, bi, ci, left, missed>>
      /\ UNCHANGED vars
  BY DEF FallAsleep
<1>2. IInv'
  BY <1>1, InvNext DEF WaitInv
<1>3. Batch' = Batch
  BY <1>1 DEF Batch
<1>4. UNCHANGED <<dtor, terminate, handle, connected, done, cur>>
  BY <1>1 DEF vars, workerVars, taskVars, history
<1>5. WaitTypeOK'
  BY <1>1, <1>3 DEF WaitInv, WaitTypeOK, CallerStates
<1>6. LockInv' /\ HandleInv' /\ CancelInv' /\ ForgottenInv'
  BY <1>1, <1>3, <1>4
  DEF WaitInv, LockInv, HandleInv, CancelInv, ForgottenInv
<1>7. left \subseteq Tested
  <2>1. 1..Len(Batch) \subseteq 1..ci - 1
    BY <1>1, BatchFacts DEF WaitInv, WaitTypeOK, Batch
  <2>2. left \subseteq {Batch[i] : i \in 1..Len(Batch)}
    BY DEF WaitInv, WaitTypeOK, QueriesOf, Batch
  <2> QED
    BY <1>1, <2>1, <2>2 DEF Tested
<1>8. GapInv'
  BY <1>1 DEF GapInv, Tested
<1>9. LockClosesGap'
  BY <1>1 DEF WaitInv, LockClosesGap
<1>10. ToldInGap'
  BY <1>1, <1>4, <1>7 DEF WaitInv, GapInv, ToldInGap, Stranded
<1> QED
  BY <1>2, <1>5, <1>6, <1>8, <1>9, <1>10 DEF WaitInv

LEMMA WakeUpKeepsInv ==
    WaitInv /\ (CallerWakesUp \/ CallerSpuriousWakeup) => WaitInv'
<1> SUFFICES ASSUME WaitInv, CallerWakesUp \/ CallerSpuriousWakeup
             PROVE  WaitInv'
  OBVIOUS
<1>1. /\ \/ /\ cpc = "woken" /\ cpc' = "test" /\ ci' = 1 /\ locked' = TRUE
            /\ missed' = {}
         \/ /\ cpc = "asleep" /\ cpc' = "woken"
            /\ UNCHANGED <<ci, locked, missed>>
      /\ UNCHANGED <<style, bi, left>>
      /\ UNCHANGED vars
  BY DEF CallerWakesUp, CallerSpuriousWakeup
<1>2. IInv'
  BY <1>1, InvNext DEF WaitInv
<1>3. Batch' = Batch /\ 1 \in 1..Len(Batch) + 1
  BY <1>1, BatchFacts DEF WaitInv, WaitTypeOK, Batch
<1>4. UNCHANGED <<dtor, terminate, handle, connected, done, cur>>
  BY <1>1 DEF vars, workerVars, taskVars, history
<1>5. WaitTypeOK'
  BY <1>1, <1>3 DEF WaitInv, WaitTypeOK, CallerStates
<1>6. LockInv' /\ HandleInv' /\ CancelInv' /\ ForgottenInv'
  BY <1>1, <1>3, <1>4
  DEF WaitInv, LockInv, HandleInv, CancelInv, ForgottenInv
<1>7. Tested' = {}
  BY <1>1 DEF Tested
<1>8. GapInv'
  BY <1>1, <1>7 DEF GapInv
<1>9. LockClosesGap' /\ ToldInGap'
  BY <1>1 DEF WaitInv, LockClosesGap, ToldInGap, Stranded
<1> QED
  BY <1>2, <1>5, <1>6, <1>8, <1>9 DEF WaitInv

LEMMA LeaveKeepsInv == WaitInv /\ Leave => WaitInv'
<1> SUFFICES ASSUME WaitInv, Leave PROVE WaitInv'
  OBVIOUS
<1>1. /\ cpc = "test" /\ ci > Len(Batch) /\ left = {}
      /\ locked' = FALSE /\ missed' = {} /\ style' = style
      /\ UNCHANGED vars
  BY DEF Leave
<1>2. IInv'
  BY <1>1, InvNext DEF WaitInv
<1>3. UNCHANGED <<dtor, terminate, handle, connected, done, cur>>
  BY <1>1 DEF vars, workerVars, taskVars, history
<1>4. /\ bi \in 1..Len(Batches[style]) /\ Len(Batches[style]) \in Nat
      /\ style \in Styles
  BY BatchFacts DEF WaitInv, WaitTypeOK
<1>5. CASE /\ bi < Len(Batches[style]) /\ bi' = bi + 1
           /\ cpc' = "make" /\ ci' = 1
           /\ left' = QueriesOf(style, bi + 1)
  <2>1. bi' \in 1..Len(Batches[style]) /\ (1..bi') = (1..bi) \cup {bi'}
    BY <1>4, <1>5
  <2>2. Len(Batch') \in Nat \ {0}
        /\ \A i \in 1..Len(Batch') : Batch'[i] \in QueriesOf(style, bi')
    BY <1>1, <1>4, <2>1, BatchFacts DEF Batch
  <2>3. WaitTypeOK'
    <3>1. ci' \in 1..Len(Batch') + 1 /\ ci' <= Len(Batch')
      BY <1>5, <2>2
    <3> QED
      BY <1>1, <1>4, <1>5, <2>1, <3>1 DEF WaitTypeOK, CallerStates
  <2>4. LockInv'
    BY <1>1, <1>3, <1>5 DEF WaitInv, LockInv
  <2>5. \A t \in QueriesOf(style, bi') : t \in Tasks /\ handle[t] = "none"
    <3>1. ASSUME NEW t \in QueriesOf(style, bi'), NEW b \in 1..bi
          PROVE  t \notin QueriesOf(style, b)
      <4>1. b \in 1..Len(Batches[style]) /\ b # bi'
        BY <1>4, <1>5
      <4> QED
        BY <1>4, <2>1, <4>1, BatchFacts
    <3> QED
      BY <1>4, <2>1, <3>1, BatchFacts DEF WaitInv, HandleInv
  <2>6. HandleInv'
    BY <1>1, <1>3, <1>5, <2>1, <2>2, <2>5 DEF WaitInv, HandleInv
  <2>7. CancelInv' /\ ForgottenInv'
    BY <1>1, <1>3, <1>5, <2>1 DEF WaitInv, CancelInv, ForgottenInv
  <2>8. GapInv' /\ LockClosesGap' /\ ToldInGap'
    BY <1>1, <1>5
    DEF GapInv, Tested, LockClosesGap, ToldInGap, Stranded
  <2> QED
    BY <1>2, <2>3, <2>4, <2>6, <2>7, <2>8 DEF WaitInv
<1>6. CASE cpc' = "out" /\ UNCHANGED <<bi, ci, left>>
  <2>1. Batch' = Batch
    BY <1>1, <1>6 DEF Batch
  <2>2. WaitTypeOK'
    BY <1>1, <1>6, <2>1 DEF WaitInv, WaitTypeOK, CallerStates
  <2>3. LockInv' /\ HandleInv' /\ CancelInv' /\ ForgottenInv'
    BY <1>1, <1>3, <1>6, <2>1
    DEF WaitInv, LockInv, HandleInv, CancelInv, ForgottenInv
  <2>4. GapInv' /\ LockClosesGap' /\ ToldInGap'
    BY <1>1, <1>6
    DEF GapInv, Tested, LockClosesGap, ToldInGap, Stranded
  <2> QED
    BY <1>2, <2>2, <2>3, <2>4 DEF WaitInv
<1> QED
  BY <1>5, <1>6 DEF Leave

-----------------------------------------------------------------------------
(* Steps of the caller that are steps of the owner of a query. *)
LEMMA MakeKeepsInv == WaitInv /\ Make => WaitInv'
<1> SUFFICES ASSUME WaitInv, Make PROVE WaitInv'
  OBVIOUS
<1>1. /\ cpc = "make" /\ UNCHANGED <<style, bi, left, missed>>
      /\ IF handle'[Q] # "held"
         THEN UNCHANGED <<cpc, ci, locked>>
         ELSE IF ci < Len(Batch)
         THEN ci' = ci + 1 /\ UNCHANGED <<cpc, locked>>
         ELSE cpc' = "connect" /\ ci' = 1 /\ locked' = ConnectsLocked(style)
  BY DEF Make
<1>2. IInv'
  BY StepOfDbThread, InvNext DEF WaitInv, WaitNext, Caller
<1>3. /\ ci \in 1..Len(Batch) /\ Len(Batch) \in Nat \ {0}
      /\ left \subseteq Tasks /\ Q \in Tasks /\ Q = Batch[ci] /\ Q \in left
      /\ left = QueriesOf(style, bi) /\ Batch' = Batch
      /\ \A i \in 1..Len(Batch) : Batch[i] \in Tasks /\ Batch[i] \in left
  <2>1. cpc = "make" /\ bi' = bi /\ style' = style
    BY <1>1
  <2> QED
    BY <2>1, BatchFacts DEF WaitInv, WaitTypeOK, HandleInv, Batch, Q
<1>4. \A i \in 1..Len(Batch) : i # ci => Batch[i] # Q
  BY <1>3, BatchDistinct DEF WaitInv, WaitTypeOK, Batch
<1>5. /\ UNCHANGED <<dtor, terminate, connected, done, cur>>
      /\ handle'[Q] \in {"queueing", "held"}
      /\ \A t \in Tasks : t # Q => handle'[t] = handle[t]
      /\ ~connected[Q]
  BY <1>3
  DEF Make, QueueTest, QueuePush, WaitInv, LockInv, IInv, TypeOK, taskVars,
      workerVars, history, QueueInv, Accepted
<1>6. WaitTypeOK'
  <2>1. ci' \in 1..Len(Batch) /\ cpc' \in {"make", "connect"}
    BY <1>1, <1>3
  <2>2. locked' \in BOOLEAN
    BY <1>1 DEF WaitInv, WaitTypeOK, ConnectsLocked
  <2> QED
    BY <1>1, <1>3, <2>1, <2>2 DEF WaitInv, WaitTypeOK, CallerStates
<1>7. LockInv'
  BY <1>1, <1>5 DEF WaitInv, LockInv, ConnectsLocked
<1>8. HandleInv'
  <2>1. \A t \in Tasks :
           (\A b \in 1..bi' : t \notin QueriesOf(style, b))
             => handle'[t] = "none"
    <3>1. bi \in 1..bi
      BY DEF WaitInv, WaitTypeOK
    <3> QED
      BY <1>1, <1>3, <1>5, <3>1 DEF WaitInv, HandleInv
  <2>2. CASE cpc' = "make"
    <3>1. CASE handle'[Q] = "held"
      <4>1. ci' = ci + 1
        BY <1>1, <2>2, <3>1
      <4>2. ASSUME NEW i \in 1..Len(Batch)
            PROVE  /\ i < ci' => handle'[Batch[i]] = "held"
                                 /\ ~connected'[Batch[i]]
                   /\ i >= ci' => handle'[Batch[i]] = "none"
        <5>1. CASE i = ci
          BY <1>3, <1>5, <3>1, <4>1, <5>1
        <5>2. CASE i # ci
          BY <1>1, <1>3, <1>4, <1>5, <4>1, <5>2 DEF WaitInv, HandleInv
        <5> QED
          BY <5>1, <5>2
      <4>3. \A i \in 1..Len(Batch) : i = ci' \/ i > ci' => i >= ci'
        BY <1>3, <4>1
      <4> QED
        BY <1>1, <1>3, <2>1, <2>2, <4>2, <4>3 DEF HandleInv
    <3>2. CASE handle'[Q] # "held"
      <4>1. ci' = ci /\ handle'[Q] = "queueing"
        BY <1>1, <1>5, <3>2
      <4> QED
        BY <1>1, <1>3, <1>4, <1>5, <2>1, <2>2, <4>1 DEF WaitInv, HandleInv
    <3> QED
      BY <3>1, <3>2
  <2>3. CASE cpc' = "connect"
    <3>1. ci' = 1 /\ ci = Len(Batch) /\ handle'[Q] = "held"
      BY <1>1, <1>3, <2>3
    <3>2. ASSUME NEW i \in 1..Len(Batch)
          PROVE  ~(i < ci') /\ handle'[Batch[i]] = "held"
                 /\ ~connected'[Batch[i]]
      <4>1. CASE i = ci
        BY <1>3, <1>5, <3>1, <4>1
      <4>2. CASE i # ci
        BY <1>1, <1>3, <1>4, <1>5, <3>1, <4>2 DEF WaitInv, HandleInv
      <4> QED
        BY <4>1, <4>2
    <3> QED
      BY <1>1, <1>3, <2>1, <2>3, <3>2 DEF HandleInv
  <2> QED
    BY <1>1, <2>2, <2>3
<1>9. CancelInv' /\ ForgottenInv'
  BY <1>1, <1>3, <1>5 DEF WaitInv, CancelInv, ForgottenInv
<1>10. cpc' \in {"make", "connect"}
  BY <1>1
<1>11. GapInv'
  <2>1. Tested' = {}
    BY <1>10 DEF Tested
  <2>2. cpc' = "connect" => ci' = 1
    BY <1>1
  <2>3. \A i \in 1..Len(Batch') : ~(i < 1)
    BY <1>3
  <2> QED
    BY <2>1, <2>2, <2>3 DEF GapInv
<1>12. LockClosesGap' /\ ToldInGap'
  BY <1>1, <1>10 DEF WaitInv, LockClosesGap, ToldInGap, Stranded
<1> QED
  BY <1>2, <1>6, <1>7, <1>8, <1>9, <1>11, <1>12 DEF WaitInv

(* After connect(), which has not called the slot or whose call is over.   *)
LEMMA AfterConnectKeepsInv ==
    ASSUME WaitInv, IInv', AfterConnect,
           cpc \in {"connect", "calling"},
           UNCHANGED <<style, bi, left, missed, dtor, terminate, done, cur>>,
           handle'[Q] = "held", connected'[Q],
           \A t \in Tasks : t # Q => handle'[t] = handle[t]
                                     /\ connected'[t] = connected[t],
           style = "simulator" => ~done[Q]
    PROVE  WaitInv'
<1>1. /\ ci \in 1..Len(Batch) /\ Len(Batch) \in Nat \ {0}
      /\ left \subseteq Tasks /\ Q \in Tasks /\ Q = Batch[ci] /\ Q \in left
      /\ left = QueriesOf(style, bi) /\ Batch' = Batch
      /\ \A i \in 1..Len(Batch) : Batch[i] \in Tasks /\ Batch[i] \in left
  BY BatchFacts DEF WaitInv, WaitTypeOK, HandleInv, Batch, Q
<1>2. \A i \in 1..Len(Batch) : i # ci => Batch[i] # Q
  BY <1>1, BatchDistinct DEF WaitInv, WaitTypeOK, Batch
<1>3. \/ /\ ci < Len(Batch) /\ ci' = ci + 1
         /\ cpc' = "connect" /\ locked' = locked
      \/ /\ ci = Len(Batch) /\ ci' = 1
         /\ \/ style = "simulator" /\ cpc' = "asleep" /\ locked' = FALSE
            \/ style # "simulator" /\ cpc' = "test" /\ locked' = TRUE
  BY <1>1 DEF AfterConnect
<1>4. WaitTypeOK'
  <2>1. ci' \in 1..Len(Batch) /\ cpc' \in {"connect", "asleep", "test"}
    BY <1>1, <1>3
  <2>2. locked' \in BOOLEAN
    BY <1>3 DEF WaitInv, WaitTypeOK
  <2> QED
    BY <1>1, <2>1, <2>2 DEF WaitInv, WaitTypeOK, CallerStates
<1>5. LockInv'
  BY <1>3 DEF WaitInv, LockInv
<1>6. ASSUME NEW i \in 1..Len(Batch)
      PROVE  /\ i <= ci => handle'[Batch[i]] = "held" /\ connected'[Batch[i]]
             /\ i > ci => handle'[Batch[i]] = "held" /\ ~connected'[Batch[i]]
  <2>1. CASE i = ci
    BY <1>1, <2>1
  <2>2. CASE i # ci
    BY <1>1, <1>2, <2>2 DEF WaitInv, HandleInv
  <2> QED
    BY <2>1, <2>2
<1>7. \A t \in Tasks :
         (\A b \in 1..bi' : t \notin QueriesOf(style, b))
           => handle'[t] = "none"
  <2>1. bi \in 1..bi
    BY DEF WaitInv, WaitTypeOK
  <2> QED
    BY <1>1, <2>1 DEF WaitInv, HandleInv
<1>8. CASE ci < Len(Batch)
  <2>1. ci' = ci + 1 /\ cpc' = "connect"
    BY <1>3, <1>8
  <2>2. \A i \in 1..Len(Batch) : /\ i < ci' <=> i <= ci
                                 /\ i >= ci' <=> i > ci
                                 /\ i = ci' \/ i > ci' <=> i >= ci'
    BY <1>1, <2>1
  <2>3. HandleInv'
    BY <1>1, <1>6, <1>7, <2>1, <2>2 DEF HandleInv
  <2>4. GapInv'
    <3>1. Tested' = {}
      BY <2>1 DEF Tested
    <3>2. ASSUME style = "simulator",
                 NEW i \in 1..Len(Batch), i < ci', done[Batch[i]]
          PROVE  cur = Batch[i]
      <4>1. cpc = "connect" \/ cpc = "calling"
        OBVIOUS
      <4>2. i # ci
        BY <1>1, <3>2
      <4>3. i < ci
        BY <1>1, <2>1, <3>2, <4>2
      <4>4. CASE cpc = "connect"
        BY <3>2, <4>3, <4>4 DEF WaitInv, GapInv
      <4>5. CASE cpc = "calling"
        <5>1. handle[Q] = "calling"
          BY <1>1, <4>5 DEF WaitInv, HandleInv
        <5>2. done[Q]
          BY <1>1, <5>1 DEF WaitInv, IInv, CallInv
        <5> QED
          BY <3>2, <5>2
      <4> QED
        BY <4>1, <4>4, <4>5
    <3> QED
      BY <1>1, <3>1, <3>2 DEF GapInv
  <2>5. CancelInv' /\ ForgottenInv'
    BY <1>1, <2>1 DEF WaitInv, CancelInv, ForgottenInv
  <2>6. LockClosesGap' /\ ToldInGap'
    BY <2>1 DEF WaitInv, LockClosesGap, ToldInGap, Stranded
  <2> QED
    BY <1>4, <1>5, <2>3, <2>4, <2>5, <2>6 DEF WaitInv
<1>9. CASE ci = Len(Batch)
  <2>1. ci' = 1 /\ cpc' \in {"asleep", "test"}
        /\ (cpc' = "asleep" => style = "simulator")
    BY <1>3, <1>9
  <2>2. \A t \in left : handle'[t] = "held" /\ connected'[t]
    <3>1. \A i \in 1..Len(Batch) : i <= ci
      BY <1>1, <1>9
    <3> QED
      BY <1>1, <1>6, <3>1 DEF QueriesOf, Batch
  <2>3. HandleInv'
    BY <1>7, <2>1, <2>2 DEF HandleInv
  <2>4. GapInv'
    <3>1. Tested' = {}
      BY <2>1 DEF Tested
    <3> QED
      BY <2>1, <3>1 DEF GapInv
  <2>5. CancelInv' /\ ForgottenInv'
    BY <1>1, <2>1 DEF WaitInv, CancelInv, ForgottenInv
  <2>6. LockClosesGap'
    BY DEF WaitInv, LockClosesGap
  <2>7. ToldInGap'
    <3>1. ASSUME cpc' = "asleep", NEW t \in left, done[t] PROVE cur = t
      <4>1. style = "simulator" /\ ~done[Q]
        BY <2>1, <3>1
      <4>2. PICK i \in 1..Len(Batch) : t = Batch[i]
        BY <1>1 DEF QueriesOf, Batch
      <4>3. i < ci
        BY <1>1, <1>9, <3>1, <4>1, <4>2
      <4>4. CASE cpc = "connect"
        BY <3>1, <4>1, <4>2, <4>3, <4>4 DEF WaitInv, GapInv
      <4>5. CASE cpc = "calling"
        <5>1. handle[Q] = "calling"
          BY <1>1, <4>5 DEF WaitInv, HandleInv
        <5> QED
          BY <1>1, <4>1, <5>1 DEF WaitInv, IInv, CallInv
      <4> QED
        BY <4>4, <4>5
    <3> QED
      BY <1>1, <3>1 DEF ToldInGap, Stranded
  <2> QED
    BY <1>4, <1>5, <2>3, <2>4, <2>5, <2>6, <2>7 DEF WaitInv
<1> QED
  BY <1>1, <1>8, <1>9

LEMMA ConnectSlotKeepsInv == WaitInv /\ ConnectSlot => WaitInv'
<1> SUFFICES ASSUME WaitInv, ConnectSlot PROVE WaitInv'
  OBVIOUS
<1>1. /\ cpc = "connect" /\ Connect(Q)
      /\ UNCHANGED <<style, bi, left, missed>>
      /\ handle'[Q] = "calling" =>
            cpc' = "calling" /\ UNCHANGED <<ci, locked>>
      /\ handle'[Q] # "calling" => AfterConnect
  BY DEF ConnectSlot
<1>2. IInv'
  BY StepOfDbThread, InvNext DEF WaitInv, WaitNext, Caller
<1>3. /\ ci \in 1..Len(Batch) /\ Len(Batch) \in Nat \ {0}
      /\ left \subseteq Tasks /\ Q \in Tasks /\ Q = Batch[ci] /\ Q \in left
      /\ left = QueriesOf(style, bi) /\ Batch' = Batch
      /\ \A i \in 1..Len(Batch) : Batch[i] \in Tasks /\ Batch[i] \in left
  BY <1>1, BatchFacts DEF WaitInv, WaitTypeOK, HandleInv, Batch, Q
<1>4. \A i \in 1..Len(Batch) : i # ci => Batch[i] # Q
  BY <1>3, BatchDistinct DEF WaitInv, WaitTypeOK, Batch
<1>5. /\ UNCHANGED <<dtor, terminate, done, cur>>
      /\ handle'[Q] = IF done[Q] THEN "calling" ELSE "held"
      /\ connected'[Q]
      /\ \A t \in Tasks : t # Q => handle'[t] = handle[t]
                                 /\ connected'[t] = connected[t]
  BY <1>1, <1>3 DEF Connect, WaitInv, IInv, TypeOK, workerVars
<1>6. CASE ~done[Q]
  BY <1>1, <1>2, <1>5, <1>6, AfterConnectKeepsInv
<1>7. CASE done[Q]
  <2>1. cpc' = "calling" /\ UNCHANGED <<ci, locked>> /\ handle'[Q] = "calling"
    BY <1>1, <1>5, <1>7
  <2>2. WaitTypeOK'
    BY <1>1, <1>3, <2>1 DEF WaitInv, WaitTypeOK, CallerStates
  <2>3. LockInv'
    BY <1>1, <1>5, <2>1 DEF WaitInv, LockInv
  <2>4. HandleInv'
    <3>1. bi \in 1..bi
      BY DEF WaitInv, WaitTypeOK
    <3>2. \A t \in Tasks :
             (\A b \in 1..bi : t \notin QueriesOf(style, b))
               => handle'[t] = "none"
      BY <1>3, <1>5, <3>1 DEF WaitInv, HandleInv
    <3>3. ASSUME NEW i \in 1..Len(Batch)
          PROVE  /\ i < ci => handle'[Batch[i]] = "held"
                              /\ connected'[Batch[i]]
                 /\ i = ci => handle'[Batch[i]] = "calling"
                              /\ connected'[Batch[i]]
                 /\ i > ci => handle'[Batch[i]] = "held"
                              /\ ~connected'[Batch[i]]
      <4>1. CASE i = ci
        BY <1>3, <1>5, <2>1, <4>1
      <4>2. CASE i # ci
        BY <1>1, <1>3, <1>4, <1>5, <4>2 DEF WaitInv, HandleInv
      <4> QED
        BY <4>1, <4>2
    <3> QED
      BY <1>1, <1>3, <2>1, <3>2, <3>3 DEF HandleInv
  <2>5. CancelInv' /\ ForgottenInv'
    BY <1>1, <1>3, <1>5, <2>1 DEF WaitInv, CancelInv, ForgottenInv
  <2>6. GapInv' /\ LockClosesGap' /\ ToldInGap'
    BY <1>1, <2>1
    DEF WaitInv, GapInv, Tested, LockClosesGap, ToldInGap, Stranded
  <2> QED
    BY <1>2, <2>2, <2>3, <2>4, <2>5, <2>6 DEF WaitInv
<1> QED
  BY <1>6, <1>7

LEMMA CallSlotKeepsInv == WaitInv /\ CallSlot => WaitInv'
<1> SUFFICES ASSUME WaitInv, CallSlot PROVE WaitInv'
  OBVIOUS
<1>1. /\ cpc = "calling" /\ ~(SlotLocks(style) /\ locked) /\ ConnectCall(Q)
      /\ AfterConnect
      /\ UNCHANGED <<style, bi, left, missed>>
  BY DEF CallSlot
<1>2. IInv'
  BY StepOfDbThread, InvNext DEF WaitInv, WaitNext, Caller
<1>3. Q \in Tasks /\ Q = Batch[ci] /\ ci \in 1..Len(Batch)
  BY <1>1, BatchFacts DEF WaitInv, WaitTypeOK, Batch, Q
<1>4. connected[Q]
  BY <1>1, <1>3 DEF WaitInv, HandleInv
<1>5. /\ UNCHANGED <<dtor, terminate, done, cur, connected>>
      /\ handle'[Q] = "held"
      /\ \A t \in Tasks : t # Q => handle'[t] = handle[t]
  BY <1>1, <1>3
  DEF ConnectCall, WaitInv, IInv, TypeOK, taskVars, workerVars
<1>6. style # "simulator"
  BY <1>1 DEF WaitInv, LockInv, SlotLocks
<1> QED
  BY <1>1, <1>2, <1>4, <1>5, <1>6, AfterConnectKeepsInv

LEMMA CancelEndedKeepsInv == WaitInv /\ CancelEnded => WaitInv'
<1> SUFFICES ASSUME WaitInv, CancelEnded PROVE WaitInv'
  OBVIOUS
<1>1. /\ cpc = "cancel" /\ (Cancel(Q) \/ Interrupt(Q))
      /\ IF handle'[Q] = "dropped"
         THEN cpc' = "test" /\ ci' = ci + 1
         ELSE UNCHANGED <<cpc, ci>>
      /\ UNCHANGED <<style, bi, left, locked, missed>>
  BY DEF CancelEnded
<1>2. IInv'
  BY StepOfDbThread, InvNext DEF WaitInv, WaitNext, Caller
<1>3. /\ ci \in 1..Len(Batch) /\ Len(Batch) \in Nat \ {0}
      /\ left \subseteq Tasks /\ Q \in Tasks /\ Q = Batch[ci]
      /\ Q \in QueriesOf(style, bi) /\ bi \in 1..bi /\ Batch' = Batch
      /\ Q \notin left /\ Cancels(style)
  BY <1>1, BatchFacts DEF WaitInv, WaitTypeOK, CancelInv, Batch, Q
<1>4. /\ UNCHANGED <<dtor, terminate, cur, connected>>
      /\ handle'[Q] \in {"interrupting", "dropped"}
      /\ \A t \in Tasks : t # Q => handle'[t] = handle[t]
                                 /\ done'[t] = done[t]
  BY <1>1, <1>3
  DEF Cancel, Interrupt, WaitInv, IInv, TypeOK, taskVars, workerVars, history
<1>5. WaitTypeOK'
  <2>1. ci' \in 1..Len(Batch) + 1 /\ (cpc' = "cancel" => ci' <= Len(Batch))
        /\ cpc' \in {"cancel", "test"}
    BY <1>1, <1>3
  <2> QED
    BY <1>1, <1>3, <2>1 DEF WaitInv, WaitTypeOK, CallerStates
<1>6. LockInv'
  BY <1>1, <1>4 DEF WaitInv, LockInv
<1>7. HandleInv'
  BY <1>1, <1>3, <1>4 DEF WaitInv, HandleInv
<1>8. CancelInv'
  <2>1. cpc' = "cancel" => Q' = Q /\ handle'[Q] = "interrupting"
    BY <1>1, <1>3, <1>4 DEF Q
  <2>2. cpc' # "cancel" => handle'[Q] = "dropped"
    BY <1>1
  <2> QED
    BY <1>1, <1>3, <1>4, <2>1, <2>2 DEF WaitInv, CancelInv
<1>9. ForgottenInv'
  BY <1>1, <1>3 DEF Cancels, ForgottenInv
<1>10. Tested' = Tested
  <2>1. (ci + 1) - 1 = ci /\ \A i \in 1..ci : i \in 1..ci - 1 \/ i = ci
    BY <1>3
  <2>2. (1..ci - 1) \subseteq (1..ci)
    BY <1>3
  <2>3. left \cap {Batch[i] : i \in 1..ci}
          = left \cap {Batch[i] : i \in 1..ci - 1}
    BY <1>3, <2>1, <2>2
  <2> QED
    BY <1>1, <1>3, <2>1, <2>3 DEF Tested
<1>11. GapInv'
  BY <1>1, <1>3, <1>4, <1>10 DEF WaitInv, GapInv, Tested
<1>12. LockClosesGap' /\ ToldInGap'
  BY <1>1 DEF WaitInv, LockClosesGap, ToldInGap, Stranded
<1> QED
  BY <1>2, <1>5, <1>6, <1>7, <1>8, <1>9, <1>11, <1>12 DEF WaitInv

LEMMA WaitInvNext == WaitInv /\ [WaitNext]_waitVars => WaitInv'
<1> SUFFICES ASSUME WaitInv, [WaitNext]_waitVars PROVE WaitInv'
  OBVIOUS
<1>1. CASE UNCHANGED waitVars
  <2>1. UNCHANGED vars /\ UNCHANGED callerVars
    BY <1>1 DEF waitVars
  <2>2. IInv'
    BY <2>1, InvNext DEF WaitInv
  <2>3. UNCHANGED <<dtor, terminate, handle, connected, done, cur>>
    BY <2>1 DEF vars, workerVars, taskVars, history
  <2>4. UNCHANGED <<style, cpc, bi, ci, left, locked, missed>>
    BY <2>1 DEF callerVars
  <2>5. Batch' = Batch /\ Q' = Q /\ Tested' = Tested
    BY <2>4 DEF Batch, Q, Tested
  <2>6. (WaitTypeOK /\ LockInv /\ HandleInv)'
    BY <2>3, <2>4, <2>5 DEF WaitInv, WaitTypeOK, LockInv, HandleInv
  <2>7. (CancelInv /\ ForgottenInv /\ GapInv)'
    BY <2>3, <2>4, <2>5 DEF WaitInv, CancelInv, ForgottenInv, GapInv
  <2>8. (LockClosesGap /\ ToldInGap)'
    BY <2>3, <2>4 DEF WaitInv, LockClosesGap, ToldInGap, Stranded
  <2> QED
    BY <2>2, <2>6, <2>7, <2>8 DEF WaitInv
<1> QED
  BY <1>1, MakeKeepsInv, ConnectSlotKeepsInv, CallSlotKeepsInv,
     TestEndedKeepsInv, TestNotEndedKeepsInv, CancelEndedKeepsInv,
     FallAsleepKeepsInv, LeaveKeepsInv, WakeUpKeepsInv, TellKeepsInv,
     WorkerAloneKeepsInv
  DEF WaitNext, Caller

-----------------------------------------------------------------------------
(* WaitInv is an invariant. *)
THEOREM WaitInvariance == WaitSpec => []WaitInv
BY WaitInvInit, WaitInvNext, PTL DEF WaitSpec

(* The types, and that the places and batches of the caller exist. *)
THEOREM WaitTypeCorrect == WaitSpec => []WaitTypeOK
<1>1. WaitInv => WaitTypeOK
  BY DEF WaitInv
<1> QED
  BY <1>1, WaitInvariance, PTL

(* A caller is stranded only where its slot takes no mutex, and only by    *)
(* queries that were told of between their test and its sleep.             *)
THEOREM NobodyElseStranded == WaitSpec => []StrandedOnlyInGap
<1>1. WaitInv => StrandedOnlyInGap
  BY DEF WaitInv, ToldInGap, LockClosesGap, StrandedOnlyInGap
<1> QED
  BY <1>1, WaitInvariance, PTL

(* No slot of fix_invalid_altitudes() is left when it returns. *)
THEOREM Quiet == WaitSpec => []QuietWhenOut
<1>1. WaitInv => QuietWhenOut
  <2> SUFFICES ASSUME WaitInv, style = "altitudes", cpc = "out",
                      NEW t \in Tasks
               PROVE  ~slot[t]
    BY DEF QuietWhenOut
  <2>1. left = {}
    BY DEF WaitInv, HandleInv
  <2>2. handle[t] \in {"dropped", "none"}
    BY <2>1 DEF WaitInv, CancelInv, HandleInv, Cancels
  <2> QED
    BY <2>2 DEF WaitInv, IInv, CallInv, InUse
<1> QED
  BY <1>1, WaitInvariance, PTL

(* When Profile is gone, only the slot the worker is about to run is left. *)
THEOREM OnlyTheLast == WaitSpec => []OnlyTheLastIsTold
<1>1. WaitInv => OnlyTheLastIsTold
  <2> SUFFICES ASSUME WaitInv, style = "profile", cpc = "out",
                      NEW t \in Tasks, slot[t], calls[t] = 0
               PROVE  cur = t /\ wpc = "notify"
    BY DEF OnlyTheLastIsTold
  <2>1. left = {}
    BY DEF WaitInv, HandleInv
  <2>2. connected[t] /\ InUse(t)
    BY DEF WaitInv, IInv, CallInv
  <2>3. done[t] /\ handle[t] = "held"
    BY <2>1, <2>2 DEF WaitInv, ForgottenInv, HandleInv, InUse
  <2>4. ~terminate
    BY DEF WaitInv, LockInv
  <2> QED
    BY <2>2, <2>3, <2>4 DEF WaitInv, IInv, UncalledOnlyAfterTerminate
<1> QED
  BY <1>1, WaitInvariance, PTL

-----------------------------------------------------------------------------
(***************************************************************************)
(* 4. FindCoord, for any sets of kinds and any number of lookups.  What a  *)
(* lookup returns is put together kind by kind while the queries of other  *)
(* kinds are still running and while late slots of earlier lookups wake    *)
(* the thread: the invariant is about one kind at a time, in the two       *)
(* situations it can be in.                                                *)
(***************************************************************************)
Submitted(p) == status[Query(p)] # "none"
Of(k) == {p \in Places : p[1] = k}
InFlight(k) == ref \cap Of(k) # {}

(* Where the thread is says what is in todo, and that a lookup has begun.  *)
Placed ==
    /\ pc \in {"idle", "waiting", "woken", "gone"} => todo = {}
    /\ pc = "start" => todo \subseteq Places
    /\ pc = "connect" => todo \subseteq ref
    /\ pc = "scan" => todo \subseteq Kinds
    /\ pc \in {"idle", "gone"} => ref = {}
    /\ finds = 0 => /\ pc \in {"idle", "gone"}
                    /\ elements = [k \in Kinds |-> NoQuery]
                    /\ altUsed = {}

(* Later lookups have not made queries, earlier ones wait for none: a      *)
(* query that is pending is one of this lookup and its pointer is set.     *)
Accounted ==
    \A i \in 1..MaxFinds, p \in Places :
        /\ i > finds => status[<<i, p>>] = "none"
        /\ status[<<i, p>>] = "pending" => i = finds /\ p \in ref
        /\ <<i, p>> \in listening => status[<<i, p>>] # "none"
        /\ status[<<i, p>>] # "dropped"

(* A slot that is connected and has not run belongs to a query that is not *)
(* done, or to the one whose slots are running; only a query that ended    *)
(* without an error has found anything.                                    *)
Telling ==
    /\ telling # NoQuery => Done(telling)
    /\ \A q \in Untold : Done(q) => q = telling
    /\ \A q \in found : status[q] = "ready"

(* While a pointer is set the list is empty; all queries of the kind that  *)
(* were made have theirs set, since they are looked at together.           *)
Unseen(k) ==
    /\ k \notin Kept => elements[k] = NoQuery
    /\ k \notin altUsed
    /\ \A p \in Of(k) : Submitted(p) => p \in ref

(* Afterwards the list holds what the query by ident found, or the one by  *)
(* name where the first one failed or was not made.                        *)
Seen(k) ==
    /\ \A p \in Of(k) : Query(p) \in found =>
          \/ elements[k] = Query(p)
          \/ p[2] = "alt" /\ status[Query(<<k, "main">>)] = "ready"
    /\ k \notin Kept /\ elements[k] # NoQuery =>
          \E p \in Of(k) : Query(p) \in found /\ elements[k] = Query(p)
    /\ k \in Paired => (k \in altUsed <=>
          /\ status[Query(<<k, "alt">>)] = "ready"
          /\ status[Query(<<k, "main">>)] # "ready")

KindByKind ==
    finds > 0 =>
        /\ \A k \in Kinds : IF InFlight(k) THEN Unseen(k) ELSE Seen(k)
        /\ \A p \in ref : Submitted(p)
        /\ pc = "start" => \A p \in Places : Submitted(p) => p \in ref

FindInv == /\ FindTypeOK
        /\ Placed
        /\ Accounted
        /\ Telling
        /\ KindByKind

(* The parts of a place.                                                   *)
LEMMA PlaceParts ==
    ASSUME NEW p \in Places
    PROVE  p[1] \in Kinds /\ p = <<p[1], p[2]>> /\ p \in Of(p[1])
  BY DEF Places, Kinds, Of

(* A query is one of a lookup and a place.                                 *)
LEMMA QueryParts ==
    ASSUME NEW q \in Queries
    PROVE  q[1] \in 1..MaxFinds /\ q[2] \in Places /\ q = <<q[1], q[2]>>
  BY DEF Queries

(* Queries of different lookups or places are different ones.              *)
LEMMA QueriesDiffer ==
    /\ \A i \in 1..MaxFinds, p \in Places : <<i, p>> \in Queries
    /\ \A i, j \in 1..MaxFinds, p, r \in Places :
         <<i, p>> = <<j, r>> => i = j /\ p = r
  BY DEF Queries

(* Every lookup starts queries of places.                                  *)
LEMMA LookupPlaces == \A ps \in Lookups : ps \subseteq Places
<1>1. \A ks \in SUBSET Kinds :
          /\ MainOf(ks) \subseteq Places /\ AltOf(ks) \subseteq Places
          /\ MainOf(ks \cap Paired) \subseteq Places
          /\ MainOf(ks \cap Single) \subseteq Places
  BY DEF MainOf, AltOf, Places
<1>2. \A ks \in SUBSET Kinds, b \in BOOLEAN, c \in BOOLEAN :
          ByName(ks, b, c) \cup ByIdent(ks, b, c) \subseteq Places
  BY <1>1 DEF ByName, ByIdent, If
<1>3. \A k \in Alone : MainOf({k}) \subseteq Places
  BY <1>1, KindAssumption DEF Kinds
<1> SUFFICES ASSUME NEW ps \in Lookups PROVE ps \subseteq Places
  OBVIOUS
<1>4. \/ \E ks \in SUBSET (Kinds \ Alone) : \E b, c \in BOOLEAN :
            ps = ByName(ks, b, c) \/ ps = ByIdent(ks, b, c)
      \/ \E k \in Alone : ps = MainOf({k})
  BY SMT DEF Lookups
<1>5. ASSUME NEW ks \in SUBSET (Kinds \ Alone),
             NEW b \in BOOLEAN, NEW c \in BOOLEAN,
             ps = ByName(ks, b, c) \/ ps = ByIdent(ks, b, c)
      PROVE  ps \subseteq Places
  BY <1>2, <1>5
<1> QED BY <1>3, <1>4, <1>5

(* The invariant of a lookup that is made of many queries.                 *)
THEOREM FindCoordInvariant == FindSpec => []FindInv
<1> USE KindAssumption
<1>0. FindInit => FindInv
  <2> SUFFICES ASSUME FindInit PROVE FindInv
    OBVIOUS
  <2>1. FindTypeOK
    <3>1. elements \in [Kinds -> Queries \cup {NoQuery}]
      BY DEF FindInit
    <3>2. Engine!TypeOK
      BY DEF FindInit, Engine!Init, Engine!TypeOK, Engine!Statuses
    <3> QED BY <3>1, <3>2 DEF FindInit, FindTypeOK
  <2>2. Placed /\ KindByKind
    BY DEF FindInit, Placed, KindByKind
  <2>3. Accounted
    BY QueriesDiffer DEF FindInit, Engine!Init, Accounted
  <2>4. Telling
    BY DEF FindInit, Engine!Init, Telling, Untold
  <2> QED BY <2>1, <2>2, <2>3, <2>4 DEF FindInv
<1>1. ASSUME FindInv, NEW ps \in Lookups, Begin(ps) PROVE FindInv'
  <2>0. /\ finds \in 0..MaxFinds /\ finds < MaxFinds /\ finds' = finds + 1
        /\ ref = {} /\ ref' = {} /\ altUsed' = {}
        /\ UNCHANGED <<status, listening, told, telling, found>>
        /\ todo' = ps /\ pc' = "start"
        /\ elements' = [k \in Kinds |->
                           IF k \in Kept THEN elements[k] ELSE NoQuery]
    BY <1>1 DEF FindInv, FindTypeOK, Placed, Begin, engineVars
  <2>a. finds' \in 1..MaxFinds /\ finds' > finds
    BY <2>0
  <2>b. \A p \in Places : status[<<finds', p>>] = "none"
    BY <1>1, <2>a DEF FindInv, Accounted
  <2>1. FindTypeOK'
    <3>1. elements' \in [Kinds -> Queries \cup {NoQuery}]
      BY <1>1, <2>0 DEF FindInv, FindTypeOK
    <3>2. todo' \in SUBSET (Places \cup Kinds)
      BY <2>0, LookupPlaces
    <3> QED
      BY <1>1, <2>0, <2>a, <3>1, <3>2 DEF FindInv, FindTypeOK, Engine!TypeOK
  <2>2. Placed'
    BY <2>0, <2>a, LookupPlaces DEF Placed
  <2>3. Accounted'
    <3> SUFFICES ASSUME NEW i \in 1..MaxFinds, NEW r \in Places
                 PROVE  /\ i > finds' => status[<<i, r>>] = "none"
                        /\ status[<<i, r>>] # "pending"
                        /\ <<i, r>> \in listening =>
                             status[<<i, r>>] # "none"
                        /\ status[<<i, r>>] # "dropped"
      BY <2>0 DEF Accounted
    <3>1. i > finds' => i > finds
      BY <2>0
    <3> QED BY <1>1, <2>0, <3>1 DEF FindInv, Accounted
  <2>4. Telling'
    BY <1>1, <2>0 DEF FindInv, Telling, Untold, Done
  <2>5. KindByKind'
    <3>1. \A k \in Kinds : ~InFlight(k)'
      BY <2>0 DEF InFlight
    <3>2. ASSUME NEW k \in Kinds PROVE Seen(k)'
      <4>1. \A p \in Of(k) : <<finds', p>> \notin found
        BY <1>1, <2>b DEF FindInv, Telling, Of
      <4>2. k \in Paired => <<k, "alt">> \in Places
        BY DEF Places
      <4>3. k \in Paired => status[<<finds', <<k, "alt">>>>] # "ready"
        BY <2>b, <4>2
      <4> QED BY <2>0, <4>1, <4>3 DEF Seen, Of, Query
    <3>3. \A p \in Places : ~Submitted(p)'
      BY <2>b, <2>0 DEF Submitted, Query
    <3> QED BY <2>0, <3>1, <3>2, <3>3 DEF KindByKind
  <2> QED BY <2>1, <2>2, <2>3, <2>4, <2>5 DEF FindInv
<1>2. ASSUME FindInv, NEW p \in Places, Start(p) PROVE FindInv'
  <2>0. /\ pc = "start" /\ pc' = "start" /\ p \in todo /\ todo' = todo \ {p}
        /\ ref' = ref \cup {p}
        /\ UNCHANGED <<listening, told, telling, found, finds, elements,
                       altUsed>>
        /\ finds \in 1..MaxFinds /\ Query(p) \in Queries
        /\ status[Query(p)] = "none"
        /\ status \in [Queries -> Engine!Statuses]
    BY <1>2, QueriesDiffer
    DEF FindInv, FindTypeOK, Engine!TypeOK, Placed, Start, Engine!Submit, Query
  <2>a. PICK s \in {"pending", "failed"} :
            status' = [status EXCEPT ![Query(p)] = s]
    BY <1>2 DEF Start, Engine!Submit
  <2>b. /\ status'[Query(p)] = s
        /\ \A q \in Queries : q # Query(p) => status'[q] = status[q]
    BY <2>0, <2>a
  <2>c. \A i \in 1..MaxFinds, r \in Places :
            <<i, r>> = Query(p) <=> i = finds /\ r = p
    BY <2>0, QueriesDiffer DEF Query
  <2>1. FindTypeOK'
    <3>1. status' \in [Queries -> Engine!Statuses]
      BY <2>0, <2>a DEF Engine!Statuses
    <3> QED
      BY <1>2, <2>0, <3>1 DEF FindInv, FindTypeOK, Engine!TypeOK, Places
  <2>2. Placed'
    BY <1>2, <2>0 DEF FindInv, Placed
  <2>3. Accounted'
    <3> SUFFICES ASSUME NEW i \in 1..MaxFinds, NEW r \in Places
                 PROVE  /\ i > finds => status'[<<i, r>>] = "none"
                        /\ status'[<<i, r>>] = "pending" =>
                             i = finds /\ r \in ref'
                        /\ <<i, r>> \in listening =>
                             status'[<<i, r>>] # "none"
                        /\ status'[<<i, r>>] # "dropped"
      BY <2>0 DEF Accounted
    <3>1. CASE <<i, r>> = Query(p)
      BY <2>0, <2>b, <2>c, <3>1
    <3>2. CASE <<i, r>> # Query(p)
      <4>1. status'[<<i, r>>] = status[<<i, r>>]
        BY <2>b, <3>2, QueriesDiffer
      <4> QED BY <1>2, <2>0, <4>1 DEF FindInv, Accounted
    <3> QED BY <3>1, <3>2
  <2>4. Telling'
    <3>1. Query(p) \notin listening /\ telling # Query(p)
      BY <1>2, <2>0 DEF FindInv, Accounted, Telling, Done, Query
    <3>2. \A q \in listening : q \in Queries
      BY <1>2 DEF FindInv, FindTypeOK, Engine!TypeOK
    <3>3. telling # NoQuery => telling \in Queries
      BY <1>2 DEF FindInv, FindTypeOK
    <3>4. \A q \in found : q \in Queries /\ q # Query(p)
      BY <1>2, <2>0 DEF FindInv, FindTypeOK, Telling
    <3> QED
      BY <1>2, <2>0, <2>b, <3>1, <3>2, <3>3, <3>4
      DEF FindInv, Telling, Untold, Done
  <2>5. KindByKind'
    <3>0. p[1] \in Kinds /\ p \in Of(p[1])
      BY PlaceParts
    <3>a. \A r \in Places : r # p =>
              /\ Query(r) \in Queries /\ Query(r) # Query(p)
              /\ status'[Query(r)] = status[Query(r)]
      BY <2>0, <2>b, QueriesDiffer DEF Query
    <3>b. \A r \in Places : Query(r)' = Query(r)
      BY <2>0 DEF Query
    <3>1. \A r \in Places : Submitted(r)' => r \in ref'
      BY <1>2, <2>0, <3>a, <3>b DEF FindInv, KindByKind, Submitted
    <3>2. ASSUME NEW k \in Kinds
          PROVE  IF InFlight(k)' THEN Unseen(k)' ELSE Seen(k)'
      <4>1. CASE k = p[1]
        <5>1. InFlight(k)'
          BY <2>0, <3>0, <4>1 DEF InFlight, Of
        <5>2. k \notin Kept => elements[k] = NoQuery
          <6>1. CASE InFlight(k)
            BY <1>2, <2>0, <6>1 DEF FindInv, KindByKind, Unseen
          <6>2. CASE ~InFlight(k) /\ k \notin Kept /\ elements[k] # NoQuery
            <7>0. Seen(k)
              BY <1>2, <2>0, <6>2 DEF FindInv, KindByKind
            <7>1. PICK r \in Of(k) : status[Query(r)] = "ready"
              BY <1>2, <6>2, <7>0 DEF FindInv, Telling, Seen
            <7>2. r \in ref
              BY <1>2, <2>0, <7>1 DEF FindInv, KindByKind, Submitted, Of
            <7> QED BY <6>2, <7>1, <7>2 DEF InFlight
          <6> QED BY <6>1, <6>2
        <5>3. k \notin altUsed
          <6>1. CASE InFlight(k)
            BY <1>2, <2>0, <6>1 DEF FindInv, KindByKind, Unseen
          <6>2. CASE ~InFlight(k) /\ k \in altUsed
            <7>1. <<k, "alt">> \in Of(k) /\ <<k, "alt">> \in Places
              BY <1>2, <6>2 DEF FindInv, FindTypeOK, Of, Places
            <7>2. status[Query(<<k, "alt">>)] = "ready"
              <8>1. Seen(k)
                BY <1>2, <2>0, <6>2 DEF FindInv, KindByKind
              <8> QED
                BY <1>2, <6>2, <8>1 DEF FindInv, FindTypeOK, Seen
            <7>3. <<k, "alt">> \in ref
              BY <1>2, <2>0, <7>1, <7>2 DEF FindInv, KindByKind, Submitted
            <7> QED BY <6>2, <7>1, <7>3 DEF InFlight
          <6> QED BY <6>1, <6>2
        <5> QED BY <2>0, <3>1, <5>1, <5>2, <5>3 DEF Unseen, Of
      <4>2. CASE k # p[1]
        <5>1. p \notin Of(k) /\ Of(k) \subseteq Places
          BY <4>2 DEF Of
        <5>2. InFlight(k)' <=> InFlight(k)
          BY <2>0, <5>1 DEF InFlight, Of
        <5>3. Unseen(k) => Unseen(k)'
          BY <2>0, <3>1, <5>1 DEF Unseen, Of
        <5>4. Seen(k) => Seen(k)'
          <6>1. \A r \in Of(k) :
                    /\ Query(r)' = Query(r)
                    /\ status'[Query(r)] = status[Query(r)]
            BY <3>a, <3>b, <5>1
          <6>2. /\ <<k, "main">> \in Of(k)
                /\ k \in Paired => <<k, "alt">> \in Of(k)
            BY DEF Of, Places, Kinds
          <6>3. /\ Of(k)' = Of(k) /\ <<k, "main">>' = <<k, "main">>
                /\ <<k, "alt">>' = <<k, "alt">>
            BY DEF Of
          <6> QED BY <2>0, <6>1, <6>2, <6>3 DEF Seen
        <5> QED
          BY <1>2, <2>0, <5>2, <5>3, <5>4 DEF FindInv, KindByKind
      <4> QED BY <4>1, <4>2
    <3>3. \A r \in ref' : Submitted(r)'
      <4>1. ASSUME NEW r \in ref PROVE Submitted(r)'
        <5>1. r \in Places
          BY <1>2 DEF FindInv, FindTypeOK
        <5>2. CASE r = p
          BY <2>0, <2>b, <3>b, <5>2 DEF Submitted
        <5>3. CASE r # p
          BY <1>2, <2>0, <3>a, <3>b, <5>1, <5>3
          DEF FindInv, KindByKind, Submitted
        <5> QED BY <5>2, <5>3
      <4>2. Submitted(p)'
        BY <2>0, <2>b, <3>b DEF Submitted
      <4> QED BY <2>0, <4>1, <4>2
    <3> QED BY <3>1, <3>2, <3>3 DEF KindByKind
  <2> QED BY <2>1, <2>2, <2>3, <2>4, <2>5 DEF FindInv
<1>3. ASSUME FindInv, \/ AllStarted \/ AllConnected \/ Wait
                      \/ FinderWakesUp \/ Return \/ GoneOutOfScope
      PROVE  FindInv'
  <2>0. /\ UNCHANGED <<status, listening, told, telling, found, finds, ref,
                       elements, altUsed>>
        /\ pc' # "start"
    BY <1>3 DEF AllStarted, AllConnected, Wait, FinderWakesUp, Return,
        GoneOutOfScope, engineVars
  <2>1. FindTypeOK'
    BY <1>3, <2>0
    DEF FindInv, FindTypeOK, Engine!TypeOK, AllStarted, AllConnected, Wait,
      FinderWakesUp, Return, GoneOutOfScope
  <2>2. Placed'
    BY <1>3, <2>0
    DEF FindInv, FindTypeOK, Placed, AllStarted, AllConnected, Wait,
      FinderWakesUp, Return, GoneOutOfScope
  <2>3. Accounted' /\ Telling'
    BY <1>3, <2>0 DEF FindInv, Accounted, Telling, Untold, Done
  <2>4. KindByKind'
    BY <1>3, <2>0
    DEF FindInv, KindByKind, InFlight, Seen, Unseen, Of, Submitted, Query
  <2> QED BY <2>1, <2>2, <2>3, <2>4 DEF FindInv
<1>4. ASSUME FindInv, NEW p \in Places, ConnectQuery(p) PROVE FindInv'
  <2>0. /\ UNCHANGED <<status, telling, found, finds, ref, elements,
                       altUsed, pc>>
        /\ pc = "connect" /\ p \in ref /\ todo' = todo \ {p}
        /\ listening' = listening \cup {Query(p)}
        /\ told' = [told EXCEPT ![Query(p)] =
                       IF Done(Query(p)) THEN @ + 1 ELSE @]
        /\ told \in [Queries -> Nat]
        /\ finds \in 1..MaxFinds /\ Query(p) \in Queries
    BY <1>4, QueriesDiffer
    DEF FindInv, FindTypeOK, Engine!TypeOK, Placed, ConnectQuery, Query
  <2>1. FindTypeOK'
    BY <1>4, <2>0 DEF FindInv, FindTypeOK, Engine!TypeOK
  <2>2. Placed'
    BY <1>4, <2>0 DEF FindInv, Placed
  <2>3. Accounted'
    <3>1. status[Query(p)] # "none"
      BY <1>4, <2>0 DEF FindInv, KindByKind, Submitted
    <3> QED BY <1>4, <2>0, <3>1 DEF FindInv, Accounted
  <2>4. Telling'
    <3>1. Untold' \subseteq Untold \cup {Query(p)}
      BY <1>4, <2>0 DEF FindInv, FindTypeOK, Engine!TypeOK, Untold
    <3>2. Done(Query(p)) => Query(p) \notin Untold'
      BY <2>0 DEF Untold
    <3> QED BY <1>4, <2>0, <3>1, <3>2 DEF FindInv, Telling, Done
  <2>5. KindByKind'
    BY <1>4, <2>0
    DEF FindInv, KindByKind, InFlight, Seen, Unseen, Of, Submitted, Query
  <2> QED BY <2>1, <2>2, <2>3, <2>4, <2>5 DEF FindInv
<1>5. ASSUME FindInv, NEW k \in Kinds, Reap(k) PROVE FindInv'
  <2> DEFINE ps == {p \in ref : p[1] = k}
             ready == {p \in ps : status[Query(p)] = "ready"}
             first == IF <<k, "main">> \in ready THEN "main" ELSE "alt"
             new == IF ready = {} THEN NoQuery
                                  ELSE ResultOf(Query(<<k, first>>))
  <2>0. /\ UNCHANGED <<status, listening, told, telling, found, finds, pc>>
        /\ pc = "scan" /\ todo' = todo \ {k}
        /\ finds \in 1..MaxFinds
    BY <1>5 DEF FindInv, FindTypeOK, Placed, Reap, engineVars
  <2>a. ref \subseteq Places /\ ps = ref \cap Of(k)
    BY <1>5 DEF FindInv, FindTypeOK, Of
  <2>1. CASE ps # {} /\ \A p \in ps : Done(Query(p))
    <3>0. /\ elements' = [elements EXCEPT ![k] = new]
          /\ altUsed' = altUsed \cup
                          {j \in {k} : ready = {<<k, "alt">>}}
          /\ ref' = ref \ ps
      BY <1>5, <2>1 DEF Reap
    <3>a. Unseen(k)
      BY <1>5, <2>0, <2>1, <2>a DEF FindInv, KindByKind, InFlight
    <3>b. \A p \in Of(k) : Submitted(p) <=> p \in ps
      BY <1>5, <2>0, <2>a, <3>a DEF FindInv, KindByKind, Unseen
    <3>c. elements \in [Kinds -> Queries \cup {NoQuery}]
      BY <1>5 DEF FindInv, FindTypeOK
    <3>d. new \in Queries \cup {NoQuery}
      BY <1>5 DEF FindInv, FindTypeOK, ResultOf
    <3> HIDE DEF new
    <3>1. FindTypeOK'
      <4>1. elements' \in [Kinds -> Queries \cup {NoQuery}]
        BY <3>0, <3>c, <3>d
      <4>2. altUsed' \subseteq Paired
        <5>1. ready = {<<k, "alt">>} => k \in Paired
          <6> SUFFICES ASSUME ready = {<<k, "alt">>} PROVE k \in Paired
            OBVIOUS
          <6>1. <<k, "alt">> \in Places
            BY <2>a
          <6> QED BY <6>1 DEF Places
        <5> QED BY <1>5, <3>0, <5>1 DEF FindInv, FindTypeOK
      <4> HIDE DEF ps, ready
      <4> QED
        BY <1>5, <2>0, <3>0, <4>1, <4>2 DEF FindInv, FindTypeOK, Engine!TypeOK
    <3>2. Placed'
      BY <1>5, <2>0 DEF FindInv, Placed
    <3>3. Accounted'
      <4> SUFFICES ASSUME NEW i \in 1..MaxFinds, NEW r \in Places,
                          status[<<i, r>>] = "pending"
                   PROVE  i = finds /\ r \in ref'
        BY <1>5, <2>0 DEF FindInv, Accounted
      <4>1. i = finds /\ r \in ref
        BY <1>5 DEF FindInv, Accounted
      <4>2. r \notin ps
        BY <2>1, <4>1 DEF Done, Query
      <4> QED BY <3>0, <4>1, <4>2
    <3>4. Telling'
      BY <1>5, <2>0 DEF FindInv, Telling, Untold, Done
    <3>5. KindByKind'
      <4>1. \A p \in Places : Query(p)' = Query(p)
        BY <2>0 DEF Query
      <4>2. ~InFlight(k)'
        BY <2>a, <3>0 DEF InFlight, Of
      <4>3. Seen(k)'
        <5>1. elements'[k] = new /\ (k \in altUsed' <=> ready = {<<k, "alt">>})
          BY <3>0, <3>a, <3>c DEF Unseen
        <5>2. \A p \in Of(k) : p \in ready <=> status[Query(p)] = "ready"
          BY <2>a, <3>b DEF Submitted
        <5>3. /\ ready \subseteq {<<k, "main">>, <<k, "alt">>}
              /\ ready \subseteq Of(k)
              /\ <<k, "main">> # <<k, "alt">> /\ <<k, "main">> \in Of(k)
              /\ k \in Paired => <<k, "alt">> \in Of(k)
          BY <2>a DEF Of, Places
        <5>4. \A p \in Of(k) : Query(p) \in found => p \in ready
          BY <1>5, <5>2 DEF FindInv, Telling
        <5>5. ASSUME NEW p \in Of(k), Query(p) \in found
              PROVE  \/ new = Query(p)
                     \/ p[2] = "alt" /\ status[Query(<<k, "main">>)] = "ready"
          <6>1. p \in ready /\ (p = <<k, "main">> \/ p = <<k, "alt">>)
            BY <5>3, <5>4, <5>5
          <6>2. CASE <<k, "main">> \in ready /\ p = <<k, "alt">>
            BY <5>2, <5>3, <6>2
          <6>3. CASE <<k, "main">> \notin ready \/ p = <<k, "main">>
            <7>1. p = <<k, first>>
              BY <6>1, <6>3
            <7>2. ready # {} /\ ResultOf(Query(p)) = Query(p)
              BY <5>5, <6>1 DEF ResultOf
            <7> QED BY <7>1, <7>2 DEF new
          <6> QED BY <6>1, <6>2, <6>3
        <5>6. ASSUME new # NoQuery
              PROVE  \E p \in Of(k) : Query(p) \in found /\ new = Query(p)
          <6>1. /\ ready # {}
                /\ Query(<<k, first>>) \in found
                /\ new = Query(<<k, first>>)
            BY <5>6 DEF new, ResultOf
          <6>2. <<k, first>> \in ready
            BY <5>3, <6>1
          <6> QED BY <5>3, <6>1, <6>2
        <5>7. k \in Paired => (ready = {<<k, "alt">>} <=>
                 /\ status[Query(<<k, "alt">>)] = "ready"
                 /\ status[Query(<<k, "main">>)] # "ready")
          <6> HIDE DEF ready
          <6> QED BY <5>2, <5>3
        <5>8. /\ \A p \in Of(k) : Query(p)' = Query(p)
              /\ Query(<<k, "main">>)' = Query(<<k, "main">>)
              /\ Query(<<k, "alt">>)' = Query(<<k, "alt">>)
              /\ Of(k)' = Of(k)
          BY <2>0 DEF Query, Of
        <5> HIDE DEF ready
        <5> QED
          BY <2>0, <5>1, <5>5, <5>6, <5>7, <5>8 DEF Seen
      <4>4. ASSUME NEW j \in Kinds, j # k
            PROVE  IF InFlight(j)' THEN Unseen(j)' ELSE Seen(j)'
        <5>1. InFlight(j)' <=> InFlight(j)
          BY <3>0, <4>4 DEF InFlight, Of
        <5>2. elements'[j] = elements[j] /\ (j \in altUsed' <=> j \in altUsed)
          BY <3>0, <3>c, <4>4
        <5>3. /\ \A p \in Of(j) : Query(p)' = Query(p)
              /\ Query(<<j, "main">>)' = Query(<<j, "main">>)
              /\ Query(<<j, "alt">>)' = Query(<<j, "alt">>)
              /\ Of(j)' = Of(j)
              /\ \A p \in Of(j) : p \in ref' <=> p \in ref
          BY <2>0, <3>0, <4>4 DEF Query, Of
        <5>4. Unseen(j) => Unseen(j)'
          BY <2>0, <5>2, <5>3 DEF Unseen, Submitted
        <5>5. Seen(j) => Seen(j)'
          BY <2>0, <5>2, <5>3 DEF Seen
        <5> QED BY <1>5, <2>0, <5>1, <5>4, <5>5 DEF FindInv, KindByKind
      <4>5. \A p \in ref' : Submitted(p)'
        BY <1>5, <2>0, <2>a, <3>0, <4>1 DEF FindInv, KindByKind, Submitted
      <4> QED BY <2>0, <4>2, <4>3, <4>4, <4>5 DEF KindByKind
    <3> QED BY <3>1, <3>2, <3>3, <3>4, <3>5 DEF FindInv
  <2>2. CASE ~(ps # {} /\ \A p \in ps : Done(Query(p)))
    <3>0. UNCHANGED <<elements, ref, altUsed>>
      BY <1>5, <2>2 DEF Reap
    <3>1. FindTypeOK'
      BY <1>5, <2>0, <3>0 DEF FindInv, FindTypeOK, Engine!TypeOK
    <3>2. Placed'
      BY <1>5, <2>0, <3>0 DEF FindInv, Placed
    <3>3. Accounted' /\ Telling'
      BY <1>5, <2>0, <3>0 DEF FindInv, Accounted, Telling, Untold, Done
    <3>4. KindByKind'
      BY <1>5, <2>0, <3>0
      DEF FindInv, KindByKind, InFlight, Seen, Unseen, Of, Submitted, Query
    <3> QED BY <3>1, <3>2, <3>3, <3>4 DEF FindInv
  <2> QED BY <2>1, <2>2
<1>6. ASSUME FindInv, NEW q \in Queries, WorkerFinish(q) PROVE FindInv'
  <2>0. /\ UNCHANGED <<listening, told, pc, finds, todo, ref, elements,
                       altUsed>>
        /\ telling = NoQuery /\ telling' = q
        /\ found \subseteq found' /\ found' \subseteq found \cup {q}
        /\ q \in found' => q \in found \/ status'[q] = "ready"
        /\ status[q] = "pending"
        /\ status \in [Queries -> Engine!Statuses]
    BY <1>6
    DEF FindInv, FindTypeOK, Engine!TypeOK, WorkerFinish, Engine!Finish,
      finderVars
  <2>a. PICK s \in {"ready", "failed"} : status' = [status EXCEPT ![q] = s]
    BY <1>6 DEF WorkerFinish, Engine!Finish
  <2>b. /\ status'[q] = s
        /\ \A r \in Queries : r # q => status'[r] = status[r]
    BY <2>0, <2>a
  <2>c. /\ q[1] = finds /\ q[2] \in ref /\ q = Query(q[2])
        /\ q[2] \in Places /\ finds \in 1..MaxFinds
    BY <1>6, <2>0, QueryParts DEF FindInv, Accounted, Query
  <2>1. FindTypeOK'
    <3>1. status' \in [Queries -> Engine!Statuses]
      BY <2>0, <2>a DEF Engine!Statuses
    <3> QED BY <1>6, <2>0, <3>1 DEF FindInv, FindTypeOK, Engine!TypeOK
  <2>2. Placed'
    BY <1>6, <2>0 DEF FindInv, Placed
  <2>3. Accounted'
    <3> SUFFICES ASSUME NEW i \in 1..MaxFinds, NEW r \in Places
                 PROVE  /\ i > finds => status'[<<i, r>>] = "none"
                        /\ status'[<<i, r>>] = "pending" =>
                             i = finds /\ r \in ref
                        /\ <<i, r>> \in listening =>
                             status'[<<i, r>>] # "none"
                        /\ status'[<<i, r>>] # "dropped"
      BY <2>0 DEF Accounted
    <3>1. CASE <<i, r>> = q
      <4>1. i = finds
        BY <2>c, <3>1
      <4> QED BY <2>b, <2>c, <3>1, <4>1
    <3>2. CASE <<i, r>> # q
      <4>1. status'[<<i, r>>] = status[<<i, r>>]
        BY <2>b, <3>2, QueriesDiffer
      <4> QED BY <1>6, <4>1 DEF FindInv, Accounted
    <3> QED BY <3>1, <3>2
  <2>4. Telling'
    <3>1. \A r \in listening : r \in Queries
      BY <1>6 DEF FindInv, FindTypeOK, Engine!TypeOK
    <3>2. \A r \in Untold : ~Done(r)
      BY <1>6, <2>0, <3>1 DEF FindInv, Telling, Untold
    <3>3. \A r \in found : r \in Queries /\ r # q /\ status[r] = "ready"
      BY <1>6, <2>0 DEF FindInv, FindTypeOK, Telling
    <3> QED BY <2>0, <2>b, <3>1, <3>2, <3>3 DEF Telling, Untold, Done
  <2>5. KindByKind'
    <3>0. q[2][1] \in Kinds /\ InFlight(q[2][1])
      BY <2>c, PlaceParts DEF InFlight
    <3>1. \A p \in Places :
             /\ Query(p) \in Queries /\ Query(p)' = Query(p)
             /\ p # q[2] => status'[Query(p)] = status[Query(p)]
      BY <2>0, <2>b, <2>c, QueriesDiffer DEF Query
    <3>2. \A p \in Places : Submitted(p)' <=> Submitted(p)
      BY <2>0, <2>b, <2>c, <3>1 DEF Submitted
    <3>3. ASSUME NEW k \in Kinds
          PROVE  IF InFlight(k)' THEN Unseen(k)' ELSE Seen(k)'
      <4>1. InFlight(k)' <=> InFlight(k)
        BY <2>0 DEF InFlight, Of
      <4>2. Unseen(k) => Unseen(k)'
        BY <2>0, <3>2 DEF Unseen, Of
      <4>3. ASSUME ~InFlight(k), Seen(k) PROVE Seen(k)'
        <5>1. ASSUME NEW p \in Of(k)
              PROVE  /\ status'[<<finds, p>>] = status[<<finds, p>>]
                     /\ <<finds, p>> \in found' <=> <<finds, p>> \in found
          <6>1. p \in Places /\ p # q[2]
            BY <2>c, <4>3 DEF InFlight, Of
          <6>2. Query(p) # q
            BY <2>c, <6>1, QueriesDiffer DEF Query
          <6> QED BY <2>0, <3>1, <6>1, <6>2 DEF Query
        <5>2. /\ <<k, "main">> \in Of(k)
              /\ k \in Paired => <<k, "alt">> \in Of(k)
          BY DEF Of, Places, Kinds
        <5>3. Of(k)' = Of(k)
          BY DEF Of
        <5> HIDE DEF Of
        <5>4. /\ status'[<<finds, <<k, "main">>>>]
                   = status[<<finds, <<k, "main">>>>]
              /\ k \in Paired => status'[<<finds, <<k, "alt">>>>]
                                    = status[<<finds, <<k, "alt">>>>]
          BY <5>1, <5>2
        <5> QED
          BY <2>0, <4>3, <5>1, <5>3, <5>4 DEF Seen, Query
      <4> QED BY <1>6, <2>c, <4>1, <4>2, <4>3 DEF FindInv, KindByKind
    <3>4. ref \subseteq Places
      BY <1>6 DEF FindInv, FindTypeOK
    <3> QED
      BY <1>6, <2>0, <2>c, <3>2, <3>3, <3>4 DEF FindInv, KindByKind
  <2> QED BY <2>1, <2>2, <2>3, <2>4, <2>5 DEF FindInv
<1>7. ASSUME FindInv, WorkerTell PROVE FindInv'
  <2>0. /\ UNCHANGED <<status, listening, found, finds, todo, ref, elements,
                       altUsed>>
        /\ telling # NoQuery /\ telling' = NoQuery
        /\ pc' = pc \/ (pc = "waiting" /\ pc' = "woken")
    BY <1>7 DEF WorkerTell, Engine!Tell
  <2>a. told' \in [Queries -> Nat] /\ Untold' = Untold \ {telling}
    <3>1. told \in [Queries -> Nat] /\ listening \subseteq Queries
      BY <1>7 DEF FindInv, FindTypeOK, Engine!TypeOK
    <3>2. CASE telling \in Untold
      <4>1. told' = [told EXCEPT ![telling] = @ + 1]
        BY <1>7, <3>2 DEF WorkerTell, Engine!Tell
      <4>2. telling \in Queries
        BY <3>1, <3>2 DEF Untold
      <4> QED BY <2>0, <3>1, <3>2, <4>1, <4>2 DEF Untold
    <3>3. CASE telling \notin Untold
      <4>1. told' = told
        BY <1>7, <3>3 DEF WorkerTell
      <4> QED BY <2>0, <3>1, <3>3, <4>1 DEF Untold
    <3> QED BY <3>2, <3>3
  <2>1. FindTypeOK'
    BY <1>7, <2>0, <2>a DEF FindInv, FindTypeOK, Engine!TypeOK
  <2>2. Placed'
    BY <1>7, <2>0 DEF FindInv, Placed
  <2>3. Accounted'
    BY <1>7, <2>0 DEF FindInv, Accounted
  <2>4. Telling'
    BY <1>7, <2>0, <2>a DEF FindInv, Telling, Done
  <2>5. KindByKind'
    BY <1>7, <2>0
    DEF FindInv, KindByKind, InFlight, Seen, Unseen, Of, Submitted, Query
  <2> QED BY <2>1, <2>2, <2>3, <2>4, <2>5 DEF FindInv
<1>8. ASSUME FindInv, UNCHANGED findVars PROVE FindInv'
  <2>0. UNCHANGED <<status, listening, told, telling, found, pc, finds, todo,
                    ref, elements, altUsed>>
    BY <1>8 DEF findVars, engineVars, finderVars
  <2>1. FindTypeOK' /\ Placed' /\ Accounted' /\ Telling'
    BY <1>8, <2>0
    DEF FindInv, FindTypeOK, Engine!TypeOK, Placed, Accounted, Telling,
      Untold, Done
  <2>2. KindByKind'
    BY <1>8, <2>0
    DEF FindInv, KindByKind, InFlight, Seen, Unseen, Of, Submitted, Query
  <2> QED BY <2>1, <2>2 DEF FindInv
<1>9. FindInv /\ [FindNext]_findVars => FindInv'
  BY <1>1, <1>2, <1>3, <1>4, <1>5, <1>6, <1>7, <1>8
     DEF FindNext, Finder, EngineWorker
<1> QED BY <1>0, <1>9, PTL DEF FindSpec

(* What a lookup returns is fresh, reported as found by name just where it *)
(* was, and complete but for what the query by name found while the one by *)
(* ident ended without an error, however many queries, late slots and      *)
(* lookups there are.                                                      *)
THEOREM FindCoordLookupRight == FindSpec => []LookupRight
<1>1. FindInv => LookupRight
  <2> SUFFICES ASSUME FindInv, pc = "idle"
               PROVE  Complete /\ Fresh /\ AltOnlyIfMainFailed
    BY DEF LookupRight
  <2>1. CASE finds = 0
    BY <2>1 DEF FindInv, Placed, Complete, Fresh, AltOnlyIfMainFailed
  <2>2. CASE finds # 0
    <3>1. finds \in 1..MaxFinds /\ ref = {}
      BY <2>2, KindAssumption DEF FindInv, FindTypeOK, Placed
    <3>2. \A k \in Kinds : Seen(k)
      BY <3>1 DEF FindInv, KindByKind, InFlight
    <3>3. Complete
      BY <3>1, <3>2, PlaceParts DEF FindInv, Accounted, Complete, Seen, Query
    <3>4. Fresh
      <4> SUFFICES ASSUME NEW k \in Kinds \ Kept, elements[k] # NoQuery
                   PROVE  /\ elements[k] \in found
                          /\ \E p \in Places :
                                p[1] = k /\ elements[k] = Query(p)
        BY DEF Fresh
      <4>1. PICK p \in Of(k) : Query(p) \in found /\ elements[k] = Query(p)
        BY <3>2 DEF Seen
      <4> QED BY <4>1 DEF Of
    <3>5. AltOnlyIfMainFailed
      BY <3>2 DEF FindInv, FindTypeOK, AltOnlyIfMainFailed, Seen, Kinds
    <3> QED BY <3>3, <3>4, <3>5
  <2> QED BY <2>1, <2>2
<1> QED BY <1>1, FindCoordInvariant, PTL

(* When a lookup has returned, one slot at most is still to run.           *)
THEOREM FindCoordOutstanding == FindSpec => []OnlyCurrentCallOutstanding
<1>1. FindInv => OnlyCurrentCallOutstanding
  <2> SUFFICES ASSUME FindInv, pc \in {"idle", "gone"},
                      NEW q \in Untold
               PROVE  q = telling
    BY DEF OnlyCurrentCallOutstanding
  <2>1. q \in Queries /\ status[q] \in Engine!Statuses
    BY DEF FindInv, FindTypeOK, Engine!TypeOK, Untold
  <2>2. status[q] \notin {"none", "pending", "dropped"}
    BY <2>1, QueryParts DEF FindInv, Placed, Accounted, Untold
  <2> QED BY <2>1, <2>2 DEF FindInv, Telling, Done, Engine!Statuses
<1> QED BY <1>1, FindCoordInvariant, PTL

=============================================================================
