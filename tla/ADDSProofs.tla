---------------------------- MODULE ADDSProofs ----------------------------
(***************************************************************************)
(* Proofs about ADDS, for any number of calls and aborts.  What a callback *)
(* is given depends on four fields that the calls and the callbacks of the *)
(* main thread change one by one, m_mode, m_url, m_metartaf and the answer *)
(* in m_rxbuffer, and on the thread.  Sent and Got say how they fit        *)
(* together while a request is under way and nothing has disturbed it.     *)
(***************************************************************************)
EXTENDS ADDS, TLAPS

(* What m_mode, m_url and m_metartaf hold for the request under way.       *)
Sent ==
    \/ /\ mode = "metartaf" /\ kind[done] = "metartaf"
       /\ url = Report("metar", done) /\ metartaf = {}
    \/ /\ mode = "metarortaf" /\ kind[done] \in {"metar", "taf"}
       /\ url = Report(kind[done], done) /\ metartaf = {}
    \/ /\ mode = "metarortaf" /\ kind[done] = "metartaf"
       /\ url = Report("taf", done)
       /\ \/ metartaf = {Report("metar", done)}
          \/ metartaf = {} /\ Report("metar", done) \in failures

(* What the thread has made of it.                                         *)
Got ==
    /\ thread \in {"started", "transfer"} => rxbuffer = Nothing
    /\ thread # "started" => fetching = url
    /\ thread \in {"dispatching", "ended"} =>
         rxbuffer = url \/ (rxbuffer = Nothing /\ url \in failures)

(* The requests are numbered; what has not been made has not been given    *)
(* anything, nor been aborted.                                             *)
Numbered ==
    /\ done <= requests
    /\ thread # "none" \/ pending > 0 \/ mpc = "completing" =>
         done \in Requests /\ kind[done] \in Kinds
    /\ \A r \in Requests :
         r > requests => /\ given[r].calls = 0
                         /\ r \notin aborted \cup disturbed

(* A thread is in mode_abort while abort() waits for it, and only then.    *)
Stopping ==
    /\ mpc = "aborting" => mode = "abort"
    /\ thread # "none" /\ mpc # "aborting" =>
         mode # "abort" /\ (meddled \/ done \notin aborted)

(* Without a thread there is nothing for a late dispatch to do.            *)
Quiet ==
    thread = "none" /\ ~meddled =>
      /\ mode = "metarortaf" => rxbuffer = Nothing
      /\ mode = "metartaf" => pending = 0 /\ mpc = "idle"

Busy ==
    thread # "none" /\ ~meddled =>
      /\ given[done].calls = 0
      /\ mode # "abort" /\ done \notin disturbed => Sent /\ Got

(* Before the first abort() a dispatch is on its way only when the thread  *)
(* it comes from is the last one and has ended.                            *)
Prompt ==
    aborts = 0 =>
      /\ mpc # "aborting"
      /\ thread = "ended" => \/ pending = 1 /\ mpc = "idle"
                             \/ pending = 0 /\ mpc = "completing"
      /\ thread # "ended" => pending = 0 /\ mpc = "idle"

IInv == /\ TypeOK
        /\ Numbered
        /\ Stopping
        /\ Quiet
        /\ Busy
        /\ Prompt
        /\ GivenAll

(* What is under way is a request that has been made.                      *)
LEMMA UnderWayMade ==
    ASSUME TypeOK, Numbered
    PROVE  UnderWay \in SUBSET Requests /\ \A r \in UnderWay : r <= requests
  BY DEF TypeOK, Numbered, UnderWay, Requests

(* A report has the parts it is made of, and is not the empty answer.      *)
LEMMA ReportType ==
    ASSUME NEW w \in {"metar", "taf"}, NEW r \in Requests
    PROVE  /\ Report(w, r) \in Reports /\ Report(w, r) # Nothing
           /\ Report(w, r).what = w /\ Report(w, r).request = r
  BY NothingAssumption DEF Report, Reports

(* A call, a callback and the thread leave the four fields as the next one *)
(* of them finds them: the invariant of the whole object.                  *)
THEOREM AddsInvariant == Spec => []IInv
<1> USE BoundAssumption, NothingAssumption
<1>0. Init => IInv
  <2> SUFFICES ASSUME Init PROVE IInv
    OBVIOUS
  <2>1. TypeOK
    <3>1. given \in [Requests -> [calls : Nat, reports : SUBSET Reports]]
      BY DEF Init
    <3>2. kind \in [Requests -> Kinds \cup {"none", "nowhere"}]
      BY DEF Init
    <3>3. requests \in 0..MaxRequests /\ aborts \in 0..MaxAborts
      BY BoundAssumption DEF Init
    <3>4. failures \in SUBSET Reports /\ aborted \in SUBSET Requests
          /\ disturbed \in SUBSET Requests /\ metartaf \in SUBSET Reports
      BY DEF Init
    <3>5. /\ mode = "abort" /\ url = Nothing /\ rxbuffer = Nothing
          /\ done = 0 /\ thread = "none" /\ fetching = Nothing
          /\ pending = 0 /\ mpc = "idle" /\ meddled = FALSE
      BY DEF Init
    <3> QED BY <3>1, <3>2, <3>3, <3>4, <3>5 DEF TypeOK
  <2>2. Numbered
    BY DEF Init, Numbered, Requests
  <2>3. Stopping /\ Quiet /\ Busy /\ Prompt
    BY DEF Init, Stopping, Quiet, Busy, Prompt
  <2>4. GivenAll
    BY DEF Init, GivenAll
  <2> QED BY <2>1, <2>2, <2>3, <2>4 DEF IInv
<1>1. ASSUME IInv, \E k \in Kinds : Call(k) PROVE IInv'
  <2>0. PICK k \in Kinds : Call(k)
    BY <1>1
  <2>a. requests + 1 \in Requests /\ requests < requests + 1
    BY <1>1, <2>0 DEF IInv, TypeOK, Call, CanCall, Requests
  <2>1. TypeOK'
    <3>1. Report(IF k = "taf" THEN "taf" ELSE "metar", requests + 1)
              \in Reports
      BY <2>a, ReportType
    <3>2. kind' \in [Requests -> Kinds \cup {"none", "nowhere"}]
      BY <1>1, <2>0 DEF IInv, TypeOK, Call
    <3>3. disturbed' \in SUBSET Requests /\ aborted' \in SUBSET Requests
      BY <1>1, <2>0, <2>a, UnderWayMade DEF IInv, TypeOK, Call
    <3>4. requests' \in 0..MaxRequests
      BY <1>1, <2>0, <2>a DEF IInv, TypeOK, Call, Requests
    <3>5. url' = Report(IF k = "taf" THEN "taf" ELSE "metar", requests + 1)
      BY <2>0 DEF Call
    <3> QED
      BY <1>1, <2>0, <2>a, <3>1, <3>2, <3>3, <3>4, <3>5, NothingAssumption
      DEF IInv, TypeOK, Call, CanCall, threadVars
  <2>2. Numbered'
    BY <1>1, <2>0
      DEF IInv, Numbered, TypeOK, requestVars, threadVars, history,
        Call, CanCall, UnderWay, Report, Reports, Kinds, Requests
  <2>3. Stopping'
    BY <1>1, <2>0
      DEF IInv, Stopping, Numbered, TypeOK, requestVars, threadVars,
        history, Call, CanCall, UnderWay, Report, Reports, Kinds,
        Requests
  <2>4. Quiet'
    BY <1>1, <2>0
      DEF IInv, Quiet, Stopping, Busy, TypeOK, requestVars, threadVars,
        history, Call, CanCall, UnderWay, Report, Reports, Kinds,
        Requests
  <2>5. Busy'
    BY <1>1, <2>0
      DEF IInv, Busy, Quiet, Sent, Got, Numbered, Stopping, TypeOK,
        requestVars, threadVars, history, Call, CanCall, UnderWay,
        Report, Reports, Kinds, Requests
  <2>6. Prompt'
    BY <1>1, <2>0
      DEF IInv, Prompt, TypeOK, requestVars, threadVars, history, Call,
        CanCall, UnderWay, Report, Reports, Kinds, Requests
  <2>7. GivenAll'
    BY <1>1, <2>0
      DEF IInv, GivenAll, Wanted, Busy, Sent, Got, Numbered, Stopping,
        Quiet, TypeOK, requestVars, threadVars, history, Call, CanCall,
        UnderWay, Report, Reports, Kinds, Requests
  <2> QED BY <2>1, <2>2, <2>3, <2>4, <2>5, <2>6, <2>7 DEF IInv
<1>2. ASSUME IInv, MetarOrTafNowhere PROVE IInv'
  <2>a. requests + 1 \in Requests
    BY <1>2 DEF IInv, TypeOK, MetarOrTafNowhere, Nowhere, CanCall, Requests
  <2>1. TypeOK'
    <3>1. kind' \in [Requests -> Kinds \cup {"none", "nowhere"}]
      BY <1>2 DEF IInv, TypeOK, MetarOrTafNowhere, Nowhere
    <3>2. given' \in [Requests -> [calls : Nat, reports : SUBSET Reports]]
      BY <1>2, <2>a DEF IInv, TypeOK, MetarOrTafNowhere, Nowhere, Give
    <3>3. disturbed' \in SUBSET Requests
      BY <1>2, UnderWayMade DEF IInv, TypeOK, MetarOrTafNowhere, Nowhere
    <3>4. requests' \in 0..MaxRequests
      BY <1>2, <2>a DEF IInv, TypeOK, MetarOrTafNowhere, Nowhere, Requests
    <3>5. meddled' \in BOOLEAN
      BY <1>2 DEF IInv, TypeOK, MetarOrTafNowhere
    <3> QED
      BY <1>2, <3>1, <3>2, <3>3, <3>4, <3>5
      DEF IInv, TypeOK, MetarOrTafNowhere, Nowhere, threadVars
  <2>2. Numbered'
    BY <1>2
      DEF IInv, Numbered, TypeOK, requestVars, threadVars, history,
        MetarOrTafNowhere, Nowhere, CanCall, Give, UnderWay, Requests,
        Kinds
  <2>3. Stopping'
    BY <1>2
      DEF IInv, Stopping, Numbered, TypeOK, requestVars, threadVars,
        history, MetarOrTafNowhere, Nowhere, CanCall, Give, UnderWay,
        Requests, Kinds
  <2>4. Quiet'
    BY <1>2
      DEF IInv, Quiet, Stopping, Busy, TypeOK, requestVars, threadVars,
        history, MetarOrTafNowhere, Nowhere, CanCall, Give, UnderWay,
        Requests, Kinds
  <2>5. Busy'
    BY <1>2
      DEF IInv, Busy, Quiet, Sent, Got, Numbered, Stopping, TypeOK,
        requestVars, threadVars, history, MetarOrTafNowhere, Nowhere,
        CanCall, Give, UnderWay, Requests, Kinds, Report, Reports
  <2>6. Prompt'
    BY <1>2
      DEF IInv, Prompt, TypeOK, requestVars, threadVars, history,
        MetarOrTafNowhere, Nowhere, CanCall, Give, UnderWay, Requests,
        Kinds
  <2>7. GivenAll'
    BY <1>2
      DEF IInv, GivenAll, Wanted, Busy, Sent, Got, Numbered, Stopping,
        Quiet, TypeOK, requestVars, threadVars, history,
        MetarOrTafNowhere, Nowhere, CanCall, Give, UnderWay, Requests,
        Kinds, Reports, Report
  <2> QED BY <2>1, <2>2, <2>3, <2>4, <2>5, <2>6, <2>7 DEF IInv
<1>3. ASSUME IInv, MetarTafNowhere PROVE IInv'
  <2>a. requests + 1 \in Requests
    BY <1>3 DEF IInv, TypeOK, MetarTafNowhere, Nowhere, CanCall, Requests
  <2>1. TypeOK'
    <3>1. kind' \in [Requests -> Kinds \cup {"none", "nowhere"}]
      BY <1>3 DEF IInv, TypeOK, MetarTafNowhere, Nowhere
    <3>2. given' \in [Requests -> [calls : Nat, reports : SUBSET Reports]]
      BY <1>3, <2>a DEF IInv, TypeOK, MetarTafNowhere, Nowhere, Give
    <3>3. disturbed' \in SUBSET Requests
      BY <1>3, UnderWayMade DEF IInv, TypeOK, MetarTafNowhere, Nowhere
    <3>4. requests' \in 0..MaxRequests
      BY <1>3, <2>a DEF IInv, TypeOK, MetarTafNowhere, Nowhere, Requests
    <3>5. meddled' \in BOOLEAN
      BY <1>3 DEF IInv, TypeOK, MetarTafNowhere
    <3> QED
      BY <1>3, <3>1, <3>2, <3>3, <3>4, <3>5
      DEF IInv, TypeOK, MetarTafNowhere, Nowhere, threadVars
  <2>2. Numbered'
    BY <1>3
      DEF IInv, Numbered, TypeOK, requestVars, threadVars, history,
        MetarTafNowhere, Nowhere, CanCall, Give, UnderWay, Requests,
        Kinds
  <2>3. Stopping'
    BY <1>3
      DEF IInv, Stopping, Numbered, TypeOK, requestVars, threadVars,
        history, MetarTafNowhere, Nowhere, CanCall, Give, UnderWay,
        Requests, Kinds
  <2>4. Quiet'
    <3>1. /\ thread' = thread /\ pending' = pending /\ mpc' = mpc
          /\ mode' = "metartaf" /\ mpc = "idle" /\ pending \in Nat
          /\ meddled' = (meddled \/ thread # "none" \/ pending > 0)
      BY <1>3
      DEF IInv, TypeOK, MetarTafNowhere, Nowhere, CanCall, threadVars
    <3>2. CASE pending > 0
      BY <3>1, <3>2 DEF Quiet
    <3>3. CASE pending = 0
      BY <3>1, <3>3 DEF Quiet
    <3> QED BY <3>1, <3>2, <3>3
  <2>5. Busy'
    BY <1>3
      DEF IInv, Busy, Quiet, Sent, Got, Numbered, Stopping, TypeOK,
        requestVars, threadVars, history, MetarTafNowhere, Nowhere,
        CanCall, Give, UnderWay, Requests, Kinds, Report, Reports
  <2>6. Prompt'
    BY <1>3
      DEF IInv, Prompt, TypeOK, requestVars, threadVars, history,
        MetarTafNowhere, Nowhere, CanCall, Give, UnderWay, Requests,
        Kinds
  <2>7. GivenAll'
    BY <1>3
      DEF IInv, GivenAll, Wanted, Busy, Sent, Got, Numbered, Stopping,
        Quiet, TypeOK, requestVars, threadVars, history,
        MetarTafNowhere, Nowhere, CanCall, Give, UnderWay, Requests,
        Kinds, Reports, Report
  <2> QED BY <2>1, <2>2, <2>3, <2>4, <2>5, <2>6, <2>7 DEF IInv
<1>4. ASSUME IInv, Abort PROVE IInv'
  <2>1. TypeOK'
    <3>1. aborted' \in SUBSET Requests
      BY <1>4, UnderWayMade DEF IInv, TypeOK, Abort
    <3>2. aborts' \in 0..MaxAborts
      BY <1>4, BoundAssumption DEF IInv, TypeOK, Abort
    <3> QED
      BY <1>4, <3>1, <3>2 DEF IInv, TypeOK, threadVars, history, Abort
  <2>2. Numbered'
    <3>1. \A r \in Requests : r > requests => r \notin UnderWay
      BY <1>4, UnderWayMade DEF IInv, TypeOK, Requests
    <3> QED
      BY <1>4, <3>1
      DEF IInv, Numbered, TypeOK, threadVars, Abort
  <2>3. Stopping'
    BY <1>4
      DEF IInv, Stopping, Numbered, TypeOK, requestVars, threadVars,
        history, Abort, UnderWay
  <2>4. Quiet'
    BY <1>4
      DEF IInv, Quiet, Stopping, Busy, TypeOK, requestVars, threadVars,
        history, Abort, UnderWay
  <2>5. Busy'
    BY <1>4
      DEF IInv, Busy, Quiet, Sent, Got, Numbered, Stopping, TypeOK,
        requestVars, threadVars, history, Abort, UnderWay, Report,
        Reports, Requests, Kinds
  <2>6. Prompt'
    BY <1>4
      DEF IInv, Prompt, TypeOK, requestVars, threadVars, history, Abort,
        UnderWay
  <2>7. GivenAll'
    BY <1>4
      DEF IInv, GivenAll, Wanted, Busy, Sent, Got, Numbered, Stopping,
        Quiet, TypeOK, requestVars, threadVars, history, Abort,
        UnderWay, Reports, Report, Requests, Kinds
  <2> QED BY <2>1, <2>2, <2>3, <2>4, <2>5, <2>6, <2>7 DEF IInv
<1>5. ASSUME IInv, Aborted PROVE IInv'
  <2>1. TypeOK'
    BY <1>5
      DEF IInv, TypeOK, requestVars, threadVars, history, Aborted
  <2>2. Numbered'
    BY <1>5
      DEF IInv, Numbered, TypeOK, requestVars, threadVars, history,
        Aborted
  <2>3. Stopping'
    BY <1>5
      DEF IInv, Stopping, Numbered, TypeOK, requestVars, threadVars,
        history, Aborted
  <2>4. Quiet'
    BY <1>5
      DEF IInv, Quiet, Stopping, Busy, TypeOK, requestVars, threadVars,
        history, Aborted
  <2>5. Busy'
    BY <1>5
      DEF IInv, Busy, Quiet, Sent, Got, Numbered, Stopping, TypeOK,
        requestVars, threadVars, history, Aborted, Report, Reports,
        Requests, Kinds
  <2>6. Prompt'
    BY <1>5
      DEF IInv, Prompt, TypeOK, requestVars, threadVars, history,
        Aborted
  <2>7. GivenAll'
    BY <1>5
      DEF IInv, GivenAll, Wanted, Busy, Sent, Got, Numbered, Stopping,
        Quiet, TypeOK, requestVars, threadVars, history, Aborted,
        Reports, Report, Requests, Kinds
  <2> QED BY <2>1, <2>2, <2>3, <2>4, <2>5, <2>6, <2>7 DEF IInv
<1>6. ASSUME IInv, Deliver PROVE IInv'
  <2>1. TypeOK'
    BY <1>6
      DEF IInv, TypeOK, requestVars, threadVars, history, Deliver
  <2>2. Numbered'
    BY <1>6
      DEF IInv, Numbered, TypeOK, requestVars, threadVars, history,
        Deliver
  <2>3. Stopping'
    BY <1>6
      DEF IInv, Stopping, Numbered, TypeOK, requestVars, threadVars,
        history, Deliver
  <2>4. Quiet'
    BY <1>6
      DEF IInv, Quiet, Stopping, Busy, TypeOK, requestVars, threadVars,
        history, Deliver
  <2>5. Busy'
    BY <1>6
      DEF IInv, Busy, Quiet, Sent, Got, Numbered, Stopping, TypeOK,
        requestVars, threadVars, history, Deliver, Report, Reports,
        Requests, Kinds
  <2>6. Prompt'
    BY <1>6
      DEF IInv, Prompt, TypeOK, requestVars, threadVars, history,
        Deliver
  <2>7. GivenAll'
    BY <1>6
      DEF IInv, GivenAll, Wanted, Busy, Sent, Got, Numbered, Stopping,
        Quiet, TypeOK, requestVars, threadVars, history, Deliver,
        Reports, Report, Requests, Kinds
  <2> QED BY <2>1, <2>2, <2>3, <2>4, <2>5, <2>6, <2>7 DEF IInv
<1>7. ASSUME IInv, Complete PROVE IInv'
  <2>a. /\ done \in Requests /\ kind[done] \in Kinds
        /\ Report("taf", done) \in Reports
    BY <1>7, ReportType DEF IInv, Numbered, Complete
  <2>1. CASE mode = "metartaf"
    <3>0. /\ mpc = "completing" /\ thread \in {"none", "ended"}
          /\ mpc' = "idle" /\ rxbuffer' = Nothing
          /\ UNCHANGED <<done, fetching, pending, requests, aborts, kind,
                         failures, aborted, disturbed, meddled>>
          /\ metartaf' = metartaf \cup
                          (IF rxbuffer = Nothing THEN {} ELSE {rxbuffer})
          /\ url' = Report("taf", done) /\ mode' = "metarortaf"
          /\ thread' = "started" /\ given' = given
      BY <1>7, <2>1 DEF Complete, requestVars
    <3>a. metartaf' \in SUBSET Reports
      BY <1>7, <3>0 DEF IInv, TypeOK
    <3>1. TypeOK'
      BY <1>7, <2>a, <3>0, <3>a, NothingAssumption DEF IInv, TypeOK
    <3>2. Numbered'
      BY <1>7, <2>1, <2>a, <3>0, <3>a, NothingAssumption
      DEF IInv, Numbered, TypeOK, Requests
    <3>3. Stopping'
      BY <1>7, <2>1, <2>a, <3>0, <3>a, NothingAssumption
      DEF IInv, Stopping, Quiet, Numbered, TypeOK
    <3>4. Quiet'
      BY <1>7, <2>1, <2>a, <3>0, <3>a, NothingAssumption
      DEF IInv, Quiet, Stopping, TypeOK
    <3>5. Busy'
      BY <1>7, <2>1, <2>a, <3>0, <3>a, NothingAssumption
      DEF IInv, Busy, Quiet, Sent, Got, Numbered, Stopping, TypeOK,
        Requests
    <3>6. Prompt'
      BY <1>7, <2>1, <2>a, <3>0, <3>a, NothingAssumption
      DEF IInv, Prompt, TypeOK
    <3>7. GivenAll'
      BY <1>7, <2>1, <2>a, <3>0, <3>a, NothingAssumption
      DEF IInv, GivenAll, Wanted, Busy, Sent, Got, Numbered, Stopping,
        Quiet, TypeOK, Report, Reports, Requests, Kinds
    <3> QED BY <3>1, <3>2, <3>3, <3>4, <3>5, <3>6, <3>7 DEF IInv
  <2>2. CASE mode = "metarortaf" /\ rxbuffer # Nothing
    <3>0. /\ mpc = "completing" /\ thread \in {"none", "ended"}
          /\ mpc' = "idle" /\ rxbuffer' = Nothing
          /\ UNCHANGED <<done, fetching, pending, requests, aborts, kind,
                         failures, aborted, disturbed, meddled>>
          /\ given' = [given EXCEPT ![done] =
                         [calls |-> @.calls + 1,
                          reports |-> metartaf \cup {rxbuffer}]]
          /\ metartaf' = {} /\ thread' = "none"
          /\ url' = url /\ mode' = mode
      BY <1>7, <2>2 DEF Complete, requestVars, Give
    <3>a. given' \in [Requests -> [calls : Nat, reports : SUBSET Reports]]
      BY <1>7, <2>2, <2>a, <3>0 DEF IInv, TypeOK
    <3>1. TypeOK'
      BY <1>7, <2>a, <3>0, <3>a DEF IInv, TypeOK
    <3>2. Numbered'
      BY <1>7, <2>2, <2>a, <3>0, <3>a
      DEF IInv, Numbered, TypeOK, Requests
    <3>3. Stopping'
      BY <1>7, <2>2, <2>a, <3>0, <3>a
      DEF IInv, Stopping, Quiet, Numbered, TypeOK
    <3>4. Quiet'
      BY <1>7, <2>2, <2>a, <3>0, <3>a
      DEF IInv, Quiet, Stopping, TypeOK
    <3>5. Busy'
      BY <1>7, <2>2, <2>a, <3>0, <3>a
      DEF IInv, Busy, Quiet, Sent, Got, Numbered, Stopping, TypeOK,
        Requests
    <3>6. Prompt'
      BY <1>7, <2>2, <2>a, <3>0, <3>a
      DEF IInv, Prompt, TypeOK
    <3>7. GivenAll'
      BY <1>7, <2>2, <2>a, <3>0, <3>a
      DEF IInv, GivenAll, Wanted, Busy, Sent, Got, Numbered, Stopping,
        Quiet, TypeOK, Report, Reports, Requests, Kinds
    <3> QED BY <3>1, <3>2, <3>3, <3>4, <3>5, <3>6, <3>7 DEF IInv
  <2>3. CASE mode = "abort" \/ (mode = "metarortaf" /\ rxbuffer = Nothing)
    <3>0. /\ mpc = "completing" /\ thread \in {"none", "ended"}
          /\ mpc' = "idle" /\ rxbuffer' = Nothing
          /\ UNCHANGED <<done, fetching, pending, requests, aborts, kind,
                         failures, aborted, disturbed, meddled>>
          /\ thread' = "none" /\ given' = given
          /\ UNCHANGED <<mode, url, metartaf>>
      BY <1>7, <2>3 DEF Complete, requestVars
    <3>1. TypeOK'
      BY <1>7, <2>a, <3>0 DEF IInv, TypeOK
    <3>2. Numbered'
      BY <1>7, <2>3, <2>a, <3>0
      DEF IInv, Numbered, TypeOK, Requests
    <3>3. Stopping'
      BY <1>7, <2>3, <2>a, <3>0
      DEF IInv, Stopping, Quiet, Numbered, TypeOK
    <3>4. Quiet'
      BY <1>7, <2>3, <2>a, <3>0
      DEF IInv, Quiet, Stopping, TypeOK
    <3>5. Busy'
      BY <1>7, <2>3, <2>a, <3>0
      DEF IInv, Busy, Quiet, Sent, Got, Numbered, Stopping, TypeOK,
        Requests
    <3>6. Prompt'
      BY <1>7, <2>3, <2>a, <3>0
      DEF IInv, Prompt, TypeOK
    <3>7. GivenAll'
      BY <1>7, <2>3, <2>a, <3>0
      DEF IInv, GivenAll, Wanted, Busy, Sent, Got, Numbered, Stopping,
        Quiet, TypeOK, Report, Reports, Requests, Kinds
    <3> QED BY <3>1, <3>2, <3>3, <3>4, <3>5, <3>6, <3>7 DEF IInv
  <2> QED BY <1>7, <2>1, <2>2, <2>3 DEF IInv, TypeOK
<1>8. ASSUME IInv, SetUrl PROVE IInv'
  <2>1. TypeOK'
    BY <1>8
      DEF IInv, TypeOK, requestVars, threadVars, history, SetUrl
  <2>2. Numbered'
    BY <1>8
      DEF IInv, Numbered, TypeOK, requestVars, threadVars, history,
        SetUrl
  <2>3. Stopping'
    BY <1>8
      DEF IInv, Stopping, Numbered, TypeOK, requestVars, threadVars,
        history, SetUrl
  <2>4. Quiet'
    BY <1>8
      DEF IInv, Quiet, Stopping, Busy, TypeOK, requestVars, threadVars,
        history, SetUrl
  <2>5. Busy'
    BY <1>8
      DEF IInv, Busy, Quiet, Sent, Got, Numbered, Stopping, TypeOK,
        requestVars, threadVars, history, SetUrl, Report, Reports,
        Requests, Kinds
  <2>6. Prompt'
    BY <1>8
      DEF IInv, Prompt, TypeOK, requestVars, threadVars, history, SetUrl
  <2>7. GivenAll'
    BY <1>8
      DEF IInv, GivenAll, Wanted, Busy, Sent, Got, Numbered, Stopping,
        Quiet, TypeOK, requestVars, threadVars, history, SetUrl,
        Reports, Report, Requests, Kinds
  <2> QED BY <2>1, <2>2, <2>3, <2>4, <2>5, <2>6, <2>7 DEF IInv
<1>9. ASSUME IInv, TransferOk PROVE IInv'
  <2>1. TypeOK'
    BY <1>9
      DEF IInv, TypeOK, requestVars, threadVars, history, TransferOk
  <2>2. Numbered'
    BY <1>9
      DEF IInv, Numbered, TypeOK, requestVars, threadVars, history,
        TransferOk
  <2>3. Stopping'
    BY <1>9
      DEF IInv, Stopping, Numbered, TypeOK, requestVars, threadVars,
        history, TransferOk
  <2>4. Quiet'
    BY <1>9
      DEF IInv, Quiet, Stopping, Busy, TypeOK, requestVars, threadVars,
        history, TransferOk
  <2>5. Busy'
    BY <1>9
      DEF IInv, Busy, Quiet, Sent, Got, Numbered, Stopping, TypeOK,
        requestVars, threadVars, history, TransferOk, Report, Reports,
        Requests, Kinds
  <2>6. Prompt'
    BY <1>9
      DEF IInv, Prompt, TypeOK, requestVars, threadVars, history,
        TransferOk
  <2>7. GivenAll'
    BY <1>9
      DEF IInv, GivenAll, Wanted, Busy, Sent, Got, Numbered, Stopping,
        Quiet, TypeOK, requestVars, threadVars, history, TransferOk,
        Reports, Report, Requests, Kinds
  <2> QED BY <2>1, <2>2, <2>3, <2>4, <2>5, <2>6, <2>7 DEF IInv
<1>10. ASSUME IInv, TransferFails PROVE IInv'
  <2>1. TypeOK'
    BY <1>10
      DEF IInv, TypeOK, requestVars, threadVars, history, TransferFails
  <2>2. Numbered'
    BY <1>10
      DEF IInv, Numbered, TypeOK, requestVars, threadVars, history,
        TransferFails
  <2>3. Stopping'
    BY <1>10
      DEF IInv, Stopping, Numbered, TypeOK, requestVars, threadVars,
        history, TransferFails
  <2>4. Quiet'
    BY <1>10
      DEF IInv, Quiet, Stopping, Busy, TypeOK, requestVars, threadVars,
        history, TransferFails
  <2>5. Busy'
    BY <1>10
      DEF IInv, Busy, Quiet, Sent, Got, Numbered, Stopping, TypeOK,
        requestVars, threadVars, history, TransferFails, Report,
        Reports, Requests, Kinds
  <2>6. Prompt'
    BY <1>10
      DEF IInv, Prompt, TypeOK, requestVars, threadVars, history,
        TransferFails
  <2>7. GivenAll'
    BY <1>10
      DEF IInv, GivenAll, Wanted, Busy, Sent, Got, Numbered, Stopping,
        Quiet, TypeOK, requestVars, threadVars, history, TransferFails,
        Reports, Report, Requests, Kinds
  <2> QED BY <2>1, <2>2, <2>3, <2>4, <2>5, <2>6, <2>7 DEF IInv
<1>11. ASSUME IInv, Dispatch PROVE IInv'
  <2>1. TypeOK'
    BY <1>11
      DEF IInv, TypeOK, requestVars, threadVars, history, Dispatch
  <2>2. Numbered'
    BY <1>11
      DEF IInv, Numbered, TypeOK, requestVars, threadVars, history,
        Dispatch
  <2>3. Stopping'
    BY <1>11
      DEF IInv, Stopping, Numbered, TypeOK, requestVars, threadVars,
        history, Dispatch
  <2>4. Quiet'
    BY <1>11
      DEF IInv, Quiet, Stopping, Busy, TypeOK, requestVars, threadVars,
        history, Dispatch
  <2>5. Busy'
    BY <1>11
      DEF IInv, Busy, Quiet, Sent, Got, Numbered, Stopping, TypeOK,
        requestVars, threadVars, history, Dispatch, Report, Reports,
        Requests, Kinds
  <2>6. Prompt'
    BY <1>11
      DEF IInv, Prompt, TypeOK, requestVars, threadVars, history,
        Dispatch
  <2>7. GivenAll'
    BY <1>11
      DEF IInv, GivenAll, Wanted, Busy, Sent, Got, Numbered, Stopping,
        Quiet, TypeOK, requestVars, threadVars, history, Dispatch,
        Reports, Report, Requests, Kinds
  <2> QED BY <2>1, <2>2, <2>3, <2>4, <2>5, <2>6, <2>7 DEF IInv
<1>12. ASSUME IInv, UNCHANGED vars PROVE IInv'
  BY <1>12 DEF IInv, TypeOK, Numbered, Stopping, Quiet, Busy, Sent, Got, Prompt,
    GivenAll, Wanted, vars, requestVars, threadVars, history
<1>13. IInv /\ [Next]_vars => IInv'
  BY <1>1, <1>2, <1>3, <1>4, <1>5, <1>6, <1>7, <1>8, <1>9, <1>10, <1>11, <1>12
  DEF Next, MainLoop, Curlio
<1> QED BY <1>0, <1>13, PTL DEF Spec

(* A callback is called once and given all its request asked for, whatever *)
(* calls, aborts and failed transfers came between, but for the excuses    *)
(* that GivenAll names.                                                    *)
THEOREM AddsGivenAll == Spec => []GivenAll
  BY AddsInvariant, PTL DEF IInv

(* Until the first abort() complete() joins a thread that has ended.       *)
THEOREM AddsWaits == Spec => []WaitsOnlyForAborted
<1>1. IInv => WaitsOnlyForAborted
  BY DEF IInv, TypeOK, Prompt, WaitsOnlyForAborted
<1> QED BY <1>1, AddsInvariant, PTL

(* abort() silences a callback for good: the dispatch it leaves behind     *)
(* finds nothing to hand out, unless metar_taf() has changed m_mode for it.*)
THEOREM AddsSilent == Spec => SilentAfterAbort
<1>1. ASSUME IInv, [Next]_vars, NEW r \in aborted
      PROVE  given'[r] = given[r] \/ meddled
  <2>1. CASE Nowhere
    <3>1. requests + 1 \in Requests /\ requests + 1 > requests
      BY <1>1, <2>1, BoundAssumption
      DEF IInv, TypeOK, Nowhere, CanCall, Requests
    <3>2. r # requests + 1
      BY <1>1, <3>1 DEF IInv, Numbered
    <3> QED BY <1>1, <2>1, <3>1, <3>2 DEF IInv, TypeOK, Nowhere, Give
  <2>2. CASE Complete
    <3>1. CASE ~meddled /\ mode = "metarortaf" /\ rxbuffer # Nothing
      <4>1. thread # "none" /\ mpc # "aborting"
        BY <1>1, <2>2, <3>1 DEF IInv, Quiet, Complete
      <4>2. r # done
        BY <1>1, <3>1, <4>1 DEF IInv, Stopping
      <4> QED
        BY <1>1, <2>2, <3>1, <4>2 DEF IInv, TypeOK, Complete, Give
    <3>2. CASE ~(mode = "metarortaf" /\ rxbuffer # Nothing)
      BY <2>2, <3>2 DEF Complete, requestVars
    <3> QED BY <3>1, <3>2
  <2>3. CASE given' = given
    BY <2>3
  <2> QED
    BY <1>1, <2>1, <2>2, <2>3
    DEF Next, vars, history, MainLoop, Curlio, Call, MetarOrTafNowhere,
      MetarTafNowhere, Abort, Aborted, Deliver, SetUrl, TransferOk,
      TransferFails, Dispatch
<1>2. IInv /\ [Next]_vars =>
        [\A r \in aborted : given'[r] = given[r] \/ meddled]_vars
  BY <1>1
<1> QED BY <1>2, AddsInvariant, PTL DEF Spec, SilentAfterAbort

=============================================================================
