-------------------------------- MODULE ADDS --------------------------------
(***************************************************************************)
(* ADDS, the client of a weather service: the METARs and TAFs of an area   *)
(* are fetched by a thread made for each HTTP transfer (curlio), which     *)
(* ends by calling a Dispatcher; complete() then runs in the main loop,    *)
(* joins the thread and hands the reports to the caller.  metar_taf() is   *)
(* two transfers, the second started by complete() of the first.           *)
(*                                                                         *)
(* There is one object for all requests: m_mode, m_url, m_metartaf and the *)
(* slot of the caller are overwritten by a call, and m_mode and m_url are  *)
(* read by the thread without a lock.  A call while a transfer is going on *)
(* throws, after it has overwritten some of them.  A dispatch cannot be    *)
(* taken back: after abort() the one of the thread that was joined is      *)
(* still to come.                                                          *)
(*                                                                         *)
(* Requests are numbered; a report is named by what was asked for and by   *)
(* the request it was fetched for.                                         *)
(***************************************************************************)
EXTENDS Naturals, FiniteSets

CONSTANTS
    MaxRequests,    \* calls of metar(), taf() and metar_taf() (bound)
    MaxAborts,      \* calls of abort() (bound)
    Nothing         \* no URL, no answer

ASSUME BoundAssumption ==
    /\ MaxRequests \in Nat
    /\ MaxAborts \in Nat

Requests == 1..MaxRequests
Reports == [what: {"metar", "taf"}, request: Requests]
ASSUME NothingAssumption == Nothing \notin Reports

VARIABLES
    mode,           \* m_mode
    url,            \* m_url: the reports it asks for
    rxbuffer,       \* m_rxbuffer: the reports in it
    metartaf,       \* m_metartaf
    done,           \* m_metartaf_done and m_bbox: the request they belong to
    thread,         \* m_thread, and how far curlio() has got
    fetching,       \* the URL curl has been given
    pending,        \* dispatches not yet delivered
    mpc,            \* where the main thread is
    requests,       \* calls made
    aborts,
    kind,           \* history: what each request asked for
    given,          \* history: what each callback was given, and how often
    failures,       \* history: the reports that could not be fetched
    aborted,        \* history: requests ended by abort(), or refused
    disturbed,      \* history: requests under way when another one came
    meddled         \* history: see MetarTafNowhere

requestVars == <<mode, url, metartaf, done>>
threadVars == <<rxbuffer, thread, fetching, pending>>
history == <<kind, given, failures, aborted, disturbed, meddled>>
vars == <<requestVars, threadVars, mpc, requests, aborts, history>>

Kinds == {"metar", "taf", "metartaf"}
Wanted(r) ==
    {rep \in Reports : rep.request = r /\ kind[r] \in {rep.what, "metartaf"}}

TypeOK ==
    /\ mode \in {"abort", "metarortaf", "metartaf"}
    /\ url \in Reports \cup {Nothing}
    /\ rxbuffer \in Reports \cup {Nothing}
    /\ metartaf \in SUBSET Reports
    /\ done \in Requests \cup {0}
    /\ thread \in {"none", "started", "transfer", "dispatching", "ended"}
    /\ fetching \in Reports \cup {Nothing}
    /\ pending \in Nat
    /\ mpc \in {"idle", "aborting", "completing"}
    /\ requests \in 0..MaxRequests
    /\ aborts \in 0..MaxAborts
    /\ kind \in [Requests -> Kinds \cup {"none", "nowhere"}]
    /\ given \in [Requests -> [calls: Nat, reports: SUBSET Reports]]
    /\ failures \in SUBSET Reports
    /\ aborted \in SUBSET Requests
    /\ disturbed \in SUBSET Requests
    /\ meddled \in BOOLEAN
    /\ thread # "none" => url # Nothing
    /\ thread = "transfer" => fetching # Nothing
    /\ mpc = "aborting" => thread # "none"

Init ==
    /\ mode = "abort"
    /\ url = Nothing
    /\ rxbuffer = Nothing
    /\ metartaf = {}
    /\ done = 0
    /\ thread = "none"
    /\ fetching = Nothing
    /\ pending = 0
    /\ mpc = "idle"
    /\ requests = 0
    /\ aborts = 0
    /\ kind = [r \in Requests |-> "none"]
    /\ given = [r \in Requests |-> [calls |-> 0, reports |-> {}]]
    /\ failures = {}
    /\ aborted = {}
    /\ disturbed = {}
    /\ meddled = FALSE

Report(w, r) == [what |-> w, request |-> r]

(* m_metartaf_done(reports) *)
Give(r, reports) ==
    given' = [given EXCEPT ![r] = [calls |-> @.calls + 1,
                                   reports |-> reports]]

(* A request is under way until its callback is called, or it is aborted.  *)
UnderWay == IF thread # "none" THEN {done} ELSE {}

-----------------------------------------------------------------------------
(* Plausible mistakes, for the checks to notice; the specification does    *)
(* not use this section.                                                   *)

(* the METARs are not put aside while the TAFs are asked for *)
Complete_NoSwap ==
    /\ mpc = "completing"
    /\ thread \in {"none", "ended"}
    /\ mpc' = "idle"
    /\ rxbuffer' = Nothing
    /\ LET answer == IF rxbuffer = Nothing THEN {} ELSE {rxbuffer}
       IN  CASE mode = "metartaf" ->
                  /\ metartaf' = {}
                  /\ url' = Report("taf", done)
                  /\ mode' = "metarortaf"
                  /\ thread' = "started"
                  /\ UNCHANGED given
             [] mode = "metarortaf" /\ answer # {} ->
                  /\ Give(done, metartaf \cup answer)
                  /\ metartaf' = {}
                  /\ thread' = "none"
                  /\ UNCHANGED <<url, mode>>
             [] OTHER -> thread' = "none" /\ UNCHANGED <<requestVars, given>>
    /\ UNCHANGED <<done, fetching, pending, requests, aborts, kind, failures,
                   aborted, disturbed, meddled>>

(* abort() leaves m_mode alone *)
Abort_KeepsMode ==
    /\ mpc = "idle"
    /\ aborts < MaxAborts
    /\ thread # "none"
    /\ mpc' = "aborting"
    /\ aborts' = aborts + 1
    /\ aborted' = aborted \cup UnderWay
    /\ UNCHANGED <<requestVars, threadVars, requests, kind, given, failures,
                   disturbed, meddled>>

(* complete() starts before the thread has ended *)
Dispatch_Early ==
    /\ thread = "started"
    /\ fetching' = url
    /\ thread' = "transfer"
    /\ pending' = pending + 1
    /\ UNCHANGED <<requestVars, rxbuffer, mpc, requests, aborts, history>>

(* curlio() says nothing when the transfer has failed *)
Dispatch_SuccessOnly ==
    /\ thread = "dispatching"
    /\ thread' = "ended"
    /\ pending' = IF rxbuffer = Nothing THEN pending ELSE pending + 1
    /\ UNCHANGED <<requestVars, rxbuffer, fetching, mpc, requests, aborts,
                   history>>

-----------------------------------------------------------------------------
(* The main thread: the calls. *)

CanCall == mpc = "idle" /\ requests < MaxRequests

(* metar(), taf() and metar_taf() for an area that is not empty.  The      *)
(* METARs found so far and m_url are overwritten before start_request()    *)
(* looks whether there is a thread.                                        *)
Call(k) ==
    /\ CanCall
    /\ LET r == requests + 1
           first == IF k = "taf" THEN "taf" ELSE "metar"
       IN  /\ requests' = r
           /\ kind' = [kind EXCEPT ![r] = k]
           /\ metartaf' = {}
           /\ url' = Report(first, r)
           /\ disturbed' = disturbed \cup UnderWay
           /\ IF thread # "none"
              THEN /\ UNCHANGED <<mode, done, rxbuffer, thread>>
                   /\ aborted' = aborted \cup {r}
              ELSE /\ rxbuffer' = Nothing
                   /\ mode' = IF k = "metartaf" THEN "metartaf"
                                                ELSE "metarortaf"
                   /\ thread' = "started"
                   /\ done' = r
                   /\ UNCHANGED aborted
    /\ UNCHANGED <<fetching, pending, mpc, aborts, given, failures, meddled>>

(* A call for an empty area: the callback is called at once.               *)
Nowhere ==
    /\ CanCall
    /\ requests' = requests + 1
    /\ kind' = [kind EXCEPT ![requests + 1] = "nowhere"]
    /\ metartaf' = {}
    /\ Give(requests + 1, {})
    /\ disturbed' = disturbed \cup UnderWay
    /\ UNCHANGED <<url, done, threadVars, mpc, aborts, failures, aborted>>

MetarOrTafNowhere ==
    /\ Nowhere
    /\ UNCHANGED <<mode, meddled>>

(* metar_taf() does not know that metar() has started nothing, and sets    *)
(* m_mode, for whatever is still to come.                                  *)
MetarTafNowhere ==
    /\ Nowhere
    /\ mode' = "metartaf"
    /\ meddled' = (meddled \/ thread # "none" \/ pending > 0)

(* abort(): m_mode, which curl's progress function looks at, and join().   *)
Abort ==
    /\ mpc = "idle"
    /\ aborts < MaxAborts
    /\ thread # "none"
    /\ mpc' = "aborting"
    /\ mode' = "abort"
    /\ aborts' = aborts + 1
    /\ aborted' = aborted \cup UnderWay
    /\ UNCHANGED <<url, metartaf, done, threadVars, requests, kind, given,
                   failures, disturbed, meddled>>

Aborted ==
    /\ mpc = "aborting"
    /\ thread = "ended"
    /\ thread' = "none"
    /\ mpc' = "idle"
    /\ UNCHANGED <<requestVars, rxbuffer, fetching, pending, requests,
                   aborts, history>>

-----------------------------------------------------------------------------
(* The main thread: complete(). *)

Deliver ==
    /\ mpc = "idle"
    /\ pending > 0
    /\ pending' = pending - 1
    /\ mpc' = "completing"
    /\ UNCHANGED <<requestVars, rxbuffer, thread, fetching, requests, aborts,
                   history>>

(* When the thread is joined the answer is parsed.  In mode_metartaf the   *)
(* METARs are put aside while taf() starts the second transfer, for the    *)
(* area and the slot stored; in mode_metarortaf the callback is called, if *)
(* there is an answer.                                                     *)
Complete ==
    /\ mpc = "completing"
    /\ thread \in {"none", "ended"}
    /\ mpc' = "idle"
    /\ rxbuffer' = Nothing
    /\ LET answer == IF rxbuffer = Nothing THEN {} ELSE {rxbuffer}
       IN  CASE mode = "metartaf" ->
                  /\ metartaf' = metartaf \cup answer
                  /\ url' = Report("taf", done)
                  /\ mode' = "metarortaf"
                  /\ thread' = "started"
                  /\ UNCHANGED given
             [] mode = "metarortaf" /\ answer # {} ->
                  /\ Give(done, metartaf \cup answer)
                  /\ metartaf' = {}
                  /\ thread' = "none"
                  /\ UNCHANGED <<url, mode>>
             [] OTHER -> thread' = "none" /\ UNCHANGED <<requestVars, given>>
    /\ UNCHANGED <<done, fetching, pending, requests, aborts, kind, failures,
                   aborted, disturbed, meddled>>

-----------------------------------------------------------------------------
(* The thread: curlio(). *)

(* curl_easy_setopt(curl, CURLOPT_URL, m_url.c_str()) *)
SetUrl ==
    /\ thread = "started"
    /\ fetching' = url
    /\ thread' = "transfer"
    /\ UNCHANGED <<requestVars, rxbuffer, pending, mpc, requests, aborts,
                   history>>

(* curl_easy_perform() returns CURLE_OK and there is a document in the     *)
(* buffer, ...                                                             *)
TransferOk ==
    /\ thread = "transfer"
    /\ rxbuffer' = fetching
    /\ thread' = "dispatching"
    /\ UNCHANGED <<requestVars, fetching, pending, mpc, requests, aborts,
                   history>>

(* ... or it does not, for a failure or because m_mode is mode_abort.      *)
TransferFails ==
    /\ thread = "transfer"
    /\ rxbuffer' = Nothing
    /\ failures' = failures \cup {fetching}
    /\ thread' = "dispatching"
    /\ UNCHANGED <<requestVars, fetching, pending, mpc, requests, aborts,
                   kind, given, aborted, disturbed, meddled>>

Dispatch ==
    /\ thread = "dispatching"
    /\ thread' = "ended"
    /\ pending' = pending + 1
    /\ UNCHANGED <<requestVars, rxbuffer, fetching, mpc, requests, aborts,
                   history>>

-----------------------------------------------------------------------------
Curlio == SetUrl \/ TransferOk \/ TransferFails \/ Dispatch
MainLoop == Aborted \/ Deliver \/ Complete

Next ==
    \/ \E k \in Kinds : Call(k)
    \/ MetarOrTafNowhere
    \/ MetarTafNowhere
    \/ Abort
    \/ MainLoop
    \/ Curlio

(* Transfers end, and the main loop and the thread go on.                  *)
Spec == Init /\ [][Next]_vars
FairSpec == Spec /\ WF_vars(MainLoop) /\ WF_vars(Curlio)

-----------------------------------------------------------------------------
(* A callback is called once only, and given all that was asked for, but   *)
(* for what could not be fetched, and nothing else; unless another call    *)
(* came while the request was under way, or m_mode was changed for what    *)
(* was still to come.                                                      *)
GivenAll ==
    \A r \in Requests :
        \/ given[r].calls = 0
        \/ meddled
        \/ given[r].calls = 1 /\ r \in disturbed
        \/ /\ given[r].calls = 1
           /\ given[r].reports \subseteq Wanted(r)
           /\ Wanted(r) \ given[r].reports \subseteq failures

(* A callback is never called after abort(), under the same condition on   *)
(* m_mode.                                                                 *)
SilentAfterAbort ==
    [][\A r \in aborted : given'[r] = given[r] \/ meddled]_vars

(* complete() and with it the user interface waits for a transfer only     *)
(* after an abort(), when it was called by the dispatch of an earlier      *)
(* thread.                                                                 *)
WaitsOnlyForAborted ==
    mpc = "completing" /\ thread \in {"started", "transfer"} =>
        aborts > 0

(* Every request ends in a call of its callback, unless it was aborted or  *)
(* refused, or what it asked for last could not be fetched; or unless, as  *)
(* in GivenAll, another call came while it was under way (disturbed), or   *)
(* m_mode was changed for what was still to come (meddled).                *)
Answered(r) == given[r].calls > 0
Excused(r) ==
    r \in aborted \cup disturbed \/ meddled
    \/ Report(IF kind[r] = "metar" THEN "metar" ELSE "taf", r) \in failures
EveryoneAnswered ==
    \A r \in Requests : requests >= r ~> Answered(r) \/ Excused(r)

=============================================================================
