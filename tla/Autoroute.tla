----------------------------- MODULE Autoroute -----------------------------
(***************************************************************************)
(* The iteration of the autorouter (CFMUAutoroute51, cfmuautoroute         *)
(* --machineinterface) between its graph and an external validator.        *)
(* lgraphroute() proposes the best route of the graph and checks it        *)
(* against the restrictions it knows; if it violates any, the graph is     *)
(* changed and lgraphroute() runs again from an idle callback, otherwise   *)
(* the route goes to the validator, a child process, and its answer either *)
(* ends the run or changes the graph for the next route.                   *)
(*                                                                         *)
(* The program has one thread, but is_stopped(), called in the middle of   *)
(* these functions, runs the main loop until no event is left: commands,   *)
(* answers, timers and idle callbacks are dispatched on top of the         *)
(* function that called it.  stack holds these functions; the topmost is   *)
(* in is_stopped(), and what it does until it calls is_stopped() again, or *)
(* returns, is one action.  A source that is being dispatched is not       *)
(* dispatched again, so a command waits until the handler of the one       *)
(* before has returned.                                                    *)
(*                                                                         *)
(* The operators are the functions of the class: they take the state s,    *)
(* and a source src for the bottom of the handler, and return the state    *)
(* after the call, or the set of the states it may lead to.                *)
(***************************************************************************)
EXTENDS Naturals, Sequences, FiniteSets

CONSTANTS
    MaxLocal,       \* m_maxlocaliteration
    MaxRemote,      \* m_maxremoteiteration
    MaxTimeouts,    \* 5 in child_timeout()
    MaxAsked,       \* commands of the user (bound)
    MaxNested       \* functions under way when something happens (bound)

ASSUME AutorouteAssumption ==
    {MaxLocal, MaxRemote, MaxTimeouts, MaxAsked, MaxNested} \subseteq Nat

VARIABLES
    running, done,  \* m_running, m_done
    graph,          \* whether the graph has its endpoints
    response,       \* m_validationresponse: no line, one that says that there
                    \* are no errors ("ok"), or anything else ("error")
    tries,          \* m_iterationcount (local, remote), m_childtimeoutcount
    idles,          \* pending idle callbacks of lgraphroute()
    timer,          \* m_connchildtimeout is connected
    orphans,        \* timers whose connection has been overwritten
    child,          \* m_childrun
    plans,          \* the routes the validator has yet to judge: whether
                    \* each of them is still m_route
    answers,        \* the lines of the validator that have not been read
    stack,          \* functions in is_stopped(), the innermost first
    good,           \* history: m_route has been found good
    crossed,        \* history: this run has met another activity
    asked           \* the number of commands so far

vars == <<running, done, graph, response, tries, idles, timer, orphans, child,
          plans, answers, stack, good, crossed, asked>>

Now == [running |-> running, done |-> done, graph |-> graph,
        response |-> response, tries |-> tries, idles |-> idles,
        timer |-> timer, orphans |-> orphans, child |-> child,
        plans |-> plans, answers |-> answers, stack |-> stack,
        good |-> good, crossed |-> crossed]

Becomes(s) ==
    /\ running' = s.running /\ done' = s.done
    /\ graph' = s.graph
    /\ response' = s.response /\ tries' = s.tries
    /\ idles' = s.idles
    /\ timer' = s.timer /\ orphans' = s.orphans
    /\ child' = s.child /\ plans' = s.plans /\ answers' = s.answers
    /\ stack' = s.stack
    /\ good' = s.good /\ crossed' = s.crossed

Init ==
    /\ running = FALSE /\ done = FALSE
    /\ graph = FALSE
    /\ response = "none" /\ tries = [local |-> 0, remote |-> 0, timeout |-> 0]
    /\ idles = 0
    /\ timer = FALSE /\ orphans = 0
    /\ child = FALSE /\ plans = <<>> /\ answers = <<>>
    /\ stack = <<>>
    /\ good = FALSE /\ crossed = FALSE
    /\ asked = 0

(* Where a function waits in is_stopped(): lgraphroute() before it         *)
(* proposes a route, during the search for mandatory routes, and after the *)
(* check, which has found the route good or not; parse_response();         *)
(* child_timeout().                                                        *)
Routing == {"top", "local", "good", "bad", "parse"}
Frame(src, at) == [src |-> src, at |-> at]
Push(s, src, at) == [s EXCEPT !.stack = <<Frame(src, at)>> \o @]
Dispatching(s, src) == \E i \in DOMAIN s.stack : s.stack[i].src = src

(* m_route changes; lgraphclearcurrent().                                  *)
NewRoute(s) == [s EXCEPT !.good = FALSE, !.plans = [i \in DOMAIN @ |-> FALSE]]
ClearCurrent(s) == [NewRoute(s) EXCEPT !.response = "none"]

-----------------------------------------------------------------------------
(* The validator's process                                                 *)

(* What has been written to it and what it has written are lost; a handler *)
(* of its output may still be on the stack.  m_validationresponse stays.   *)
ChildClose_Reads(s) == [s EXCEPT !.child = FALSE, !.plans = <<>>]
ChildClose(s) ==
    [s EXCEPT !.child = FALSE, !.plans = <<>>, !.answers = <<>>,
              !.stack = [i \in DOMAIN @ |->
                           IF @[i].src = "output" THEN Frame("past", @[i].at)
                           ELSE @[i]]]

(* The process may fail to start.                                          *)
ChildRun(s) == IF s.child THEN {s} ELSE {s, [s EXCEPT !.child = TRUE]}

Stop(s) == [s EXCEPT !.tries.timeout = 0, !.timer = FALSE, !.running = FALSE]

Clear(s) == [ClearCurrent(Stop(s)) EXCEPT !.done = FALSE, !.graph = FALSE]

-----------------------------------------------------------------------------
(* The iteration                                                           *)

(* lgraphroute() up to its first is_stopped().                             *)
Route(s, src) ==
    IF \/ ~s.graph
       \/ s.tries.local > MaxLocal \/ s.tries.remote > MaxRemote
    THEN Stop(s)
    ELSE Push(s, src, "top")

(* lgraphsubmitroute(), of a route that is not flown by VFR throughout.    *)
Submit(s) ==
    LET t == [s EXCEPT !.tries.remote = @ + 1]
    IN {IF u.child
        THEN [u EXCEPT !.plans = Append(@, TRUE), !.tries.timeout = 0,
                       !.timer = TRUE]
        ELSE Stop(u) : u \in ChildRun(t)}

(* lgraphroute() goes on: there is no route any more, or the next one has  *)
(* been set and checked.                                                   *)
Propose(s, src) ==
    {Stop(ClearCurrent(s))} \cup
    {Push(ClearCurrent(s), src, at) : at \in {"local", "good", "bad"}}

(* The search for a mandatory route finds one that is good, or gives up.   *)
Mandatory(s, src) ==
    {Push(ClearCurrent(s), src, "good"), Push(ClearCurrent(s), src, "bad"),
     Push(s, src, "bad")}

(* The graph has been changed: the next route is left to an idle callback. *)
Again(s) == [s EXCEPT !.tries.local = @ + 1, !.idles = @ + 1]

(* parse_response(): accepted are "NO ERRORS" and an empty response.       *)
Accepted(s) == s.response \in {"none", "ok"}
Parse(s, src) ==
    IF Accepted(s)
    THEN {Route(s, src), Stop([s EXCEPT !.done = TRUE])}
    ELSE {Route(s, src), Stop(s)}

(* child_timeout(): the route is sent once more to a new process.  The     *)
(* connection of a timer that was armed meanwhile is overwritten.  A timer *)
(* that has disconnected another instead of itself goes on.                *)
(* Mutant: the process is not replaced.                                    *)
Timeout_KeepsChild(s, src) ==
    LET late == s.tries.timeout + 1 > MaxTimeouts
        t == [s EXCEPT !.tries.timeout = @ + 1,
                       !.crossed = @ \/ \E i \in DOMAIN s.stack :
                                          s.stack[i].at \in Routing]
        Sent(u) == [u EXCEPT !.plans = Append(@, TRUE), !.timer = TRUE,
                             !.orphans = @ + (IF s.timer THEN 1 ELSE 0) +
                                         (IF src = "orphan" THEN 1 ELSE 0)]
    IN IF late THEN {ChildClose(Stop(t))}
       ELSE {IF u.child THEN Sent(u) ELSE Stop(u) : u \in ChildRun(t)}

(* Mutant: the timeouts are not counted.                                   *)
Timeout_Uncounted(s, src) ==
    LET t == [s EXCEPT !.crossed = @ \/ \E i \in DOMAIN s.stack :
                                          s.stack[i].at \in Routing]
        Sent(u) == [u EXCEPT !.plans = Append(@, TRUE), !.timer = TRUE,
                             !.orphans = @ + (IF s.timer THEN 1 ELSE 0) +
                                         (IF src = "orphan" THEN 1 ELSE 0)]
    IN {IF u.child THEN Sent(u) ELSE Stop(u) : u \in ChildRun(ChildClose(t))}

Timeout(s, src) ==
    LET late == s.tries.timeout + 1 > MaxTimeouts
        t == [s EXCEPT !.tries.timeout = @ + 1,
                       !.crossed = @ \/ \E i \in DOMAIN s.stack :
                                          s.stack[i].at \in Routing]
        Sent(u) == [u EXCEPT !.plans = Append(@, TRUE), !.timer = TRUE,
                             !.orphans = @ + (IF s.timer THEN 1 ELSE 0) +
                                         (IF src = "orphan" THEN 1 ELSE 0)]
    IN IF late THEN {ChildClose(Stop(t))}
       ELSE {IF u.child THEN Sent(u) ELSE Stop(u)
               : u \in ChildRun(ChildClose(t))}

(* What a function does after is_stopped().  lgraphroute() goes on to the  *)
(* idle callback when the check has failed; a stopped run returns at once. *)
Continue(s, frame) ==
    IF ~s.running THEN {s}
    ELSE CASE frame.at = "top" -> Propose(s, frame.src)
           [] frame.at = "local" -> Mandatory(s, frame.src)
           [] frame.at = "good" -> Submit(s)
           [] frame.at = "bad" -> {Again(s)}
           [] frame.at = "parse" -> Parse(s, frame.src)
           [] frame.at = "timeout" -> Timeout(s, frame.src)

-----------------------------------------------------------------------------
(* The main loop                                                           *)

Readable == child /\ answers # <<>> /\ ~Dispatching(Now, "output")

(* is_stopped() returns when no source is ready.                           *)
Resume ==
    /\ stack # <<>>
    /\ idles = 0 /\ ~Readable
    /\ \E s \in Continue([Now EXCEPT !.stack = Tail(@)], Head(stack)) :
          Becomes(s)
    /\ UNCHANGED asked

(* An idle callback: the sources of a higher priority are not ready.       *)
Idle ==
    /\ idles > 0 /\ ~Readable
    /\ Becomes(Route([Now EXCEPT !.idles = @ - 1], "idle"))
    /\ UNCHANGED asked

(* child_stdout_handler(): a line of an answer, or the empty line that     *)
(* ends it.                                                                *)
ReadLine ==
    /\ Readable
    /\ LET read == [Now EXCEPT !.answers = Tail(@)]
       IN Becomes(IF Head(answers) = "end"
                  THEN Push([read EXCEPT !.timer = FALSE], "output", "parse")
                  ELSE [read EXCEPT !.response = IF @ = "none"
                                                 THEN Head(answers)
                                                 ELSE "error"])
    /\ UNCHANGED asked

(* child_stdout_handler(): the end of the file of a validator that exits.  *)
Eof ==
    /\ child /\ answers = <<>> /\ ~Dispatching(Now, "output")
    /\ Len(stack) < MaxNested
    /\ Becomes(Stop(ChildClose(Now)))
    /\ UNCHANGED asked

(* child_watch(): the exit of the validator, when it is noticed first.     *)
Watch ==
    /\ child
    /\ Len(stack) < MaxNested
    /\ Becomes(Push([ChildClose(Now) EXCEPT !.timer = FALSE],
                    "watch", "timeout"))
    /\ UNCHANGED asked

(* child_timeout() as the timer calls it.                                  *)
Expire ==
    /\ timer
    /\ Len(stack) < MaxNested
    /\ Becomes(Push([Now EXCEPT !.timer = FALSE], "timer", "timeout"))
    /\ UNCHANGED asked

ExpireOrphan ==
    /\ orphans > 0
    /\ Len(stack) < MaxNested
    /\ Becomes(Push([Now EXCEPT !.orphans = @ - 1, !.timer = FALSE],
                    "orphan", "timeout"))
    /\ UNCHANGED asked

-----------------------------------------------------------------------------
(* machine_input(): the commands of the user                               *)

(* What is left of earlier runs may enter the one that starts.             *)
Remains(s) ==
    \/ \E i \in DOMAIN s.stack : s.stack[i].at \in Routing
    \/ s.idles > 0
    \/ s.plans # <<>> \/ s.answers # <<>>

Run(s) == [s EXCEPT !.running = TRUE, !.crossed = Remains(s)]

(* start(): it is refused, or answered at once with a route that needs no  *)
(* search (VFR, or a pair with a fixed way between), or the graph cannot be *)
(* loaded, or the search begins, on the old graph when the command is      *)
(* continue and there is one.                                              *)
Start(cont) ==
    \E s \in ChildRun([Stop(Now) EXCEPT !.done = FALSE]) :
      LET cleared == [Clear(s) EXCEPT !.tries.local = 0, !.tries.remote = 0]
          Found(t) == [t EXCEPT !.tries.local = 1, !.done = TRUE,
                                !.good = TRUE]
          begun == Run(IF cont /\ graph THEN s
                       ELSE [cleared EXCEPT !.graph = TRUE])
      IN \/ Becomes(Clear(s))
         \/ Becomes(Found(cleared)) \/ Becomes(Found(NewRoute(s)))
         \/ ~(cont /\ graph) /\ Becomes(cleared)
         \/ Becomes(Route(begun, "command"))

Command ==
    /\ asked < MaxAsked
    /\ Len(stack) < MaxNested
    /\ ~Dispatching(Now, "command")
    /\ asked' = asked + 1
    /\ \/ \E cont \in BOOLEAN : Start(cont)
       \/ Becomes(Stop(Now))
       \/ Becomes(Clear(Now))

(* The validator judges the next route it has been given.                  *)
Validator ==
    /\ child
    /\ plans # <<>>
    /\ \E line \in {"ok", "error"} :
         Becomes([Now EXCEPT !.plans = Tail(@),
                             !.answers = @ \o <<line, "end">>,
                             !.good = IF Head(plans) THEN line = "ok"
                                      ELSE @])
    /\ UNCHANGED asked

Next ==
    \/ Resume \/ Idle \/ ReadLine
    \/ Eof \/ Watch
    \/ Expire \/ ExpireOrphan
    \/ Command
    \/ Validator

Spec == Init /\ [][Next]_vars

(* The main loop calls what is ready, and a timer expires.  The validator  *)
(* need not answer.                                                        *)
FairSpec ==
    /\ Spec
    /\ WF_vars(Resume \/ Idle \/ ReadLine)
    /\ WF_vars(Expire)

-----------------------------------------------------------------------------
(* A run that ends with success has a route that the validator has found   *)
(* good, or one for which it is not asked, and not the route after it: the *)
(* answer that parse_response() accepts is the answer to this route.       *)
SuccessIsJudged == done => good \/ crossed

(* One chain of work: of the functions of the iteration, the idle          *)
(* callbacks and the answers the validator owes or has given there is one  *)
(* at a time, so no route is searched while another is with the validator. *)
Ends == Cardinality({i \in DOMAIN answers : answers[i] = "end"})
AtWork == Cardinality({i \in DOMAIN stack : stack[i].at \in Routing})
OneChain ==
    running /\ ~crossed => AtWork + idles + Len(plans) + Ends <= 1

(* A run ends, whatever the validator does: routes, attempts and timeouts  *)
(* are counted, and someone always has the next step.                      *)
RunEnds == running ~> ~running

=============================================================================
