----------------------------- MODULE SockServer -----------------------------
(***************************************************************************)
(* SocketServer of the autorouter daemon (cfmuautoroute --socketserver).   *)
(* Clients send requests for a named session over a local socket; the      *)
(* first request of a session forks a router, a child process that         *)
(* computes routes and writes messages.  A request that finds no message   *)
(* waits: the server keeps it as the long poll of the router, and answers  *)
(* it when the router writes, ends, expires or is asked for by another     *)
(* client.                                                                 *)
(*                                                                         *)
(* The server runs one handler of its main loop at a time, and an action   *)
(* is a whole handler.  Handlers call each other back: closing a router    *)
(* answers its client, which reads the queue of the router, which may end  *)
(* the session and remove the router from the table the caller iterates    *)
(* over.  The operators below are these calls: each takes the state s of   *)
(* the server and returns the state after the call.                        *)
(*                                                                         *)
(* SIGHUP, which close() sends, is ignored by the router: the server sets  *)
(* it to SIG_IGN and forks without exec.  What ends a router is the end of *)
(* file on its socket.                                                     *)
(***************************************************************************)
EXTENDS Naturals, Sequences, FiniteSets, SequencesExt

CONSTANTS
    Clients,        \* connections
    NSessions,      \* session names, in the order of the std::map
    NRouters,       \* Router objects, each with its process (bound)
    None,
    ConnectLimit,   \* --routerlimit
    ActiveLimit,    \* --routeractivelimit
    Batch,          \* messages a reply may hold, 128 in the code
    MaxMade,        \* messages a router writes (bound)
    MaxAsked,       \* requests of all clients (bound)
    Asked           \* the requests clients send (bound)

Sessions == 1..NSessions
Routers == 1..NRouters

(* A request may hold a command for the router, what to do with its logs,  *)
(* and what the client wants to hear: the next messages, only that it was  *)
(* received, or the end of the session, perhaps with its messages.         *)
Requests == [cmds : 0..1, log : {"take", "keep", "drop"},
             mode : {"poll", "noreply", "quit", "clear"}]

ASSUME SockAssumption ==
    /\ {NSessions, NRouters, ConnectLimit, ActiveLimit, Batch}
         \subseteq Nat \ {0}
    /\ {MaxMade, MaxAsked} \subseteq Nat
    /\ None \notin Clients \cup Routers
    /\ Asked \subseteq Requests

VARIABLES
    table,          \* m_routers
    router,         \* the Router objects
    client,         \* the Client objects
    given,          \* history: what receive() has put into replies, by router
    timer,          \* m_rtrtimeoutconn is connected
    quits,          \* m_quit
    loop,           \* the main loop: "runs", "quit", or "undefined" when a
                    \* handler has used an object after its end
    process,        \* the router processes and what is in their sockets
    asked           \* the number of requests so far

serverVars == <<table, router, client, given, timer, quits, loop>>
vars == <<serverVars, process, asked>>

(* The logs of a router can be left in its queue or thrown away by a       *)
(* request, its other messages cannot.                                     *)
Made == [kind : {"log", "info"}, n : 1..MaxMade]
Terminate == [kind |-> "terminate", n |-> 0]
Messages == Made \cup {Terminate}

NoRouter == [life |-> "none", sock |-> FALSE, pid |-> FALSE, poll |-> None,
             recvqueue |-> <<>>, sendqueue |-> 0]
NoProcess == [state |-> "none", made |-> <<>>, out |-> <<>>]
NewClient == [open |-> TRUE, longpoll |-> None, log |-> "take", owed |-> 0]

-----------------------------------------------------------------------------
(* The state of the server as the calls pass it on.                        *)
Now == [table |-> table, router |-> router, client |-> client,
        given |-> given, timer |-> timer, loop |-> loop]

Becomes(s) ==
    /\ table' = s.table
    /\ router' = s.router
    /\ client' = s.client
    /\ given' = s.given
    /\ timer' = s.timer
    /\ loop' = s.loop
    /\ UNCHANGED quits

(* A handler of router p ends in notify_longpoll(), which resets m_longpoll *)
(* after the client has been answered.  When that answer was the last of a *)
(* session, p is deleted by then: the reset reads freed memory, which may  *)
(* or may not do harm.                                                     *)
Returns(s, p) ==
    \/ Becomes(s)
    \/ /\ s.router[p].life = "gone"
       /\ Becomes([s EXCEPT !.loop = "undefined"])

InTable(s) == {k \in Sessions : s.table[k] # None}
Dead(s) == {k \in InTable(s) : s.router[s.table[k]].life = "dead"}

(* ~Router(): the last reference to a dead router is gone.  It closes the  *)
(* socket and hands its process, if it has not ended, to child_reaper().   *)
Release(s) ==
    LET referenced == Range(s.table) \cup
                      {s.client[c].longpoll : c \in Clients}
    IN [s EXCEPT !.router = [p \in Routers |->
          IF s.router[p].life = "dead" /\ p \notin referenced
          THEN [NoRouter EXCEPT !.life = "gone"]
          ELSE s.router[p]]]

(* m_routers.erase(): the timer goes with the last entry.                  *)
Erase(s, ks) ==
    LET left == [k \in Sessions |-> IF k \in ks THEN None ELSE s.table[k]]
    IN Release([s EXCEPT !.table = left,
                         !.timer = @ /\ \E k \in Sessions : left[k] # None])

(* reap_died_routers(): the only place that ends an idle server.           *)
Reap(s) ==
    LET left == Erase(s, Dead(s))
    IN IF InTable(left) = {} /\ quits THEN [left EXCEPT !.loop = "quit"]
       ELSE left

(* Client::send(reply): what the request of c was owed goes to its socket. *)
Answer(s, c) == [s EXCEPT !.client[c].owed = 0]

(* unset_longpoll(c) and m_longpoll.reset()                                *)
LeavePoll(s, c) ==
    LET p == s.client[c].longpoll
        t == [s EXCEPT !.client[c].longpoll = None]
    IN IF p = None THEN s
       ELSE Release([t EXCEPT !.router[p].poll = IF @ = c THEN None ELSE @])

(* Mutant: what does not fit into the reply is lost.                       *)
Receive_LosesRest(s, p, c) ==
    LET queue == s.router[p].recvqueue
        taken == SubSeq(queue, 1, IF queue = <<>> THEN 0 ELSE 1)
    IN [s EXCEPT !.router[p].recvqueue = <<>>, !.given[p] = @ \o taken]

(* One turn of the loop in Router::receive(): a log is thrown away or left *)
(* in the queue as the request wants, and a message that does not fit into *)
(* the reply is left too.                                                  *)
Sort(sorted, m, log) ==
    IF m.kind = "log" /\ log = "drop" THEN sorted
    ELSE IF (m.kind = "log" /\ log = "keep") \/ Len(sorted.taken) >= Batch
    THEN [sorted EXCEPT !.left = Append(@, m)]
    ELSE [sorted EXCEPT !.taken = Append(@, m)]

Sorted(queue, log) ==
    LET after[i \in 0..Len(queue)] ==
          IF i = 0 THEN [taken |-> <<>>, left |-> <<>>]
          ELSE Sort(after[i - 1], queue[i], log)
    IN after

(* Router::receive(): a session that has ended is dead when its queue is   *)
(* empty.                                                                  *)
Receive(s, p, c) ==
    LET queue == s.router[p].recvqueue
        sorted == Sorted(queue, s.client[c].log)[Len(queue)]
        t == [s EXCEPT !.router[p].recvqueue = sorted.left,
                       !.given[p] = @ \o sorted.taken]
    IN IF s.router[p].life = "status" /\ sorted.left = <<>>
       THEN Reap([t EXCEPT !.router[p].life = "dead"])
       ELSE t

(* Mutant: an empty reply is not sent.                                     *)
MsgAvailable_NeverEmpty(s, c) ==
    LET p == s.client[c].longpoll
        t == [s EXCEPT !.router[p].poll = IF @ = c THEN None ELSE @]
        u == Receive(t, p, c)
        v == Release([u EXCEPT !.client[c].longpoll = None])
    IN IF p = None THEN s
       ELSE IF u.given = s.given THEN v ELSE Answer(v, c)

(* Client::msgavailable()                                                  *)
MsgAvailable(s, c) ==
    LET p == s.client[c].longpoll
        t == [s EXCEPT !.router[p].poll = IF @ = c THEN None ELSE @]
        u == Receive(t, p, c)
    IN IF p = None THEN s
       ELSE Answer(Release([u EXCEPT !.client[c].longpoll = None]), c)

(* Router::notify_longpoll()                                               *)
Notify(s, p) ==
    LET c == s.router[p].poll
    IN IF c = None THEN s
       ELSE [MsgAvailable(s, c) EXCEPT !.router[p].poll = None]

(* The end of a session that ran: its last message is the server's own.    *)
Ended(s, p) ==
    IF s.router[p].life # "run" THEN s
    ELSE [s EXCEPT !.router[p].life = "status",
                   !.router[p].recvqueue = Append(@, Terminate)]

(* Mutant: the socket stays open.                                          *)
Close_KeepsSocket(s, p) ==
    Notify(Ended([s EXCEPT !.router[p].sendqueue = 0], p), p)

(* Router::close(status)                                                   *)
Close(s, p) ==
    Notify(Ended([s EXCEPT !.router[p].sock = FALSE,
                           !.router[p].sendqueue = 0], p), p)

(* Router::zap()                                                           *)
Zap(s, p) ==
    Notify([s EXCEPT !.router[p].sock = FALSE, !.router[p].pid = FALSE,
                     !.router[p].sendqueue = 0, !.router[p].recvqueue = <<>>,
                     !.router[p].life = "dead"], p)

(* Mutant: the client that waited is left alone.                           *)
SetLongpoll_Replaces(s, p, c) == [s EXCEPT !.router[p].poll = c]

(* Router::set_longpoll(c): a client that waits already is answered.       *)
SetLongpoll(s, p, c) ==
    IF s.router[p].poll = c THEN s
    ELSE [Notify(s, p) EXCEPT !.router[p].poll = c]

(* Router::send()                                                          *)
Command(s, p, n) ==
    IF s.router[p].life = "run" /\ s.router[p].sock
    THEN [s EXCEPT !.router[p].sendqueue = @ + n] ELSE s

(* SocketServer::find_router(k, create) returns a router or None.  new is  *)
(* the router that fork() makes, or None when it fails.                    *)
FindRouter(s, k, create, new) ==
    LET known == IF k \in Dead(s) THEN Erase(s, {k}) ELSE s
        counted == Erase(known, Dead(known))        \* count_routers()
        active == {j \in InTable(counted) :
                     counted.router[counted.table[j]].life = "run"}
        full == \/ Cardinality(InTable(counted)) >= ConnectLimit
                \/ Cardinality(active) >= ActiveLimit
    IN CASE k \in InTable(known) -> [s |-> known, p |-> known.table[k]]
         [] k \notin InTable(known) /\ ~create -> [s |-> known, p |-> None]
         [] k \notin InTable(known) /\ create /\ (full \/ new = None) ->
              [s |-> counted, p |-> None]
         [] OTHER ->
              [s |-> [counted EXCEPT
                        !.table[k] = new, !.timer = TRUE,
                        !.router[new] = [NoRouter EXCEPT !.life = "run",
                                           !.sock = TRUE, !.pid = TRUE]],
               p |-> new]

(* The rest of Client::on_input(), when there is a router.                 *)
Serve(s, c, p, r) ==
    LET told == Command([s EXCEPT !.client[c].longpoll = p], p, r.cmds)
        ended == Receive(Close(told, p), p, c)
        received == Receive(told, p, c)
        idle == received.given[p] = told.given[p]
    IN CASE r.mode = "noreply" ->
              Answer(Release([told EXCEPT !.client[c].longpoll = None]), c)
         [] r.mode \in {"quit", "clear"} ->
              Answer(IF ended.router[p].recvqueue = <<>> \/ r.mode = "clear"
                     THEN Zap(ended, p) ELSE ended, c)
         [] r.mode = "poll" /\ ~idle -> Answer(received, c)
         [] r.mode = "poll" /\ idle -> SetLongpoll(received, p, c)

-----------------------------------------------------------------------------
Init ==
    /\ table = [k \in Sessions |-> None]
    /\ router = [p \in Routers |-> NoRouter]
    /\ client = [c \in Clients |-> NewClient]
    /\ given = [p \in Routers |-> <<>>]
    /\ timer = FALSE
    /\ quits \in BOOLEAN
    /\ loop = "runs"
    /\ process = [p \in Routers |-> NoProcess]
    /\ asked = 0

Asks(c) ==
    /\ loop = "runs"
    /\ client[c].open
    /\ asked < MaxAsked
    /\ asked' = asked + 1

(* Client::on_input(): a request r of client c for session k.              *)
Ask(c, k, r, new) ==
    /\ Asks(c)
    /\ LET left == LeavePoll(Now, c)
           owing == [left EXCEPT !.client[c].log = r.log,
                                 !.client[c].owed = 1]
           create == r.mode \in {"poll", "noreply"}
           found == FindRouter(owing, k, create, new)
       IN /\ Becomes(IF found.p = None THEN Answer(found.s, c)
                     ELSE Serve(found.s, c, found.p, r))
          /\ process' = IF new = None THEN process
                        ELSE [process EXCEPT ![new].state = "live"]
          /\ new = None \/ found.p = new

(* Router objects are made in order.                                       *)
IsNext(p) == /\ router[p].life = "none"
             /\ \A q \in 1..(p - 1) : router[q].life # "none"

AskSession(c) ==
    \E k \in Sessions, r \in Asked :
        \/ Ask(c, k, r, None)
        \/ \E new \in Routers : IsNext(new) /\ Ask(c, k, r, new)

(* A request without a session: a command for the server itself.           *)
AskServer(c) ==
    /\ Asks(c)
    /\ Becomes([LeavePoll(Now, c) EXCEPT !.client[c].log = "take",
                                          !.client[c].owed = 0])
    /\ UNCHANGED process

(* Client::close(), after an end of file or an error.                      *)
ClientClose(c) ==
    /\ loop = "runs"
    /\ client[c].open
    /\ LET left == LeavePoll(Now, c)
       IN Becomes([left EXCEPT
                     !.client[c] = [NewClient EXCEPT !.open = FALSE]])
    /\ UNCHANGED <<process, asked>>

(* Router::on_output(): the front command is sent, or the router process   *)
(* has ended and the session is over.                                      *)
CanSend(p) == loop = "runs" /\ router[p].sock /\ router[p].sendqueue > 0

RouterOutput(p) ==
    /\ CanSend(p)
    /\ \/ /\ process[p].state = "live"
          /\ Becomes([Now EXCEPT !.router[p].sendqueue = @ - 1])
          /\ UNCHANGED process
       \/ /\ process[p].state # "live"
          /\ Returns(Close(Now, p), p)
          /\ UNCHANGED process
    /\ UNCHANGED asked

(* Router::on_input(): a message; or one that is too large or no JSON,     *)
(* which ends the session.                                                 *)
HasInput(p) == loop = "runs" /\ router[p].sock /\ process[p].out # <<>>

RouterMessage(p) ==
    /\ HasInput(p)
    /\ \/ LET m == Head(process[p].out)
          IN Returns(Notify([Now EXCEPT !.router[p].recvqueue =
                                          Append(@, m)], p), p)
       \/ Returns(Close(Now, p), p)
    /\ process' = [process EXCEPT ![p].out = Tail(@)]
    /\ UNCHANGED asked

(* Router::on_input(): the end of file.                                    *)
AtEof(p) ==
    /\ loop = "runs"
    /\ router[p].sock
    /\ process[p].out = <<>>
    /\ process[p].state \in {"zombie", "reaped"}

RouterEof(p) ==
    /\ AtEof(p)
    /\ Returns(Close(Now, p), p)
    /\ UNCHANGED <<process, asked>>

(* Router::child_watch(), or child_reaper() for a router that was zapped   *)
(* or destroyed.                                                           *)
HasExited(p) == loop = "runs" /\ process[p].state = "zombie"

ChildWatch(p) ==
    /\ HasExited(p)
    /\ process' = [process EXCEPT ![p].state = "reaped"]
    /\ IF router[p].pid
       THEN Returns(Notify(Ended([Now EXCEPT !.router[p].pid = FALSE], p), p),
                    p)
       ELSE UNCHANGED serverVars
    /\ UNCHANGED asked

(* Router::handle_timeout() for a router that has been idle or has run for *)
(* too long.  A client that waits for a dead router is not told.           *)
Expire(s, p) ==
    CASE s.router[p].life = "run" -> Close(s, p)
      [] s.router[p].life = "status" -> [s EXCEPT !.router[p].life = "dead"]
      [] OTHER -> s

(* Mutant: the iterator is moved on after the call.                        *)
TimeoutStep_Late(s, k, expired) ==
    LET t == IF k \in expired THEN Expire(s, s.table[k]) ELSE s
    IN IF t.table[k] = None THEN [t EXCEPT !.loop = "undefined"] ELSE t

(* One turn of the loop in router_timeout_handler(): the iterator is moved *)
(* on before the call, and the entry it is at may be erased by the call.   *)
TimeoutStep(s, k, expired) ==
    LET later == {j \in InTable(s) : j > k}
        next == CHOOSE j \in later : \A i \in later : j <= i
        t == IF k \in expired THEN Expire(s, s.table[k]) ELSE s
    IN IF later # {} /\ t.table[next] = None
       THEN [t EXCEPT !.loop = "undefined"] ELSE t

TimeoutTurn(s, k, expired) ==
    IF s.loop # "runs" \/ s.table[k] = None THEN s
    ELSE TimeoutStep(s, k, expired)

Expiring(s, expired) ==
    LET after[k \in 0..NSessions] ==
          IF k = 0 THEN s ELSE TimeoutTurn(after[k - 1], k, expired)
    IN after

(* SocketServer::router_timeout_handler(); expired are the sessions whose  *)
(* limits have passed.                                                     *)
Timeout(expired) ==
    /\ loop = "runs"
    /\ timer
    /\ expired \subseteq InTable(Now)
    /\ Becomes(Expiring(Now, expired)[NSessions])
    /\ UNCHANGED <<process, asked>>

CanExpire(k) == /\ loop = "runs" /\ timer /\ table[k] # None
                /\ router[table[k]].life # "dead"

TimeoutOf(k) == \E expired \in SUBSET Sessions :
                    k \in expired /\ Timeout(expired)

-----------------------------------------------------------------------------
(* The router process: sockcli_input() and the reports of the autorouter.  *)
(* A process whose socket the server has closed ends when it uses it.      *)
(* What processes do when the server has ended is left out.                *)

(* sockcli_autoroutelog(), sockcli_statuschange(), a new flight plan, or   *)
(* the answer of sockcli_input() to a command.                             *)
ProcessReport(p) ==
    /\ loop = "runs"
    /\ process[p].state = "live"
    /\ router[p].sock
    /\ Len(process[p].made) < MaxMade
    /\ \E kind \in {"log", "info"} :
         LET m == [kind |-> kind, n |-> Len(process[p].made) + 1]
         IN process' = [process EXCEPT ![p].made = Append(@, m),
                                       ![p].out = Append(@, m)]
    /\ UNCHANGED <<serverVars, asked>>

(* A crash, or cmd_quit().                                                 *)
ProcessExit(p) ==
    /\ loop = "runs"
    /\ process[p].state = "live"
    /\ process' = [process EXCEPT ![p].state = "zombie"]
    /\ UNCHANGED <<serverVars, asked>>

(* sockcli_close(): the server has closed its end of the socket.           *)
ProcessEof(p) ==
    /\ loop = "runs"
    /\ process[p].state = "live"
    /\ ~router[p].sock
    /\ process' = [process EXCEPT ![p].state = "zombie"]
    /\ UNCHANGED <<serverVars, asked>>

-----------------------------------------------------------------------------
ClientStep(c) ==
    \/ AskSession(c)
    \/ AskServer(c)
    \/ ClientClose(c)

RouterStep(p) ==
    \/ RouterOutput(p)
    \/ RouterMessage(p)
    \/ RouterEof(p)
    \/ ChildWatch(p)

ProcessStep(p) ==
    \/ ProcessReport(p)
    \/ ProcessExit(p)
    \/ ProcessEof(p)

Next ==
    \/ \E c \in Clients : ClientStep(c)
    \/ \E p \in Routers : RouterStep(p) \/ ProcessStep(p)
    \/ \E expired \in (SUBSET Sessions) \ {{}} : Timeout(expired)

Spec == Init /\ [][Next]_vars

(* The main loop calls the handler of what is ready; m_maxruntime passes   *)
(* for every router; a process ends when its socket does.  No client needs *)
(* to ask, and no router needs to write or to end.  The first five are     *)
(* weak fairness with its ENABLED written out: handlers that call each     *)
(* other are more than TLC can find enabled in reasonable time.            *)
Fairness ==
    /\ \A p \in Routers :
         /\ []<>~CanSend(p) \/ []<><<RouterOutput(p)>>_vars
         /\ []<>~HasInput(p) \/ []<><<RouterMessage(p)>>_vars
         /\ []<>~AtEof(p) \/ []<><<RouterEof(p)>>_vars
         /\ []<>~HasExited(p) \/ []<><<ChildWatch(p)>>_vars
         /\ WF_vars(ProcessEof(p))
    /\ \A k \in Sessions :
         []<>~CanExpire(k) \/ []<><<TimeoutOf(k)>>_vars

FairSpec == Spec /\ Fairness

-----------------------------------------------------------------------------
Wanted(c, m) == m.kind # "log" \/ client[c].log = "take"

(* A router and the client that waits for it agree, the client is owed an  *)
(* answer, and nothing it wants is in the queue.  Nobody is forgotten:     *)
(* whoever is owed an answer is waited for, and only a client that leaves  *)
(* or throws away logs can wait for a session that is over.                *)
WaitersPaired ==
    loop # "undefined" =>
      /\ \A p \in Routers : router[p].poll # None =>
           LET c == router[p].poll
           IN /\ client[c].longpoll = p /\ client[c].owed = 1
              /\ \A m \in Range(router[p].recvqueue) : ~Wanted(c, m)
              /\ router[p].life = "run" \/ client[c].log # "take"
      /\ \A c \in Clients : client[c].owed = 1 =>
           /\ client[c].longpoll # None
           /\ router[client[c].longpoll].poll = c

(* Whoever asks, and in whatever order requests, messages and the end of a *)
(* session arrive: what clients are given of a session are the messages    *)
(* its router wrote, in order, without a gap or a repetition, and the end  *)
(* is told once.  Logs may be missing or late.                             *)
NothingSkipped ==
    \A p \in Routers :
      LET told == given[p]
          made == process[p].made
          Infos == {i \in DOMAIN told : told[i].kind = "info"}
      IN /\ \A i \in Infos : /\ told[i].n \in DOMAIN made
                            /\ made[told[i].n] = told[i]
         /\ \A i, j \in Infos : i < j => told[i].n < told[j].n
         /\ \A i \in Infos, k \in DOMAIN made :
               made[k].kind = "info" /\ k < told[i].n =>
                 \E j \in Infos : told[j] = made[k]
         /\ \A i, j \in DOMAIN told :
               told[i] = Terminate /\ told[j] = Terminate => i = j

(* The server comes to use an object after its end in two ways only: the   *)
(* timer closes a router while a dead one, from an earlier turn or a zap,  *)
(* is in the table; or a handler of a router answers the client that waits *)
(* for it, and the answer deletes the router, because its session has      *)
(* ended or it was dead and out of the table already.                      *)
UndefinedExplained ==
    [][(loop = "runs" /\ loop' = "undefined") =>
         IF \E k \in Sessions : TimeoutOf(k) THEN Dead(Now) # {}
         ELSE \E p \in Routers :
                /\ router[p].poll # None
                /\ router[p].life = "dead" => p \notin Range(table)
                /\ router'[p].life = "gone"]_vars

(* A client that has been promised an answer gets it, unless it left logs  *)
(* in the queue or threw them away, hangs up, or the server has ended.     *)
Answered ==
    \A c \in Clients :
        (client[c].owed = 1 /\ client[c].log = "take")
            ~> \/ client[c].owed = 0
               \/ client[c].log # "take"
               \/ loop # "runs"

(* Although SIGHUP is ignored, the process of a session that is over ends  *)
(* and is waited for, also when its router is zapped or deleted first.     *)
ChildrenEnd ==
    \A p \in Routers :
        (router[p].life \in {"status", "dead", "gone"})
            ~> (process[p].state = "reaped" \/ loop # "runs")

=============================================================================
