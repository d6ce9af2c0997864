# vfrnav: a TLA+ development

vfrnav is a flight planning and in-flight navigation program for general
aviation: maps drawn from databases of airports, airspaces, navaids, airways
and terrain; flight plans and navigation logs; weather from several services;
an autorouter that negotiates with the European flow management's validator;
and a flight deck with its sensor drivers.  This directory holds TLA+ models of
the parts of it whose correctness depends on the order in which things happen,
or on an algorithm with a clear reference; the TLC configurations that check
them; and theorems about them, with proofs checked by TLAPS.

Paths are relative to the repository's root (`src/` is its library,
`flightdeck/`, `cfmu/`, ... the programs).  Line numbers are those of the
commit the modules were written from.  `PROJECT.json` maps every definition to
the lines it models.

## How to run

    tlc -workers 2 -config MCDbThread.cfg MCDbThread     # any row of the table of runs
    tlapm EngineProofs.tla                               # any *Proofs module

Every run ends within three minutes.  The sections called "Plausible
mistakes" hold one variant of an action for each property; with the variant in
the action's place the property is violated in the same run, which is how each
property was tried before it was believed.

## 1. Inventory

### Threads, and what they share

| Thread | Runs | Shares with others |
|---|---|---|
| main | the GTK main loop: windows, dialogs, maps' scroll and paint, dispatchers | everything below |
| `Engine::DbThread` | all queries to the SQLite databases, one after the other; the slots of their results | the list of queries, each `ResultBase` |
| one `DrawThread` per map | drawing into an image | the image buffers, the view, its queries, a tile queue |
| one curl thread per request (`ADDS`, `NWXWeather`) | an HTTP transfer | the request's mode, URL and receive buffer |
| one thread per threaded sensor (King GPS over FTDI, STM32 hub, ADS-B) | polling of a device | state, values, messages under the sensor's mutex |
| `DctParameters` workers (`cfmu/`) | direct-route computations | a bounded list of results |
| child processes (`cfmuautoroute`, `tfr` checker, validator) | routing, validation | pipes |

The main thread must never wait for a database.  So a window asks through
`async_*_find_*()`, gets a reference counted `ResultBase`, connects a slot to it,
and is told by the worker, on the worker's thread; the slot usually calls a
`Glib::Dispatcher` that wakes the main loop.  Code that needs the answer at once
(flight plan functions, `FindCoord`, `Profile`) blocks on a condition variable
the slot signals.  Almost every hazard of this code is a consequence: a slot
that runs while its owner cancels or is destroyed, a signal that comes between
a test and a sleep, an answer for a view that is no longer wanted.

### Components

| Component | State | Operations | What is hard | What makes it correct | Module |
|---|---|---|---|---|---|
| **Engine::DbThread**, ResultBase (`src/engine.cc` 354-533) | list of queries, `m_terminate`, `m_dbcancel`; per query `m_done`, `m_error`, `m_executing`, slot | `queue`, the worker's loop, `connect`, `cancel(RefPtr)`, `execute`, destructor | shutdown without a mutex; connect against end of query; cancel against execution and slots; interrupting the right query | no call after cancel; every listener called once; published results final; nothing lost | `DbThread`, `AsyncQuery` |
| **Callers that wait** (`src/fplan.cc` 4200-4390, `src/navlog.cc` 120-180, `kingsim/simulator.cc` 290-360, `flightdeck/fplpage.cc`, `fplgpsimppage.cc`, `fplautoroutedlg.cc`) | condition, mutex, queries left | make, connect, test, cancel, sleep | wakeup in the gap between test and sleep; slot on a local object | the caller gets out; nothing calls it afterwards | `QueryWait` |
| **FindCoord** (`src/icaofpl.cc` 80-345) | seven or more queries at a time, elements found | `find`, `find_by_ident`, `find_area`, ... | queries in pairs; late slots; reuse of the object | complete, fresh, and ends | `FindCoord` |
| **DrawThread**, ThreadImageBuffer (`src/mapst.cc`) | two images, state machine, view, rectangle of the database, a query per layer | view changes, hide, show, redraw, database changes, paint, stop, draw loop | images handed over by the state alone; the view changes while drawing; queries behind the view | no half-drawn picture; the picture agrees with what it was drawn from; the screen settles | `DrawThread` |
| **DrawThreadTMS**, TileCache (`src/mapst.cc` 7300-7700) | queue of tiles, one request, tile files, failed tiles | draw, queue, clear, runqueue, download, store | queue changed by one thread while the other relies on its front | the right picture in every file; downloads end; map gets redrawn | `TileCache` |
| **ADDS** (`src/adds.cc`) | mode, URL, METARs found, thread, receive buffer | `metar`, `taf`, `metar_taf`, `abort`, `complete` | a dispatch that comes after an abort; calls while busy | callback once, complete, silent after abort | `ADDS` |
| **Interval, IntervalSet** (`src/interval.cc`, `.hh`) | sorted list of half-open intervals | union, intersection, difference, complement, comparison, predicates | adjacency, wrap-around at the type's end | canonical and equal to the set of numbers | `IntervalSet` |
| **FindCoord's choice** (`src/icaofpl.cc` 240-345) | none | pick the best candidate | order of kinds, ties | a nearest candidate of the best kind | next |
| **Altitudes** (`src/fplan.cc` 4040-4190, 4280-4400) | waypoint altitude, rule, terrain | `fix_invalid_altitudes` | semicircular rule; order of queries | above terrain, right parity, least change | next |
| **NWXWeather** (`src/nwxweather.cc`) | as ADDS | as ADDS | as ADDS | as ADDS | next |
| **Terrain, bitmap and GRIB2 caches** (`src/dbobjtopo.cc`, `bitmapmaps.cc`, `grib2.cc`) | cached pages, ages | read, expire | eviction against use; test and insert under different locks | reads agree with the store; no duplicates | next |
| **Sensors** (`flightdeck/sens*.cc`) | driver state, values, messages | connect, poll, parse, disconnect | state set by two threads | every terminate is obeyed; values not older than stated | next |
| **CFMUAutoroute51** (`cfmu/cfmuautoroute.cc` 1880-1970, 2566-2916, `cfmugraph51.cc` 2739-2754, 4169-4437, 4943-4967, 6947-7070, `cfmuautoroute51.cc` 461-475, commands in `autoroute.cc` 130-170), the iteration of the autorouter (`cfmuautoroute45.cc` and `cfmugraph.cc` are its predecessor) | route, graph with removed edges, validator's lines, counters, timer, idle callbacks | `start`, `stop`, `clear`, `lgraphroute`, `submit_route`, `parse_response`, child in and out, timeout | `is_stopped()` runs the main loop in the middle of `lgraphroute()`, `lgraphroutelocaltfr()`, `parse_response()` and `child_timeout()`; answers of a run that is over; retries | success only with a route the validator accepted; one activity at a time; a run ends | `Autoroute` |
| **SocketServer** of the autorouter daemon (`cfmu/arsockserver.cc`) | table of sessions, routers with their processes and queues, clients with their long polls, timer | accept, request, receive, end of client, router in and out, end, expiry, child watch | handlers call back into each other and change the table they iterate over; an answer, an end and a client's leaving in any order | waiting clients and routers paired; no message skipped or repeated; every client answered; no process left | `SockServer` |
| **DctParameters pool** (`cfmu/adrrestriction.cc` 1694-1797, 1968-2079) | list of results, count, one mutex and condition | workers' strides, push, finish; main thread's look, save, join | bound on the list, one condition for both sides, strides that must cover every pair once | every pair once, none missed, ends | `DctPool` |
| **Proxies and other servers** (`cfmu/*proxy.cc`, `cfmuvalidateserver.cc`) | child, pipes, buffers | send, receive, start, close | child ends between two steps; buffered commands lost | "stopped" exactly once per "started" | next |
| **Restriction database and evaluation** (`cfmu/adr*.cc`, `tfr*.cc`) | time slices, condition trees | evaluate, simplify | three-valued logic over intervals | simplification keeps meaning | next, on `IntervalSet` |
| geometry, atmosphere, aircraft, winds, GRIB decoding, drawing | - | numerical | rounding | - | out of reach: floating point |
| importers, editors, GUI forms, translations, packaging | - | sequential batch or presentation | - | - | not modelled |

`PROJECT.json` lists them with their files, and lists the hazards at their lines.

## 2. Plan

Done in this order: `DbThread` (everything else depends on it), its promise
`AsyncQuery`, and their proofs; `FindCoord` over the promise; `DrawThread`;
`TileCache`; `ADDS`; `IntervalSet`; `QueryWait` over `DbThread`, with proofs;
then the programs of the autorouter: `SockServer`, `DctPool` with proofs,
`Autoroute`; then the proofs for `ADDS`, `FindCoord` and `DrawThread`, and
last those for `Autoroute`, `SockServer` and `IntervalSet`.

    AsyncQuery  <--(refines)--  DbThread  <--(EXTENDS)--  QueryWait
        ^                                                     ^
     FindCoord  <-------------(EXTENDS)----------------  EngineProofs
     (uses the promise)

    DrawThread <- DrawThreadProofs    TileCache <- TileCacheProofs
    ADDS <- ADDSProofs                DctPool <- DctPoolProofs
    SockServer <- SockServerProofs    Autoroute <- AutorouteProofs
    IntervalSet <- IntervalSetProofs

Left, in order:

1. *Altitude*: `fix_invalid_altitudes()` as pure operators (fplan.cc 4040-4190
   and 4280-4400), checked against a reference over bounded altitudes and
   proved for all (above the terrain, parity of the rule), and the question
   whether the order in which queries end matters.
2. *Proxy* (`cfmuautorouteproxy.cc`, `tfrproxy.cc`): child, pipes, reported
   state; with `SockServer` it would make the two ends of one conversation.
3. *Conditions*: three-valued evaluation and simplification of the restriction
   trees, over `IntervalSet`.
4. *FindCoordSelect*: the choice among the candidates, against "a nearest
   element of the best kind".
5. *SensorThread*: the state machines of `sensgpskingftdi.cc` and
   `sensattstmhub.cc`.
6. *NWX*: the other weather client, with the properties of `ADDS`.
7. *Caches*: the pages of `dbobjtopo.cc`, the bitmap maps and the GRIB2 layers.

## 3. The modules

An action is a stretch of code between two accesses to something another thread
may change: a critical section, or the code between two unlocked accesses to
shared variables.  What a thread does alone is folded into the action before
it.  Program counters (`wpc`, `dpc`, `mpc`, `cpc`, ...) name the places between
two such stretches.  A broadcast moves every sleeper on the condition to
"woken"; spurious wakeups are actions, since Glib::Cond has them.  Variables
that the code does not have, kept to state a property, are marked as history
in the declarations.

### DbThread

`src/src/engine.cc` 354-533.  The worker (`wpc`): `LoopTest` reads
`m_terminate` under `m_mutex`, `WaitOrPop` sleeps or takes the front of the list
without releasing it, `SkipOrExecute` and `ExecuteTest` ... `ExecuteDone` are the
parts of `execute()` between its accesses to `m_error`, `m_executing`, `m_done`;
`Notify` runs the slots with `ResultBase::m_mutex` held; `Drain` and
`DrainSetError` empty the list at shutdown.  The owner (`handle`): `QueueTest`
reads `m_terminate` without a lock and `QueuePush` appends; `Connect` and
`ConnectCall` are the two halves of `connect()`, which calls the slot itself when
the query is done; `Cancel` and `Interrupt` are `cancel(RefPtr)`.  The destructor
(`dtor`): `DtorTerminate`, `DtorBroadcast`, `DtorJoin`, none of which takes a
mutex.  `result` says that the elements have been stored, `hit` collects the
queries `sqlite3_interrupt()` has reached, `calls` counts runs of a slot.

*AsyncQuery* is what an owner may rely on: its query is pending until it becomes
ready or failed, it can listen and stop listening, and is called at most once,
after the end, and not after it has stopped.  `ImplementsPromise` in `DbThread`
is `[]`-refinement under a mapping of the flags to a status and of `calls` to
`told`, both of which count: a second call of a slot, by `connect()` and `execute()` both, is no
step of the promise.

Left out: what an action queries (its elements are "stored" or not), the
individual `*_find_*` functions, which differ in arguments only, and
`cancel(void)`, which nobody calls.  A query is not queued twice (`queue()` is only
called by the functions that create it).

### QueryWait

Extends `DbThread` with one caller that makes batches of queries, connects to
each, and tests and sleeps until all have ended; `style`, chosen at the start and
never changed, is the one of the three ways in the code it follows:

* `"altitudes"`: `FPlanRoute::fix_invalid_altitudes(nr, eng)` (also FPLQuery and
  FPLGPSImpQuery of the flight deck): the slot is `Glib::Cond::broadcast`, run
  without the caller's mutex; a query that has ended is cancelled with the
  mutex locked;
* `"profile"`: `NavFPlan::Profile` (also FindAirspace): the slot locks the mutex;
  ended queries are dropped without cancel;
* `"simulator"`: connects and sleeps with the mutex locked, slot locks too.

`Tell` is `Notify` of `DbThread` with what the slot does; `Tested` are the queries
that this round of tests has found running, `missed` those that told the
caller after they were tested and before it slept.

### FindCoord

`src/src/icaofpl.cc` 80-240 and 340-580.  `Begin` is `async_cancel()` and
`async_clear()`, `Start` makes the query of a place (a kind, by ident or by name),
`ConnectQuery` connects to it, `Reap` is the part of `async_waitdone()` that takes over
the elements of a kind when its queries are done, `Wait` and `FinderWakesUp` are the
sleep, `WorkerFinish` and `WorkerTell` the worker.  `Lookups` are the combinations
of queries that `find_by_name()`, `find_by_ident()`, `find_by_coord()`,
`find_airway()` and `find_area()` make, `GoneOutOfScope` is the end of the object.  It uses what `AsyncQuery` promises, plus one detail of
`DbThread`: the worker is one thread and may still be on its way to a slot after
`m_done` has become visible (`telling`).  `Paired` are the kinds looked up by two
queries, `Alone` those that are not combined with others, `Kept` the one
`async_clear()` forgets.  `found` are the queries that have ended with something in their result: one that has ended without an
error may still have found nothing (`ResultOf`).

### DrawThread

`src/src/mapst.cc`: ThreadImageBuffer (360-640), DrawThread and its subclasses'
`compute_pixmap()` as far as queries go, `restart_db`, `*_changed`, destructors.  A
view is everything the picture depends on (centre, scale, flags, size, altitude,
time); `Usable[v]` are the views an image for `v` can be shown for, `Covers[v]`
those inside the rectangle queried for `v`.  `threadstate` is `m_threadstate`; the
two images are the view they were reset to.  `query[l]` is the RefPtr of a layer
(status, area, version of the database it saw), `used[l]` what the picture
was drawn from.  `kind`, chosen at the start from `Kinds`, is the subclass: in which
views a layer is queried (`Query`), for which its `*_changed()` restarts (`Flag`), in
which views overlays are queried and drawn at all (`Gate`), and what the destructor
of the base class cancels again (`Late`).

`Redraw`, `SetView`, `SetHidden`, `Edit`, ... are the main thread's calls with
`check_restart()` inlined (`CheckRestart`); `DrawWait`, `ResetDrawbuf`,
`DecideDbquery`, `ComputeStart`, `Requery`, `Submit`, `DrawLayer`, `DrawDone`, `Dispatch`
the thread's.  While the thread is in `ImageBuffer::reset()`,
which takes no mutex, the comparison of the main thread with that image may
give either result (`DrawbufShows`): this is a data race in the code.

`SetHidden` in the middle of a pass leaves `m_threadstate` as it is, and the pass goes on with
`draw_checkabort()` true: it gives up where it would wait, and draws the layers in `Listed` (the map elements and the airways), which ask
before they draw or for each element, in part or not at all (`DrawnFrom`, status `"broken"`).  `draw_done()` marks such a picture ready like any other, and
`check_restart()` or `update()` may take it to the screen; `torn` (history) says so.

### TileCache

`src/src/mapst.cc` 7300-7700.  The draw thread goes through the tiles of the view,
takes those that exist (`Exists`) and queues the others; the main thread's `runqueue()`
is split at its accesses to the queue, which is under a mutex, and to `m_msg`, which
is not; `download_complete()` likewise into erase, create, write, remove, fail, signal, free, and
`get_pixbuf()` into the test for the file (`GetPixbuf`), the question for its size (`QueryInfo`) and the reading (`Load`).
A file is absent, `Empty` when it was created and nothing has been written, `Partial`, or holds a tile.  `create_file()`,
`write()`, `remove()`, `query_info()` and `create_from_file()` throw, and nobody catches that: the program ends, and `died` says why: `"exists"` (the file to be
created is there), `"read"` (the draw thread finds the file gone or half written), `"io"` (any other error of the disk, possible wherever a file
is used), or `"erase"` for the erase from an empty vector, which the C++ library leaves undefined.  `Leftovers` are the tiles an earlier run
may have died writing.  A body of no length counts as a success, and its file stays empty: it is neither drawn nor fetched again.
`slot` is the first element of the vector's storage, which survives the vector's
becoming empty and which the undefined `erase(begin() + 1, end())` of an
empty vector brings back.  `OtherCreates` and `OtherWrites` are a second cache over the same directory, which may end or be killed anywhere.
History: `gap`, that `clear_queue()` has hit `runqueue()` between
its two critical sections; `silent`, that the last tile left the queue without
`m_queuechange()`, or that a file the second cache was still to write was passed over; `foreign`, the tiles it has begun to store.  That a request ends with success or failure is assumed: any other
status makes libsoup send it again (l. 7663), for as long as the server answers like that.

### ADDS

`src/src/adds.cc`.  The three calls, `abort()` and `complete()` in the main thread; the
thread from its start to its dispatch (`Curlio`).  A dispatch is pending until the main loop
delivers it; `abort()` joins the thread but leaves its dispatch.  Reports are named
by what was asked for and by the request they were fetched for, so that an answer that
reaches the wrong callback is visible.  History: `aborted`, `disturbed` (another call
came while it was under way), `meddled` (`metar_taf()` for an empty area set `m_mode`),
`failures`.

### IntervalSet

`src/src/interval.cc`, the operations of `IntervalSet` and those of `Interval` they are built from, for an unsigned type
whose largest value is `Top`.  A state is one set, an action one operation with any operand;
`points` is the reference: the same operation on sets of numbers.  `Runs(P)` is the
canonical list for a set of numbers.  `InOrder` is the order of the list, by what lies before an interval;
the loops of `normalize()` and `operator~` are the recursive functions `Merged` and `Gaps`.  Not covered: `s &= s` (the operand is emptied
by the swap), `s |= s`, `swap()`, of `Interval` the predicates `is_full()`, `is_overlap()`, `is_adjacent()`, the setters and `operator&`, and types for which `numeric_limits::min()` is not the smallest value
(double).

### SockServer

`src/cfmu/arsockserver.cc`.  The server has one thread, so an action is a whole
handler of its main loop: `AskSession`, `AskServer` and `ClientClose` for a client's socket, `RouterOutput`, `RouterMessage` and
`RouterEof` for a router's, `ChildWatch`, and `Timeout` for the routers that have run too long. The handlers call each other: closing a router answers
the client that waits for it, which reads the router's queue, which may end the session and take the router out of
the table its caller iterates over.  The operators are these calls; each takes the state of the server as a record
and returns the state after it (`Now`, `Becomes`).  When the code would use an object that a nested call has
deleted, `loop` becomes `"undefined"` and the server does nothing more; `Returns` says so once for every handler that
goes on with its router after `notify_longpoll()`.  The two loops that matter, over the queue in `receive()` and over the
table in `router_timeout_handler()`, are recursive functions (`Sorted`, `Expiring`).  `process` is the other side: what the
router has written, what is in its socket, whether it has ended and been waited for.  `given` (history) is what
each router's messages went into.

Abstracted: a reply counts as sent when it is queued; messages are logs or information, numbered; a request's fields
are what it changes (`Requests`).  Router objects and session names are used in their order.  Left out: malformed
requests, SIGTERM, a second request in the same read (which stays in the buffer until the next one), and
`m_quit` ending the loop before the last reply is written.

### DctPool

`src/cfmu/adrrestriction.cc` 1694-1797 and 1968-2079.  `Row` and `Col` are the strides of a worker over the pairs of
points, `PushWaits`, `Push` and `Told` the locked append, the wait when the list is too long and the broadcast
after unlocking, `Finish` and `FinishTold` its end; `Look`, `Tell`, `Save` and `Join` are the main thread, which takes
the results out and saves them.  Whether a pair of points is near enough is a free choice; the points that
are null or both airports are constants.

### Autoroute

`src/cfmu/cfmuautoroute.cc` 1880-1970 (`start()`) and 2566-2916 (`stop()`, `clear()`, `is_stopped()` and the validator's process),
`src/cfmu/cfmugraph51.cc` 4169-4437 (`lgraphroute()`, `lgraphroutelocaltfr()`), 4943-4967 (`lgraphsubmitroute()`) and 6947-7070
(`parse_response()`), and the commands of `src/cfmu/autoroute.cc` 130-170.  The program has one thread, but `is_stopped()`, called
in the middle of `lgraphroute()`, `lgraphroutelocaltfr()`, `parse_response()` and `child_timeout()`, runs the main loop until no event is left.  `stack` holds
the functions that are inside `is_stopped()`; the innermost goes on with `Resume`; `Idle`, `ReadLine`, `Eof`, `Watch`, `Expire`
and `Command` are events, dispatched on top of whatever is on the stack, though a source that is
being dispatched is not dispatched again.  `plans` are the routes the validator has not judged yet, with whether each
still is `m_route`; `answers` its lines that wait in the pipe; `response` is `m_validationresponse` as far as the code looks at
it.  `crossed` (history) says that this run has met another activity: an answer or an idle callback of the run before it, a
function of that run below it on the stack.

Abstracted: a route is whether it is good; a round that finds the restriction violated again, or none to repeat, goes on or
gives up by choice.  Left out: the exception that the write to the validator's pipe may throw (`child_send()`), the validator behind a socket instead of a pipe, the VFR branch of
`submit_route()`, the probing of paths (dead code, `work || true`), and what a nested start does to the indices that
`lgraphroutelocaltfr()` has in its local variables.

## 4. The runs

| Run | Instance | Shows |
|---|---|---|
| `dbthread` | 3 queries | `sqlite3_interrupt()` reaches cancelled queries only; what has been published of a query is final; refinement of `AsyncQuery` (called at most once, after the end, never after a cancel); a connected owner hears of the end, or has cancelled, or the Engine goes; the destructor's join returns unless its broadcast fell between test and wait |
| `querywait` | 3 queries; batches of 2 and 1 (altitudes) or of 1, 1, 1 (profile, simulator) | a caller is stranded only if its slot takes no mutex, and by an end in the gap between test and sleep; a caller that cancels is not called after it is out, one that does not at most by the call in progress; a caller gets out, is stranded, or locks itself out |
| `findcoord` | 2 lookups; one paired kind, two single | a lookup that returns is fresh and has, of every kind, what its queries found, of a pair what the one by ident gave unless that failed; it leaves at most one late slot; it always returns |
| `drawthread` | close view and overview, 2 layers, one drawn element by element, 3 changes of view or visibility, 1 of the database | a picture that is ready is not being drawn; what it was drawn from covers its view and holds all announced changes; every layer that could be drawn was, but for what hiding the map has broken off, and that is drawn again when the map is shown; queries that outlive the thread were made after the destructor's cancel |
| `drawthread_kinds` | bitmap map and airport diagram; two close views, overview, 1 layer | a picture agrees with its data, except overlays after an overview moved the rectangle without a query; the screen settles on what is wanted, except for a forgotten query or endless races in `reset()`; `stop()` returns |
| `tilecache` | 2 views sharing a tile, 2 tiles, 2 changes, second cache, a file an earlier run may have left unfinished | every file holds its own tile, undefined behaviour and exceptions have the named causes only, downloads end, and the picture gets what was fetched; all with the exceptions named |
| `adds` | 3 calls, 2 aborts | callbacks get all and only theirs, once, and not after an abort, under the conditions stated; the main loop waits for a transfer only because of an abort; every request is answered or excused |
| `intervalset` | 3 bits | every operation on each of the 128 sets is canonical and agrees with sets of numbers, and so do the predicates; the comparison is antisymmetric and zero for equal sets only |
| `sockserver` | 2 clients, 2 sessions, 2 routers, 1 of them active, 1 message each, 3 requests | a router and the client that waits for it agree, and nothing the client wants stays in the queue; the server uses a deleted object in two named ways only |
| `sockserver_live` | 2 clients, 1 session, 1 router, 2 messages, 3 requests | what clients are given of a session is what its router wrote, in order, nothing twice; who has been promised an answer gets it; every process ends and is waited for |
| `dctpool` | 6 points (one null, two airports), 2 workers, list of 1 | every pair is computed once and saved once, none is missed, the list keeps its bound, `run()` returns |
| `autoroute` | 1 local and 1 remote iteration, 1 timeout, 2 commands, 2 nested functions | a run that ends with success has a route the validator has accepted, and there is one chain of work at a time, unless the run has met another activity; every run ends |

**Bounds.**  *DbThread*: one query running, one in the list and one being queued are
all the roles a query can have, since the worker has one query at a time and
operations of an owner touch one query; three queries fill all roles at once (and the
theorems hold for any number).  *QueryWait*: a batch of two lets one query end while
the caller sleeps for the other; a second batch shows what the first left behind.
*FindCoord*: two lookups, so that the second sees late slots and leftovers of the first.
*DrawThread*: `MaxChanges = 2` is a change and the change back, which is what the
conditions of `check_restart()` distinguish, and a third one lets the map be hidden, a torn picture be taken to the screen, and
the map be shown again; `MaxVersion = 1` is a change of the database that a
query has seen or has not; every layer is independent of the others but for
the sleep, for which two suffice.  *TileCache*: the two tiles of one view
fill the queue with a front and a rest, and the shared tile is queued for both
views; two changes go to the other view and back.  The file that may be left over is not the one the second cache stores, so that either cause can be
seen without the other.  *ADDS*: an aborted request, one that is disturbed by it, and one after; two aborts
leave two dispatches behind.  *IntervalSet*: three bits give sets of up to four
intervals, more than any operation looks at at once (two of one set against one of
the other), with both ends of the type.  *SockServer*: the second client is the one that
asks for a session somebody already waits for, the second session the one the timer or a reply ends while the first is
being looked at; one active router makes the second wait; `Batch = 1` makes every second message one that does not fit into
the reply.  The liveness run gives up the second session, and with it the second router, for a second message, the one that comes when nobody waits.
*DctPool*: the least limit, so that a worker waits after each result; six points give each of two workers three rows of
different lengths.  *Autoroute*: each counter is reached and exceeded; two commands are a start and whatever
disturbs it; two nested functions are one that is interrupted by another.

**Deadlock** is checked in `intervalset` and in `querywait`, where a state without a
successor would be a caller and a worker that wait for each other (a caller that sleeps, or that has
returned, leaves the worker its spurious wakeups).  Elsewhere the bounds, or the end of the object,
stop the system: a calculation that has ended, a server without requests, a router without a run.

**Fairness.**  Weak fairness of a thread is what the operating system gives it: it
runs on unless blocked.  So: the worker (`Worker`), an owner inside `queue()`,
`connect()` or `cancel()`, the destructor once begun (`DbThread`); the draw thread, the main
loop's delivery of a dispatch, and the main thread inside a call (`DrawThread`, `TileCache`);
a transfer, which curl ends with an answer or an error (`ADDS`, `TileCache`).  No fairness is
assumed of what a user or an owner may decide: starting a query, changing the view,
hiding, aborting, destroying.  `QueryWait` needs strong fairness twice, for a mutex another
thread takes again and again: of the caller's `queue()`, which competes with spurious wakeups of the
worker, and of the slot (`Tell`), which competes with the caller's tests.  A mutex that is free
infinitely often is eventually got.  In `SockServer` the main loop calls the handler of whatever stays ready,
the timer expires, and a process ends when its socket has; no client need ask, no router need write or end.  Its weak
fairness is written without ENABLED (`CanSend`, `HasInput`, ... are the guards).  In `Autoroute` the main loop goes on and the timer
expires; the validator need not answer.

**Exceptions named in properties.**  Several properties end in a condition.  Each of
them is a weakness of the code that the unconditional form runs into:

* `~DbThread` broadcasts without `m_mutex`: a worker between its test and its wait misses
  it, and the join never returns (`JoinReturns`).
* A query whose `queue()` read `m_terminate` before the destructor set it may be pushed
  behind the drained list and is never done (`NoTaskLost`, proved, allows it to stay in the list).
* A listener to a query drained at shutdown is not called: `seterror()` runs no slot
  (`UncalledOnlyAfterTerminate`, proved).
* `fix_invalid_altitudes()`, FPLQuery and FPLGPSImpQuery: a query that ends between test and sleep
  strands the caller, in the user interface for good (`StrandedOnlyInGap`).  To lock the mutex in the
  slot, as Profile does, is no remedy there: `cancel()`, which they call with it locked, waits for the
  slot, and both would block.
* The King simulator locks itself out when a query ends before `connect()` (`LocksItselfOut` in `GetsOut`).
* Profile and FindAirspace may be called back once when they are gone (`OnlyTheLastIsTold`), and
  so may a FindCoord (`OnlyCurrentCallOutstanding`).
* A DrawThreadBitmap keeps overlays of another place after overview, pan and zoom
  (`AfterOverview` in `ReadyIsSound`); an airport diagram whose query `airports_changed()` cancels
  waits for the next change of view (`Forgotten` in `Settles`).
* `Settles` also excludes views compared during `ImageBuffer::reset()`, where the race may restart the
  thread in every pass.
* TileCache: a `clear_queue()` between the two halves of `runqueue()` stores a picture under another
  tile's name, for good; erases from an empty vector; and may leave `m_msg` set for good (`gap`).  A tile that
  was queued twice or has failed can leave the queue last without the map being redrawn (`silent`).
* TileCache: every error of the disk ends the program, and so does a draw thread that reads a file while the main thread writes it, or after it
  has deleted what it could not write all of; a file left half written by a program that ended so ends the next one too, when it is
  looked at (`CrashExplained`).
* DrawThread: a map hidden in the middle of a pass gets a picture with layers missing that counts as ready, and stays on the screen buffer until
  it is shown (`torn` and `BrokenOff` in `ReadyIsComplete`).
* FindCoord: a query by ident that ends without error and with nothing in it wins over the query by name, and what that has found is thrown
  away (icaofpl.cc 183-187, 194-198; `LookupRight` says what is kept).
* ADDS: `metar_taf()` for an empty area starts nothing but sets `m_mode` (`meddled`); a call while busy
  throws after overwriting the URL and the METARs (`disturbed`); `complete()` called by the dispatch of an
  aborted thread waits in the main loop for the new one (`WaitsOnlyForAborted`); when the last transfer
  fails the callback is not called (`Excused`).

* SocketServer: the timer closes a router while a dead one is in the table; or a handler answers the client that waits for its
  router, and the answer deletes the router, because its session has ended or it was dead and out of the table already:
  the caller goes on with the deleted object (`UndefinedExplained`).  The second half is as wide as this because the proof
  needs it: with the dead router that is out of the table left out, the run passes at its bounds and fails with one more request.  A client that leaves or throws away
  logs may wait for a session that is over (`WaitersPaired`, `Answered`).
* Autoroute: `stop()` leaves the validator's answer in the pipe, and the next run takes it for the answer to its own route; an idle
  callback survives `stop()` and `start()`; a `start()` dispatched inside `parse_response()` empties the answer it is looking at,
  which then counts as accepted; the retry after a timeout may receive the late answer to the first attempt
  (`crossed` in `SuccessIsJudged` and `OneChain`): these properties do not catch that, and PROJECT.json lists it as a hazard
  no property covers.  What they check is a run that met no other: its timeouts, its retries, the ends of the validator.

None of them contradicts a comment, test or document of the repository, so none is recorded as a finding.

## 5. What is proved

All theorems hold for every value of the constants that satisfies the module's named
ASSUME.

**EngineProofs.**  In four parts.  First `DbThread`: one inductive invariant `IInv` (in `DbThread`, also checked by
TLC while it was found).  The properties themselves are not inductive: that an interrupt hits a
cancelled query only needs to know that the worker cannot leave `execute()` while the
canceller holds the query's mutex.  So `IInv` adds: a query is pushed once, and
belongs to the list or the worker, and nothing has happened to it before
(`QueueInv`); `m_executing` is set only for the current query, inside the action (`ExecutingInv`), and pins the
worker there while the owner is interrupting (`InterruptInv`); and what has become of a query given its
flags and the worker's place (`VerdictInv`, `FinishedInv`, `CallInv`).  `InvInit`, `InvNext`
(one step per action), then: `TypeCorrect`, `InterruptSafe`,
`PublishedSafe`, `CalledOnce`, `NothingLost`, `UncalledOnlyDrained`, and, as action
properties from the same invariant, `SilentAfterCancel` and `VerdictIsFinal`.  Those that say that elements are
published with the verdict, that a slot runs once, and that no query is lost are stated for the proof only: what an
owner sees of them is in `AsyncQuery`, which the run checks.

Then `Refinement`: `DbThread` implements `AsyncQuery`.  Every action maps to an action of
the promise or to a stutter, given `IInv` before and after.  `FindCoord` therefore stands on a
promise that holds.

Then `QueryWait`.  `StepOfDbThread`: every step of the composition is a step of `DbThread` or
leaves it alone, so `IInv` is inherited by citing `InvNext`.  `WaitInv` adds to it where the caller is in
relation to its queries (`HandleInv`), what it has cancelled (`CancelInv`) or forgotten (`ForgottenInv`), what its mutex
protects (`LockInv`), and that a query that was tested and found running is still to be told of, or was told of in
the gap (`GapInv`).  Then `WaitTypeCorrect`, `NobodyElseStranded`, `Quiet`, `OnlyTheLast`, for all
three styles and any sequence of batches.

Last `FindCoord`.  A lookup looks at one kind at a time while other queries still run and late slots wake it.  So the invariant is
about one kind: with a pointer set it has found nothing and all its queries have theirs set (`Unseen`), without one it has exactly what its
queries found (`Seen`); and a query that is pending is of this lookup and has its pointer set (`Accounted`).  Then
`FindCoordLookupRight` and `FindCoordOutstanding`, for any kinds and any number of lookups.

**TileCacheProofs.**  `IInv` says that `m_msg` is set exactly while a request is under way or
its answer dealt with, and free in `runqueue()` (`MsgInv`), and that the main thread's tile is the front of
the queue, later the one of `m_msg`, unless the gap was hit (`FrontInv`).  For the exceptions, what matters is what the draw thread may
find in a file it has seen to be there (`FileInv`): half a picture is only in files that are `Unsteady`, being written or deleted, or `Spoilt`, deleted, foreign
or left over.  Then `TypeCorrect`,
`AnswersMatch`, `FilesMatch`, `CrashesExplained` for any tiles and views.

**DctPoolProofs.**  What decides is which pairs lie behind a worker's cursor: exactly those it has handed over or skipped
(`Behind`), and a pair belongs to the worker whose number is its first point modulo the number of workers (`Apart`), for
which three lemmas on remainders are needed.  With the count of the list (`Counted`) and what the main thread
knows when it stops looking (`MainKnows`) this gives `DctEachOnce` and `DctAllDone` for any points, workers and limit.

**ADDSProofs.**  `m_mode`, `m_url`, the METARs put aside and the answer are changed one by one, by calls, callbacks and the thread; `Sent` and `Got`
say how they fit together for a request that nothing has disturbed, `Quiet` that without a thread a late dispatch finds
nothing to do, `Prompt` that before the first abort a dispatch finds its thread ended.  Then `AddsGivenAll`, `AddsWaits` and, as
an action property, `AddsSilent`, for any number of calls and aborts.

**DrawThreadProofs.**  A pass reads view, rectangle, pointers and results one after the other.  What is true of it is stated under the
proviso that `m_threadstate` still is `thread_busy`: it is framed by the rectangle (`Framed`), what it has drawn is sound (`Drawing`), what it has left out is
excused (`Lacking`), and what it has broken off is not for good (`Whole`).  Two facts need no proviso: no result is older than the last notification of its layer, because the query is
cancelled before `restart_db()` is called (`Recent`), and the queries are those of the rectangle unless a pass is about to
make them again (`SameArea`).  There is one lemma for each part of the invariant, with a step for the actions that change what it is about.
Then `DrawReadyIsAtRest`, `DrawReadyIsSound`, `DrawOrphansAreLate` for any views, layers and subclasses, and `DrawReadyIsComplete` for those
that draw overlays in every view.

**AutorouteProofs.**  The main loop runs inside of `is_stopped()`, so the functions of an iteration are called in states that a nested call has
changed.  `Inv` is stated of the record that each function returns, and `Clean` is what a function of the iteration may count on when it is
called: nothing is pending except what it is about to start.  How many idle callbacks and answers there are is counted by the elements of a
sequence (`Hits`), with a lemma for each way in which the code changes one.  Then `AutorouteInvariant`, `AutorouteSuccess`
(`SuccessIsJudged`) and `AutorouteOneChain` (`OneChain`) for any limits.

**SockServerProofs.**  The handlers call each other, so the invariant is broken in the middle of each, and what a caller finds after
a nested call decides.  `Good(s, pr, x, D)` says what is true then: types, the table (`TableInv`), objects and processes (`LifeInv`), where each message of a
router is between the process, the socket, the queue and the replies (`Stream`), and that routers and clients refer to each other (`Linked`,
`Heard`, `Told`), except that the client of router `x` may still have something to be told and the clients in `D` wait for nothing.  Each call has
a lemma: it keeps `Good`, and what it leaves of the others (`Calm`, `Kept`, `Receives`, `Tells`).  What `Sorted` and `Expiring` compute
for a queue or table of any length is shown for the least index where it could fail, which needs only that a
nonempty set of numbers has a least element.  Then `SockServerInvariant`, `SockServerWaiters`
(`WaitersPaired`), `SockServerStreams` (`NothingSkipped`) and, as an action property, `SockServerUndefined` (`UndefinedExplained`), for any sessions, routers,
clients, limits and sets of requests.

Type correctness is a part of every one of these invariants; the runs do not check it again.

**IntervalSetProofs.**  A list is known by the numbers it holds: `Is(s, P)` says that its intervals are in order, apart from each other and not
empty, and hold the numbers `P`.  The intervals of such a list are the blocks of `P` (`BlocksOfList`), so are those of `Runs(P)`, and a list in order is
determined by its intervals (`InOrderUnique`): `Runs(P)` is the only one (`OnlyRuns`).  What is left is that each operation yields such a
list, from lists that are (`UnionIs`, `IntersectionIs`, `ComplementIs`, ...).  The loops are recursive functions: that `Merged` and `Gaps` exist and
do what they should after every turn is shown for the first turn that could fail, with nothing but that a nonempty set of numbers has a least element.
Then `IntervalSetInvariant`, `IntervalSetCanonical` (`IsCanonical`) and `IntervalSetComparisons` (`ComparisonsAgree`), for any `Top`, the largest number
with its wrap-around included.

**Only model-checked**: the liveness properties, since the prover has no ENABLED, hence no fairness.

## 6. What is not modelled

* *Memory and races below the model*: RefPtr assignment and sigc::signal emission are atomic here, except where the
  module says otherwise (`DrawbufShows`, `slot` of TileCache).  Weak memory effects are not modelled.
* *Data*: SQL, elements, geometry, text formats, drawing.  Floating-point code has no counterpart in TLC.
* *Several windows at once*: each map and each dialog has its own objects; they meet in the Engine only, where
  `DbThread` has any number of owners.
* *The Engine's destruction under a waiting caller*: `QueryWait` assumes that the Engine outlives its callers, as the
  programs arrange.
* *NWXWeather*: its `abort()` leaves a dispatch behind as that of `ADDS` does; the shape of that hazard is checked there.
* *Bitmap maps*: the comparison of times in `bitmapmaps.cc` 1081 returns a truth value where its caller looks for a negative number; a
  single expression, without a state to model.
* *Proxies*: after a failed write `child_close()` clears `m_sendbuf`, and with it the commands behind the one that failed
  (`cfmuautorouteproxy.cc` 704).
* The components marked "next", "out of reach" or "not modelled" in the inventory.
