----------------------------- MODULE DrawThread -----------------------------
(***************************************************************************)
(* VectorMapRenderer::DrawThread and its MapRenderer::ThreadImageBuffer:   *)
(* a thread draws the map into m_drawbuf while the main thread, which      *)
(* never waits for it, shows m_screenbuf and changes what is wanted.  The  *)
(* elements of the map come from queries to the Engine, for an area wider  *)
(* than the view (m_dbrectangle), which are made again when the view has   *)
(* left it or the database has changed.                                    *)
(*                                                                         *)
(* All that a view consists of (centre, scale, size, flags, altitude ...)  *)
(* is one member of Views.  An action is a stretch of code under m_mutex,  *)
(* or one between two accesses to what another thread changes.             *)
(*                                                                         *)
(* The subclasses differ in Kinds: VMap and TMS have Gate = Views; Bitmap  *)
(* queries and draws overlays in a close view only (Gate); Terrain and     *)
(* AirportDiagram have no base class that cancels again (Late); the        *)
(* diagram queries whatever the flags are (Query[l] larger than Flag[l]).  *)
(***************************************************************************)
EXTENDS Naturals, FiniteSets

CONSTANTS
    Views,
    Usable,         \* Usable[v]: the views an image drawn for v can show
    Covers,         \* Covers[v]: the views inside the rectangle made for v
    Layers,         \* one for each kind of query
    Kinds,          \* the subclasses, see below
    Listed,         \* the layers drawn element by element
    Editable,       \* the layers that have a *_changed()
    NoView,         \* no image; the empty rectangle
    NoLayer,
    MaxChanges,     \* changes of the view or its visibility (bound)
    MaxVersion      \* changes of the database (bound)

ASSUME ViewAssumption ==
    /\ NoView \notin Views
    /\ NoLayer \notin Layers
    /\ Usable \in [Views -> SUBSET Views]
    /\ Covers \in [Views -> SUBSET Views]
    /\ \A v \in Views : v \in Usable[v] /\ v \in Covers[v]
    /\ Kinds \subseteq [query: [Layers -> SUBSET Views],
                       flag: [Layers -> SUBSET Views],
                       gate: SUBSET Views, late: SUBSET Layers]
    /\ Listed \subseteq Layers
    /\ Editable \subseteq Layers
    /\ MaxChanges \in Nat
    /\ MaxVersion \in Nat

VARIABLES
    kind,           \* the subclass of this draw thread
    view,           \* what the main thread wants to see: m_center, m_scale...
    hidden,         \* m_hidden
    threadstate,    \* m_threadstate
    screenbuf,      \* the view the image on the screen was drawn for
    torn,           \* history: that image has layers that were broken off
    drawbuf,        \* the view m_drawbuf was last reset to
    dbrectangle,    \* the view m_dbrectangle was made for
    query,          \* the RefPtr to the query of each layer
    calling,        \* layers whose query is done and whose slot has to run
    dpc,            \* where the draw thread is, see the actions
    newview,        \* the copy of the view draw_wait() has taken
    dbquery,        \* the local variable
    todo,           \* layers to be queried, later drawn, in this pass
    used,           \* what each layer of the image was drawn from
    mpc,            \* where the main thread is
    edited,         \* the layer whose elements it has changed
    dispatched,     \* m_dispatch() has been called
    changes,
    version,        \* history: changes made to the database, per layer
    notified,       \* history: the last of them restart_db() was called for
    lingering       \* history: queries made after the destructor's cancel

bufferVars == <<view, hidden, threadstate, screenbuf, torn, drawbuf>>
queryVars == <<query, calling, lingering>>
threadVars == <<dpc, newview, dbquery, todo, used>>
mainVars == <<mpc, edited, dispatched, changes, version, notified>>
vars == <<kind, bufferVars, dbrectangle, queryVars, threadVars, mainVars>>

NoResult == [status |-> "none", area |-> NoView, version |-> 0]

Init ==
    /\ kind \in Kinds
    /\ view \in Views
    /\ hidden = FALSE
    /\ threadstate = "restart"
    /\ screenbuf = NoView
    /\ torn = FALSE
    /\ drawbuf = NoView
    /\ dbrectangle = NoView
    /\ query = [l \in Layers |-> NoResult]
    /\ calling = {}
    /\ lingering = {}
    /\ dpc = "top"
    /\ newview = NoView
    /\ dbquery = FALSE
    /\ todo = {}
    /\ used = [l \in Layers |-> NoResult]
    /\ mpc = "idle"
    /\ edited = NoLayer
    /\ dispatched = FALSE
    /\ changes = 0
    /\ version = [l \in Layers |-> 0]
    /\ notified = [l \in Layers |-> 0]

-----------------------------------------------------------------------------
(* The subclass: in which views a layer is queried and drawn; for which of *)
(* them its *_changed() restarts; in which overlays are queried and drawn; *)
(* the layers whose query ~DrawThreadOverlay cancels again.                *)
Query == kind.query
Flag == kind.flag
Gate == kind.gate
Late == kind.late

-----------------------------------------------------------------------------
(* ThreadImageBuffer *)

(* m_cond.broadcast(): both waits of the draw thread are on m_cond.        *)
Woken == CASE dpc = "asleep" -> "woken"
           [] dpc = "layerasleep" -> "layerwoken"
           [] OTHER -> dpc

Shows(image, v) == image # NoView /\ v \in Usable[image]
Inside(v, rectangle) == rectangle # NoView /\ v \in Covers[rectangle]

(* What draw_checkabort() and draw_asyncwait_nolock() ask: is the picture  *)
(* that is being drawn still wanted?                                       *)
Aborted == threadstate \in {"restart", "terminate"} \/ hidden

(* restart_nolock() *)
RestartNolock ==
    IF threadstate = "terminate"
    THEN UNCHANGED <<threadstate, dpc>>
    ELSE threadstate' = "restart" /\ dpc' = Woken

(* What check_restart() may find in m_drawbuf: while the draw thread is in *)
(* ImageBuffer::reset(), which takes no mutex, anything.                   *)
DrawbufShows(v) ==
    IF dpc = "reset" THEN BOOLEAN ELSE {Shows(drawbuf, v)}

BrokenOff(l) == used[l].status = "broken"

(* update_nolock() takes the picture that is ready to the screen.          *)
TornAfter(updated) == IF updated THEN \E l \in Layers : BrokenOff(l) ELSE torn

(* check_restart() for a view v that has just been set; update_nolock() is *)
(* its first statement.                                                    *)
CheckRestart(v) ==
    LET updated == threadstate = "ready"
        screen == IF updated THEN drawbuf ELSE screenbuf
    IN  /\ screenbuf' = screen
        /\ torn' = TornAfter(updated)
        /\ drawbuf' = IF updated THEN NoView ELSE drawbuf
        /\ \E shows \in DrawbufShows(v) :
             IF \/ hidden
                \/ Shows(screen, v)
                \/ threadstate = "busy" /\ shows
             THEN /\ threadstate' = IF updated THEN "idle" ELSE threadstate
                  /\ UNCHANGED dpc
             ELSE RestartNolock

-----------------------------------------------------------------------------
(* Plausible mistakes, for the checks to notice; the specification does    *)
(* not use this section.                                                   *)

(* the destructor only stops the thread *)
Destroy_NoCancel ==
    /\ mpc = "idle"
    /\ mpc' = "destroying"
    /\ UNCHANGED <<kind, bufferVars, dbrectangle, queryVars, threadVars,
                   edited, dispatched, changes, version, notified>>

(* terminate() without a broadcast *)
Terminate_NoBroadcast ==
    /\ \/ mpc = "idle" /\ dpc # "exited" /\ mpc' = "stopping"
       \/ mpc = "destroying" /\ mpc' = "joining"
    /\ threadstate' = "terminate"
    /\ UNCHANGED <<kind, view, hidden, screenbuf, torn, drawbuf, dbrectangle,
                   queryVars, threadVars, edited, dispatched, changes,
                   version, notified>>

(* a redraw that only takes the new picture *)
Redraw_UpdateOnly ==
    /\ mpc = "idle"
    /\ ~hidden
    /\ mpc' = "painting"
    /\ dispatched' = FALSE
    /\ UNCHANGED <<kind, bufferVars, dbrectangle, queryVars, threadVars,
                   edited, changes, version, notified>>

(* the queries are only made once *)
DecideDbquery_Once ==
    /\ dpc = "decide"
    /\ dbquery' = (dbrectangle = NoView)
    /\ dbrectangle' = IF dbquery' THEN drawbuf ELSE dbrectangle
    /\ dpc' = "compute"
    /\ UNCHANGED <<kind, bufferVars, queryVars, newview, todo, used,
                   mainVars>>

(* to show the widget again only wakes the draw thread *)
SetHidden_NoRestart ==
    /\ mpc = "idle"
    /\ changes < MaxChanges
    /\ changes' = changes + 1
    /\ hidden' = ~hidden
    /\ dpc' = Woken
    /\ UNCHANGED <<kind, view, threadstate, screenbuf, torn, drawbuf,
                   dbrectangle, queryVars, newview, dbquery, todo, used, mpc,
                   edited, dispatched, version, notified>>

(* the picture may be shown when its first layers have been drawn *)
DrawDone_Progressive ==
    /\ dpc = "layers"
    /\ threadstate' = IF threadstate = "busy" THEN "ready" ELSE threadstate
    /\ dpc' = IF todo = {} THEN "dispatch" ELSE "layers"
    /\ UNCHANGED <<kind, view, hidden, screenbuf, torn, drawbuf, dbrectangle,
                   queryVars, newview, dbquery, todo, used, mainVars>>

(* draw_done() does not look whether it has to start again *)
DrawDone_Always ==
    /\ dpc = "layers"
    /\ todo = {}
    /\ threadstate' = IF threadstate = "terminate"
                      THEN threadstate ELSE "ready"
    /\ dpc' = "dispatch"
    /\ UNCHANGED <<kind, view, hidden, screenbuf, torn, drawbuf, dbrectangle,
                   queryVars, newview, dbquery, todo, used, mainVars>>

-----------------------------------------------------------------------------
(* The main thread. *)

(* set_center(), set_scale(), set_drawflags() and so on. *)
SetView(v) ==
    /\ mpc = "idle"
    /\ v # view
    /\ changes < MaxChanges
    /\ changes' = changes + 1
    /\ view' = v
    /\ CheckRestart(v)
    /\ UNCHANGED <<kind, hidden, dbrectangle, queryVars, newview, dbquery,
                   todo, used, mpc, edited, dispatched, version, notified>>

(* VectorMapRenderer::draw(): set_offset() and with it check_restart(),    *)
(* then update() in ThreadImageBuffer::draw().  It runs when the draw      *)
(* thread has dispatched, and whenever the window system asks for it.      *)
Redraw ==
    /\ mpc = "idle"
    /\ ~hidden
    /\ mpc' = "painting"
    /\ dispatched' = FALSE
    /\ CheckRestart(view)
    /\ UNCHANGED <<kind, view, hidden, dbrectangle, queryVars, newview,
                   dbquery, todo, used, edited, changes, version, notified>>

Paint ==
    /\ mpc = "painting"
    /\ mpc' = "idle"
    /\ IF threadstate = "ready"
       THEN /\ screenbuf' = drawbuf
            /\ torn' = TornAfter(TRUE)
            /\ drawbuf' = NoView
            /\ threadstate' = "idle"
       ELSE UNCHANGED <<screenbuf, torn, drawbuf, threadstate>>
    /\ UNCHANGED <<kind, view, hidden, dbrectangle, queryVars, threadVars,
                   edited, dispatched, changes, version, notified>>

(* renderer_update() asks for no redraw of a widget that is not shown. *)
RedrawHidden ==
    /\ mpc = "idle"
    /\ hidden
    /\ dispatched
    /\ dispatched' = FALSE
    /\ UNCHANGED <<kind, bufferVars, dbrectangle, queryVars, threadVars, mpc,
                   edited, changes, version, notified>>

SetHidden ==
    /\ mpc = "idle"
    /\ changes < MaxChanges
    /\ changes' = changes + 1
    /\ hidden' = ~hidden
    /\ threadstate' = IF hidden /\ threadstate # "terminate"
                      THEN "restart" ELSE threadstate
    /\ dpc' = Woken
    /\ UNCHANGED <<kind, view, screenbuf, torn, drawbuf, dbrectangle,
                   queryVars, newview, dbquery, todo, used, mpc, edited,
                   dispatched, version, notified>>

(* Elements of layer l are changed in the database... *)
Edit(l) ==
    /\ mpc = "idle"
    /\ l \in Editable
    /\ version[l] < MaxVersion
    /\ version' = [version EXCEPT ![l] = @ + 1]
    /\ edited' = l
    /\ mpc' = "written"
    /\ UNCHANGED <<kind, bufferVars, dbrectangle, queryVars, threadVars,
                   dispatched, changes, notified>>

(* ... whereupon airports_changed() and the like cancel the query, which   *)
(* is the draw thread's, ...                                               *)
CancelEdited ==
    /\ mpc = "written"
    /\ query' = [query EXCEPT ![edited] = NoResult]
    /\ calling' = calling \ {edited}
    /\ mpc' = "cancelled"
    /\ UNCHANGED <<kind, bufferVars, dbrectangle, lingering, threadVars,
                   edited, dispatched, changes, version, notified>>

(* ... and call restart_db() if the layer is shown. *)
RestartDb ==
    /\ mpc = "cancelled"
    /\ view \in Flag[edited]
    /\ dbrectangle' = NoView
    /\ RestartNolock
    /\ notified' = [notified EXCEPT ![edited] = version[edited]]
    /\ mpc' = "idle"
    /\ edited' = NoLayer
    /\ UNCHANGED <<kind, view, hidden, screenbuf, torn, drawbuf, queryVars,
                   newview, dbquery, todo, used, dispatched, changes,
                   version>>

NoRestartDb ==
    /\ mpc = "cancelled"
    /\ view \notin Flag[edited]
    /\ mpc' = "idle"
    /\ edited' = NoLayer
    /\ UNCHANGED <<kind, bufferVars, dbrectangle, queryVars, threadVars,
                   dispatched, changes, version, notified>>

(* stop(), from outside (then) or from the destructor. *)
Terminate ==
    /\ \/ mpc = "idle" /\ dpc # "exited" /\ mpc' = "stopping"
       \/ mpc = "destroying" /\ mpc' = "joining"
    /\ threadstate' = "terminate"
    /\ dpc' = Woken
    /\ UNCHANGED <<kind, view, hidden, screenbuf, torn, drawbuf, dbrectangle,
                   queryVars, newview, dbquery, todo, used, edited,
                   dispatched, changes, version, notified>>

Join ==
    /\ mpc = "stopping"
    /\ dpc = "exited"
    /\ mpc' = "idle"
    /\ UNCHANGED <<kind, bufferVars, dbrectangle, queryVars, threadVars,
                   edited, dispatched, changes, version, notified>>

(* The destructor of the subclass: async_cancel(), stop(). *)
Destroy ==
    /\ mpc = "idle"
    /\ query' = [l \in Layers |-> NoResult]
    /\ calling' = {}
    /\ mpc' = "destroying"
    /\ UNCHANGED <<kind, bufferVars, dbrectangle, lingering, threadVars,
                   edited, dispatched, changes, version, notified>>

(* ~DrawThreadOverlay cancels its own queries once more. *)
Destroyed ==
    /\ mpc = "joining"
    /\ dpc = "exited"
    /\ query' = [l \in Layers |-> IF l \in Late THEN NoResult ELSE query[l]]
    /\ calling' = calling \ Late
    /\ mpc' = "gone"
    /\ UNCHANGED <<kind, bufferVars, dbrectangle, lingering, threadVars,
                   edited, dispatched, changes, version, notified>>

Main == \/ \E v \in Views : SetView(v)
        \/ \E l \in Layers : Edit(l)
        \/ Redraw \/ Paint \/ RedrawHidden \/ SetHidden
        \/ CancelEdited \/ RestartDb \/ NoRestartDb
        \/ Terminate \/ Join \/ Destroy \/ Destroyed

-----------------------------------------------------------------------------
(* The draw thread. *)

(* draw_wait().  A pass that was given up has left the state at busy.      *)
DrawWait ==
    /\ dpc \in {"top", "woken"}
    /\ LET state == IF threadstate = "busy" THEN "idle" ELSE threadstate
       IN  CASE state = "terminate" ->
                  dpc' = "exited" /\ UNCHANGED <<threadstate, newview>>
             [] state = "restart" /\ ~hidden ->
                  /\ threadstate' = "busy"
                  /\ newview' = view
                  /\ dpc' = "reset"
             [] OTHER ->
                  /\ threadstate' = state
                  /\ dpc' = "asleep"
                  /\ UNCHANGED newview
    /\ UNCHANGED <<kind, view, hidden, screenbuf, torn, drawbuf, dbrectangle,
                   queryVars, dbquery, todo, used, mainVars>>

(* The end of draw_wait(): m_drawbuf.reset(), without the mutex. *)
ResetDrawbuf ==
    /\ dpc = "reset"
    /\ drawbuf' = newview
    /\ newview' = NoView
    /\ used' = [l \in Layers |-> NoResult]
    /\ dpc' = "decide"
    /\ UNCHANGED <<kind, view, hidden, threadstate, screenbuf, torn,
                   dbrectangle, queryVars, dbquery, todo, mainVars>>

(* thread(): have the queries been made for an area that holds this view?  *)
DecideDbquery ==
    /\ dpc = "decide"
    /\ dbquery' = ~Inside(drawbuf, dbrectangle)
    /\ dbrectangle' = IF dbquery' THEN drawbuf ELSE dbrectangle
    /\ dpc' = "compute"
    /\ UNCHANGED <<kind, bufferVars, queryVars, newview, todo, used,
                   mainVars>>

(* The layers to be drawn: the overlays of a Bitmap only if the view that  *)
(* is wanted by now is close.                                              *)
Drawn == IF view \in Gate THEN Layers ELSE {}

(* compute_pixmap(): a query that is missing or has failed is made again,  *)
(* and with it all the others.                                             *)
ComputeStart ==
    /\ dpc = "compute"
    /\ LET missing ==
              {l \in Layers : /\ drawbuf \in Query[l]
                              /\ query[l].status \in {"none", "failed"}}
       IN  IF (dbquery \/ missing # {}) /\ view \in Gate
           THEN dpc' = "requery" /\ UNCHANGED todo
           ELSE dpc' = "layers" /\ todo' = Drawn
    /\ dbquery' = FALSE
    /\ UNCHANGED <<kind, bufferVars, dbrectangle, queryVars, newview, used,
                   mainVars>>

Requery ==
    /\ dpc = "requery"
    /\ dbrectangle' = drawbuf
    /\ query' = [l \in Layers |-> NoResult]
    /\ calling' = {}
    /\ todo' = {l \in Layers : drawbuf \in Query[l]}
    /\ dpc' = "submit"
    /\ UNCHANGED <<kind, bufferVars, lingering, newview, dbquery, used,
                   mainVars>>

(* The query is made and connected: if it is done before it is connected   *)
(* the draw thread runs the slot itself, which finds nobody asleep.        *)
Submit(l) ==
    /\ dpc = "submit"
    /\ l \in todo
    /\ query' = [query EXCEPT ![l] = [status |-> "pending",
                                      area |-> dbrectangle,
                                      version |-> version[l]]]
    /\ todo' = todo \ {l}
    /\ lingering' = IF mpc \in {"destroying", "joining"}
                    THEN lingering \cup {l} ELSE lingering \ {l}
    /\ UNCHANGED <<kind, bufferVars, dbrectangle, calling, dpc, newview,
                   dbquery, used, mainVars>>

AllSubmitted ==
    /\ dpc = "submit"
    /\ todo = {}
    /\ dpc' = "layers"
    /\ todo' = Drawn
    /\ UNCHANGED <<kind, bufferVars, dbrectangle, queryVars, newview, dbquery,
                   used, mainVars>>

(* What becomes of a layer whose query has brought elements: if it is      *)
(* drawn element by element, draw_checkabort() leaves out all of them (the *)
(* airways) or those that are still to come when nobody wants the picture  *)
(* any more, and the pass goes on.                                         *)
DrawnFrom(l) == IF Aborted /\ l \in Listed
                THEN [query[l] EXCEPT !.status = "broken"]
                ELSE query[l]

(* The loop around draw_asyncwait_nolock(): a layer whose query is there   *)
(* no more, or done, is drawn; otherwise give up or sleep.                 *)
DrawLayer(l) ==
    /\ dpc = "layers"
    /\ l \in todo
    /\ IF query[l].status # "pending"
       THEN /\ todo' = todo \ {l}
            /\ used' = [used EXCEPT ![l] =
                          IF query[l].status = "ready" /\ drawbuf \in Query[l]
                          THEN DrawnFrom(l) ELSE NoResult]
            /\ UNCHANGED dpc
       ELSE /\ dpc' = IF Aborted THEN "dispatch" ELSE "layerasleep"
            /\ UNCHANGED <<todo, used>>
    /\ UNCHANGED <<kind, bufferVars, dbrectangle, queryVars, newview, dbquery,
                   mainVars>>

(* draw_asyncwait_nolock() after the wait *)
LayerWakeUp ==
    /\ dpc = "layerwoken"
    /\ dpc' = IF Aborted THEN "dispatch" ELSE "layers"
    /\ UNCHANGED <<kind, bufferVars, dbrectangle, queryVars, newview, dbquery,
                   todo, used, mainVars>>

(* draw_done() *)
DrawDone ==
    /\ dpc = "layers"
    /\ todo = {}
    /\ threadstate' = IF threadstate = "busy" THEN "ready" ELSE threadstate
    /\ dpc' = "dispatch"
    /\ UNCHANGED <<kind, view, hidden, screenbuf, torn, drawbuf, dbrectangle,
                   queryVars, newview, dbquery, todo, used, mainVars>>

Dispatch ==
    /\ dpc = "dispatch"
    /\ dispatched' = TRUE
    /\ todo' = {}
    /\ dpc' = "top"
    /\ UNCHANGED <<kind, bufferVars, dbrectangle, queryVars, newview, dbquery,
                   used, mpc, edited, changes, version, notified>>

SpuriousWakeup ==
    /\ dpc \in {"asleep", "layerasleep"}
    /\ dpc' = Woken
    /\ UNCHANGED <<kind, bufferVars, dbrectangle, queryVars, newview, dbquery,
                   todo, used, mainVars>>

Draw == \/ DrawWait \/ ResetDrawbuf \/ DecideDbquery \/ ComputeStart
        \/ Requery \/ AllSubmitted \/ LayerWakeUp \/ DrawDone \/ Dispatch
        \/ \E l \in Layers : Submit(l) \/ DrawLayer(l)

-----------------------------------------------------------------------------
(* The worker of the Engine, see AsyncQuery. *)

Finish(l) ==
    /\ query[l].status = "pending"
    /\ \E s \in {"ready", "failed"} :
         query' = [query EXCEPT ![l].status = s]
    /\ calling' = calling \cup {l}
    /\ UNCHANGED <<kind, bufferVars, dbrectangle, lingering, threadVars,
                   mainVars>>

(* async_done(), async_signal() *)
Call(l) ==
    /\ l \in calling
    /\ calling' = calling \ {l}
    /\ dpc' = Woken
    /\ UNCHANGED <<kind, bufferVars, dbrectangle, query, lingering, newview,
                   dbquery, todo, used, mainVars>>

Worker == \E l \in Layers : Finish(l) \/ Call(l)

Next == Main \/ Draw \/ SpuriousWakeup \/ Worker

(* The main thread comes back to its main loop, where a dispatch leads to  *)
(* a redraw; the draw thread and the worker go on.                         *)
Fairness ==
    /\ WF_vars(Draw)
    /\ WF_vars(Worker)
    /\ WF_vars(dispatched /\ (Redraw \/ RedrawHidden))
    /\ WF_vars(Paint \/ CancelEdited \/ RestartDb \/ NoRestartDb \/ Destroyed
               \/ Join \/ (mpc = "destroying" /\ Terminate))

Spec == Init /\ [][Next]_vars /\ Fairness

-----------------------------------------------------------------------------
(* Properties *)

(* What the main thread takes for the screen, or overwrites, the draw      *)
(* thread does not draw to: no picture is handed over before the pass that *)
(* draws it is over.  (What the pass may have left out: ReadyIsComplete.)  *)
ReadyIsAtRest ==
    threadstate = "ready" => dpc \in {"dispatch", "top", "asleep", "woken"}

(* What a layer was drawn from covers the view, and holds every change of  *)
(* the database restart_db() has been called for.                          *)
Sound(l) == used[l] # NoResult =>
                /\ Inside(drawbuf, used[l].area)
                /\ used[l].version >= notified[l]

(* A picture that is ready for the screen has been drawn from sound data,  *)
(* whatever has happened to the view and to the database since the draw    *)
(* thread decided that the results it has are good enough.  The exception  *)
(* is a DrawThreadBitmap that has updated m_dbrectangle in an overview,    *)
(* without making the queries.                                             *)
AfterOverview(l) == Gate # Views /\ query[l].area # dbrectangle
ReadyIsSound ==
    threadstate = "ready" => \A l \in Layers : Sound(l) \/ AfterOverview(l)

(* A layer is missing from a picture only if its query failed, or was      *)
(* cancelled because the elements have changed.  When the map is hidden in *)
(* mid-pass, layers are left out or broken off and the picture is marked   *)
(* ready all the same, and may even be taken to the screen: that is never  *)
(* the end of it, because a map that is shown again is drawn again.  (The  *)
(* clause on missing layers is about the subclasses that draw overlays in  *)
(* every view: a DrawThreadBitmap decides by the view that is wanted.)     *)
ReadyIsComplete ==
    /\ threadstate = "ready" => \A l \in Layers :
          /\ drawbuf \in Query[l] /\ used[l] = NoResult =>
                query[l].status \in {"none", "failed"}
          /\ BrokenOff(l) => hidden
    /\ torn /\ ~hidden => threadstate # "idle"

(* When the draw thread has been destroyed the Engine still has none of    *)
(* its queries, except those it made after the destructor cancelled them.  *)
OrphansAreLate ==
    mpc = "gone" => \A l \in Layers :
        query[l] # NoResult => l \in lingering \ Late

Right == \/ hidden
         \/ threadstate = "terminate"
         \/ Shows(screenbuf, view) /\ ~torn

(* check_restart() compared the view with m_drawbuf while it was being     *)
(* reset, and found that it does not show it.                              *)
Raced == dpc = "reset" /\ threadstate = "restart"

(* The draw thread sleeps on a query the main thread has cancelled: this   *)
(* can happen to a layer that is queried in a view in which its            *)
(* *_changed() does not call restart_db() after the cancel.                *)
Forgotten == /\ dpc = "layerasleep"
             /\ \E l \in todo : query[l] = NoResult /\ Query[l] # Flag[l]

(* When the view changes no more, the screen comes to show it, in a        *)
(* picture that was not broken off, and goes on doing so, even if the last *)
(* change was made while a picture for another view was on its way.  The   *)
(* exceptions are a forgotten query and a redraw that meets the draw       *)
(* thread in m_drawbuf.reset() in every pass and makes it start again.     *)
Settles == <>[](Right \/ Forgotten) \/ []<>Raced

(* stop() returns. *)
StopReturns == threadstate = "terminate" ~> dpc = "exited"
=============================================================================
