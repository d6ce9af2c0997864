--------------------------- MODULE DrawThreadProofs ---------------------------
(***************************************************************************)
(* Proofs about DrawThread, for any views, layers and subclasses: a        *)
(* picture that is ready for the screen is at rest, is drawn from results  *)
(* that cover it and hold every change of the database that was notified,  *)
(* and lacks no layer that was found, unless the map was hidden in         *)
(* mid-pass, after which it is drawn again.                                *)
(*                                                                         *)
(* A pass of the draw thread reads the view, m_dbrectangle, the query      *)
(* pointers and the results one after the other while the main thread      *)
(* changes all of them.  What is true of a pass therefore holds under the  *)
(* proviso that m_threadstate still is thread_busy, since whoever spoils   *)
(* the pass makes it thread_restart.                                       *)
(***************************************************************************)
EXTENDS DrawThread, TLAPS

Results == [status: {"none", "pending", "ready", "failed"},
            area: Views \cup {NoView}, version: Nat]
Sources == [status: {"none", "ready", "broken"},
            area: Views \cup {NoView}, version: Nat]

AtRest == {"dispatch", "top", "asleep", "woken"}
Waiting == {"layers", "layerasleep", "layerwoken"}

TypeOK ==
    /\ kind \in Kinds
    /\ view \in Views
    /\ hidden \in BOOLEAN
    /\ threadstate \in {"restart", "busy", "ready", "idle", "terminate"}
    /\ torn \in BOOLEAN
    /\ drawbuf \in Views \cup {NoView}
    /\ dbrectangle \in Views \cup {NoView}
    /\ query \in [Layers -> Results]
    /\ calling \in SUBSET Layers
    /\ dpc \in AtRest \cup Waiting
                 \cup {"reset", "decide", "compute", "requery", "submit",
                       "exited"}
    /\ newview \in Views \cup {NoView}
    /\ dbquery \in BOOLEAN
    /\ todo \in SUBSET Layers
    /\ used \in [Layers -> Sources]
    /\ mpc \in {"idle", "painting", "written", "cancelled", "stopping",
                "destroying", "joining", "gone"}
    /\ edited \in Layers \cup {NoLayer}
    /\ version \in [Layers -> Nat]
    /\ notified \in [Layers -> Nat]

(* What a pass draws is a view, and nothing has been drawn before the      *)
(* layers are.                                                             *)
Pass ==
    /\ dpc = "reset" => newview \in Views
    /\ dpc \in Waiting \cup {"decide", "compute", "requery", "submit"} =>
         drawbuf \in Views
    /\ dpc \in {"decide", "compute", "requery", "submit"} =>
         \A l \in Layers : used[l] = NoResult
    /\ dpc # "compute" => ~dbquery

(* The query of a layer that has been changed is cancelled before          *)
(* restart_db() is called, so that no result is older than the last call.  *)
Recent ==
    /\ mpc \in {"written", "cancelled"} => edited \in Layers
    /\ \A l \in Layers :
         /\ notified[l] <= version[l]
         /\ query[l] # NoResult => notified[l] <= query[l].version
         /\ mpc = "cancelled" /\ edited = l /\ query[l] # NoResult =>
              query[l].version = version[l]

(* The queries are those of the rectangle, unless a pass is about to make  *)
(* them again; a DrawThreadBitmap may forget to.                           *)
SameArea ==
    Gate = Views /\ ~dbquery /\ dpc # "requery" /\ dbrectangle # NoView =>
        \A l \in Layers : query[l] # NoResult => query[l].area = dbrectangle

(* A pass nobody has spoilt draws a view inside the rectangle ...          *)
Framed ==
    threadstate \in {"busy", "ready"} /\ dpc \notin {"reset", "decide"} =>
        Inside(drawbuf, dbrectangle)

(* ... from what ReadyIsSound asks for.                                    *)
Drawing ==
    threadstate \in {"busy", "ready"} /\ dpc # "reset" =>
        \A l \in Layers : Sound(l) \/ AfterOverview(l)

(* The layers that have been dealt with, in the pass and in a picture that *)
(* is ready.                                                               *)
Looked(l) == drawbuf \in Query[l] /\ used[l] = NoResult =>
                 query[l].status \in {"none", "failed"}
Lacking ==
    Gate = Views =>
        /\ dpc \in Waiting => \A l \in Layers \ todo : Looked(l)
        /\ threadstate = "ready" => \A l \in Layers : Looked(l)

(* A layer is broken off, and a pass given up, in a picture that counts as *)
(* drawn only while the map is hidden; what came to the screen like that   *)
(* stays there only as long as it is hidden or about to be drawn again.    *)
Whole ==
    /\ threadstate \in {"busy", "ready"} /\ dpc # "reset" =>
         \A l \in Layers : BrokenOff(l) => hidden
    /\ threadstate = "busy" => dpc \notin {"asleep", "woken"}
    /\ threadstate = "busy" /\ dpc \in {"dispatch", "top"} => hidden
    /\ torn /\ ~hidden => threadstate # "idle"

(* Once the destructor has cancelled the queries, new ones are late ones.  *)
Leaving ==
    /\ mpc \in {"destroying", "joining", "gone"} =>
         \A l \in Layers : query[l] # NoResult => l \in lingering
    /\ mpc = "gone" => /\ dpc = "exited"
                       /\ \A l \in Layers \cap Late : query[l] = NoResult

IInv == /\ TypeOK
        /\ ReadyIsAtRest
        /\ Pass
        /\ Recent
        /\ SameArea
        /\ Framed
        /\ Drawing
        /\ Lacking
        /\ Whole
        /\ Leaving

(* Every variable keeps its type.                                          *)
LEMMA NextTypeOK ==
    ASSUME IInv, [Next]_vars
    PROVE  TypeOK'
<1> USE ViewAssumption
<1>1. CASE \/ Redraw
           \/ \E v \in Views : SetView(v)
  <2>1. torn' \in BOOLEAN
    BY <1>1, Zenon DEF IInv, TypeOK, SetView, CheckRestart, TornAfter, Redraw
  <2> QED
    BY <1>1, <2>1
    DEF IInv, TypeOK, AtRest, Waiting, queryVars, SetView, CheckRestart,
      RestartNolock, DrawbufShows, Woken, Redraw
<1>2. CASE Paint \/ RedrawHidden
  BY <1>2
  DEF IInv, TypeOK, bufferVars, queryVars, threadVars, Paint, TornAfter,
    RedrawHidden
<1>3. CASE SetHidden
  BY <1>3
  DEF IInv, TypeOK, AtRest, Waiting, queryVars, SetHidden, Woken
<1>4. CASE \E l \in Layers : Edit(l)
  BY <1>4
  DEF IInv, TypeOK, bufferVars, queryVars, threadVars, Edit
<1>5. CASE CancelEdited
  <2>1. edited \in Layers /\ NoResult \in Results
    BY <1>5 DEF IInv, Recent, CancelEdited, Results, NoResult
  <2>2. query' \in [Layers -> Results]
    BY <1>5, <2>1 DEF IInv, TypeOK, CancelEdited
  <2> QED
    BY <1>5, <2>2 DEF IInv, TypeOK, CancelEdited, bufferVars, threadVars
<1>6. CASE RestartDb \/ NoRestartDb
  BY <1>6
  DEF IInv, TypeOK, AtRest, Waiting, bufferVars, queryVars, threadVars,
    RestartDb, RestartNolock, Woken, NoRestartDb
<1>7. CASE Terminate \/ Join
  BY <1>7
  DEF IInv, TypeOK, AtRest, Waiting, bufferVars, queryVars, threadVars,
    Terminate, Woken, Join
<1>8. CASE Destroy \/ Destroyed
  BY <1>8
  DEF IInv, TypeOK, Results, NoResult, bufferVars, threadVars, Destroy,
    Destroyed
<1>9. CASE DrawWait
  BY <1>9
  DEF IInv, TypeOK, AtRest, queryVars, mainVars, DrawWait
<1>10. CASE ResetDrawbuf
  BY <1>10
  DEF IInv, TypeOK, Sources, NoResult, queryVars, mainVars, ResetDrawbuf
<1>11. CASE DecideDbquery
  BY <1>11
  DEF IInv, TypeOK, bufferVars, queryVars, mainVars, DecideDbquery
<1>12. CASE ComputeStart
  <2>1. todo' \in SUBSET Layers
    BY <1>12 DEF IInv, TypeOK, ComputeStart, Drawn
  <2>2. dpc' \in {"requery", "layers"} /\ dbquery' = FALSE
        /\ UNCHANGED <<kind, view, hidden, threadstate, torn, drawbuf,
                       dbrectangle, query, calling, newview, used, mpc,
                       edited, version, notified>>
    BY <1>12 DEF ComputeStart, bufferVars, queryVars, mainVars
  <2>3. hidden' \in BOOLEAN /\ torn' \in BOOLEAN /\ dbquery' \in BOOLEAN
    BY <2>2 DEF IInv, TypeOK
  <2> QED
    BY <2>1, <2>2, <2>3 DEF IInv, TypeOK, Waiting
<1>13. CASE Requery
  BY <1>13
  DEF IInv, TypeOK, Results, NoResult, bufferVars, mainVars, Requery
<1>14. CASE \E l \in Layers : Submit(l)
  BY <1>14
  DEF IInv, TypeOK, Results, bufferVars, mainVars, Submit
<1>15. CASE AllSubmitted
  BY <1>15
  DEF IInv, TypeOK, Waiting, bufferVars, queryVars, mainVars, AllSubmitted,
    Drawn
<1>16. CASE \E l \in Layers : DrawLayer(l)
  <2>1. PICK l \in Layers : DrawLayer(l)
    BY <1>16
  <2>2. used' \in [Layers -> Sources]
    <3>1. /\ NoResult \in Sources
          /\ query[l].status = "ready" => DrawnFrom(l) \in Sources
      BY DEF IInv, TypeOK, Results, Sources, NoResult, DrawnFrom
    <3> QED
      BY <2>1, <3>1 DEF IInv, TypeOK, DrawLayer
  <2>3. /\ dpc' \in {"layers", "dispatch", "layerasleep"}
        /\ todo' \in SUBSET Layers
    BY <2>1 DEF IInv, TypeOK, DrawLayer
  <2> QED
    BY <2>1, <2>2, <2>3
    DEF IInv, TypeOK, AtRest, Waiting, bufferVars, queryVars, mainVars,
      DrawLayer
<1>17. CASE LayerWakeUp \/ DrawDone \/ Dispatch \/ SpuriousWakeup
  BY <1>17
  DEF IInv, TypeOK, AtRest, Waiting, bufferVars, queryVars, mainVars,
    LayerWakeUp, DrawDone, Dispatch, SpuriousWakeup, Woken
<1>18. CASE \E l \in Layers : Finish(l)
  <2>1. PICK l \in Layers, s \in {"ready", "failed"} :
            /\ Finish(l)
            /\ query' = [query EXCEPT ![l].status = s]
    BY <1>18 DEF Finish
  <2>2. query[l] \in Results
    BY DEF IInv, TypeOK
  <2>3. [query[l] EXCEPT !.status = s] \in Results
    BY <2>2 DEF Results
  <2>4. query' \in [Layers -> Results]
    BY <2>1, <2>2, <2>3 DEF IInv, TypeOK
  <2> QED
    BY <2>1, <2>4 DEF IInv, TypeOK, Finish, bufferVars, threadVars, mainVars
<1>19. CASE \E l \in Layers : Call(l)
  BY <1>19
  DEF IInv, TypeOK, AtRest, Waiting, bufferVars, mainVars, Call, Woken
<1>20. CASE UNCHANGED vars
  BY <1>20 DEF IInv, TypeOK, vars, bufferVars, queryVars, threadVars,
    mainVars
<1> QED
  BY <1>1, <1>2, <1>3, <1>4, <1>5, <1>6, <1>7, <1>8, <1>9, <1>10, <1>11,
    <1>12, <1>13, <1>14, <1>15, <1>16, <1>17, <1>18, <1>19, <1>20 DEF Next,
    Main, Draw, Worker

(* Nobody but draw_done() makes a picture ready, and the thread is then at *)
(* rest until draw_wait() sets thread_busy.                                *)
LEMMA NextReadyIsAtRest ==
    ASSUME IInv, [Next]_vars
    PROVE  ReadyIsAtRest'
<1> USE ViewAssumption
<1>1. CASE \/ Redraw
           \/ \E v \in Views : SetView(v)
  BY <1>1
  DEF IInv, ReadyIsAtRest, SetView, CheckRestart, RestartNolock,
    DrawbufShows, Woken, Redraw
<1>2. CASE RestartDb
  BY <1>2
  DEF IInv, ReadyIsAtRest, RestartDb, RestartNolock, Woken
<1>3. CASE Paint \/ SetHidden \/ Terminate
  BY <1>3
  DEF IInv, ReadyIsAtRest, Paint, SetHidden, Woken, Terminate
<1>4. CASE DrawWait
  BY <1>4
  DEF IInv, ReadyIsAtRest, DrawWait
<1>5. CASE DrawDone
  BY <1>5
  DEF IInv, ReadyIsAtRest, DrawDone
<1>6. CASE \/ ResetDrawbuf \/ DecideDbquery \/ ComputeStart \/ Requery
           \/ AllSubmitted
           \/ \E l \in Layers : DrawLayer(l)
  BY <1>6
  DEF IInv, ReadyIsAtRest, bufferVars, ResetDrawbuf, DecideDbquery,
    ComputeStart, Drawn, Requery, AllSubmitted, DrawLayer
<1>7. CASE \/ LayerWakeUp \/ Dispatch \/ SpuriousWakeup
           \/ \E l \in Layers : Call(l)
  BY <1>7
  DEF IInv, ReadyIsAtRest, bufferVars, LayerWakeUp, Dispatch, SpuriousWakeup,
    Woken, Call
<1>8. CASE UNCHANGED <<threadstate, dpc>>
  BY <1>8
  DEF IInv, ReadyIsAtRest
<1> QED
  BY <1>1, <1>2, <1>3, <1>4, <1>5, <1>6, <1>7, <1>8
  DEF Next, Main, Draw, Worker, vars, bufferVars, queryVars, threadVars,
    mainVars, RedrawHidden, Edit, CancelEdited, NoRestartDb, Join, Destroy,
    Destroyed, Submit, Finish

(* The main thread leaves m_drawbuf alone during a pass.                   *)
LEMMA NextPass ==
    ASSUME IInv, [Next]_vars
    PROVE  Pass'
<1> USE ViewAssumption
<1>1. CASE \/ Redraw
           \/ \E v \in Views : SetView(v)
  BY <1>1
  DEF IInv, Pass, ReadyIsAtRest, Waiting, SetView, CheckRestart,
    RestartNolock, DrawbufShows, Woken, Redraw
<1>2. CASE Paint
  BY <1>2
  DEF IInv, Pass, ReadyIsAtRest, Waiting, threadVars, Paint
<1>3. CASE \/ SetHidden \/ RestartDb \/ Terminate \/ SpuriousWakeup
           \/ \E l \in Layers : Call(l)
  BY <1>3
  DEF IInv, Pass, Waiting, bufferVars, SetHidden, Woken, RestartDb,
    RestartNolock, Terminate, SpuriousWakeup, Call
<1>4. CASE DrawWait \/ ResetDrawbuf
  BY <1>4
  DEF IInv, Pass, TypeOK, Waiting, DrawWait, ResetDrawbuf
<1>5. CASE DecideDbquery \/ ComputeStart
  BY <1>5
  DEF IInv, Pass, bufferVars, DecideDbquery, ComputeStart, Drawn
<1>6. CASE Requery \/ AllSubmitted \/ LayerWakeUp \/ DrawDone \/ Dispatch
  BY <1>6
  DEF IInv, Pass, Waiting, bufferVars, Requery, AllSubmitted, Drawn,
    LayerWakeUp, DrawDone, Dispatch
<1>7. CASE \E l \in Layers : DrawLayer(l)
  BY <1>7
  DEF IInv, Pass, Waiting, bufferVars, DrawLayer
<1>8. CASE UNCHANGED <<dpc, newview, drawbuf, used, dbquery>>
  BY <1>8
  DEF IInv, Pass
<1> QED
  BY <1>1, <1>2, <1>3, <1>4, <1>5, <1>6, <1>7, <1>8
  DEF Next, Main, Draw, Worker, vars, bufferVars, queryVars, threadVars,
    mainVars, RedrawHidden, Edit, CancelEdited, NoRestartDb, Join, Destroy,
    Destroyed, Submit, Finish

(* The order of the calls in airports_changed(): a query made before the   *)
(* cancel is gone when restart_db() is called, one made after it is new.   *)
LEMMA NextRecent ==
    ASSUME IInv, [Next]_vars
    PROVE  Recent'
<1> USE ViewAssumption
<1>1. CASE \E l \in Layers : Edit(l)
  BY <1>1
  DEF IInv, Recent, TypeOK, queryVars, Edit
<1>2. CASE CancelEdited
  BY <1>2
  DEF IInv, Recent, TypeOK, CancelEdited
<1>3. CASE RestartDb
  BY <1>3
  DEF IInv, Recent, TypeOK, queryVars, RestartDb, RestartNolock, Woken
<1>4. CASE Redraw \/ Paint \/ NoRestartDb \/ Terminate \/ Join
  BY <1>4
  DEF IInv, Recent, queryVars, Redraw, CheckRestart, RestartNolock,
    DrawbufShows, Woken, Paint, NoRestartDb, Terminate, Join
<1>5. CASE Destroy \/ Destroyed
  BY <1>5
  DEF IInv, Recent, Destroy, Destroyed
<1>6. CASE Requery
  BY <1>6
  DEF IInv, Recent, mainVars, Requery
<1>7. CASE \E l \in Layers : Submit(l)
  BY <1>7
  DEF IInv, Recent, mainVars, Submit
<1>8. CASE \E l \in Layers : Finish(l)
  BY <1>8
  DEF IInv, Recent, NoResult, mainVars, Finish
<1>9. CASE UNCHANGED <<mpc, edited, query, notified, version>>
  BY <1>9
  DEF IInv, Recent
<1> QED
  BY <1>1, <1>2, <1>3, <1>4, <1>5, <1>6, <1>7, <1>8, <1>9
  DEF Next, Main, Draw, Worker, vars, bufferVars, queryVars, threadVars,
    mainVars, SetView, RedrawHidden, SetHidden, DrawWait, ResetDrawbuf,
    DecideDbquery, ComputeStart, AllSubmitted, DrawLayer, LayerWakeUp,
    DrawDone, Dispatch, SpuriousWakeup, Call

(* m_dbrectangle moves only when all queries are made again.               *)
LEMMA NextSameArea ==
    ASSUME IInv, [Next]_vars
    PROVE  SameArea'
<1> USE ViewAssumption
<1>1. CASE \/ Redraw
           \/ \E v \in Views : SetView(v)
  BY <1>1
  DEF IInv, SameArea, Gate, queryVars, SetView, CheckRestart, RestartNolock,
    DrawbufShows, Woken, Redraw
<1>2. CASE \/ SetHidden \/ Terminate \/ SpuriousWakeup
           \/ \E l \in Layers : Call(l)
  BY <1>2
  DEF IInv, SameArea, Gate, queryVars, SetHidden, Woken, Terminate,
    SpuriousWakeup, Call
<1>3. CASE CancelEdited
  BY <1>3
  DEF IInv, SameArea, Gate, threadVars, CancelEdited
<1>4. CASE RestartDb
  BY <1>4
  DEF IInv, SameArea, RestartDb, RestartNolock, Woken
<1>5. CASE Destroy \/ Destroyed
  BY <1>5
  DEF IInv, SameArea, Pass, Gate, Destroy, Destroyed
<1>6. CASE \/ DrawWait \/ ResetDrawbuf \/ AllSubmitted \/ LayerWakeUp
           \/ DrawDone \/ Dispatch
           \/ \E l \in Layers : DrawLayer(l)
  BY <1>6
  DEF IInv, SameArea, Gate, queryVars, DrawWait, ResetDrawbuf, AllSubmitted,
    Drawn, DrawLayer, LayerWakeUp, DrawDone, Dispatch
<1>7. CASE DecideDbquery
  BY <1>7
  DEF IInv, SameArea, Pass, Gate, queryVars, DecideDbquery
<1>8. CASE ComputeStart
  BY <1>8
  DEF IInv, SameArea, TypeOK, Gate, queryVars, ComputeStart, Drawn
<1>9. CASE Requery
  BY <1>9
  DEF IInv, SameArea, Requery
<1>10. CASE \E l \in Layers : Submit(l)
  BY <1>10
  DEF IInv, SameArea, Gate, Submit
<1>11. CASE \E l \in Layers : Finish(l)
  BY <1>11
  DEF IInv, SameArea, NoResult, Gate, threadVars, Finish
<1>12. CASE UNCHANGED <<dbquery, dpc, dbrectangle, query, kind>>
  BY <1>12
  DEF IInv, SameArea, Gate
<1> QED
  BY <1>1, <1>2, <1>3, <1>4, <1>5, <1>6, <1>7, <1>8, <1>9, <1>10, <1>11,
    <1>12
  DEF Next, Main, Draw, Worker, vars, bufferVars, queryVars, threadVars,
    mainVars, Paint, RedrawHidden, Edit, NoRestartDb, Join

(* A pass frames its own view, unless restart_db() has spoilt it.          *)
LEMMA NextFramed ==
    ASSUME IInv, [Next]_vars
    PROVE  Framed'
<1> USE ViewAssumption
<1>1. CASE \/ Redraw
           \/ \E v \in Views : SetView(v)
  BY <1>1
  DEF IInv, Framed, SetView, CheckRestart, RestartNolock, DrawbufShows,
    Woken, Redraw
<1>2. CASE Paint
  BY <1>2
  DEF IInv, Framed, threadVars, Paint
<1>3. CASE \/ SetHidden \/ Terminate \/ SpuriousWakeup
           \/ \E l \in Layers : Call(l)
  BY <1>3
  DEF IInv, Framed, bufferVars, SetHidden, Woken, Terminate, SpuriousWakeup,
    Call
<1>4. CASE RestartDb
  BY <1>4
  DEF IInv, Framed, RestartDb, RestartNolock, Woken
<1>5. CASE DrawWait
  BY <1>5
  DEF IInv, Framed, DrawWait
<1>6. CASE ResetDrawbuf \/ DecideDbquery
  BY <1>6
  DEF IInv, Framed, Pass, Inside, bufferVars, ResetDrawbuf, DecideDbquery
<1>7. CASE \/ ComputeStart \/ AllSubmitted \/ LayerWakeUp \/ Dispatch
           \/ \E l \in Layers : DrawLayer(l)
  BY <1>7
  DEF IInv, Framed, bufferVars, ComputeStart, Drawn, AllSubmitted, DrawLayer,
    LayerWakeUp, Dispatch
<1>8. CASE Requery
  BY <1>8
  DEF IInv, Framed, TypeOK, Inside, bufferVars, Requery
<1>9. CASE DrawDone
  BY <1>9
  DEF IInv, Framed, DrawDone
<1>10. CASE UNCHANGED <<threadstate, dpc, drawbuf, dbrectangle>>
  BY <1>10
  DEF IInv, Framed
<1> QED
  BY <1>1, <1>2, <1>3, <1>4, <1>5, <1>6, <1>7, <1>8, <1>9, <1>10
  DEF Next, Main, Draw, Worker, vars, bufferVars, queryVars, threadVars,
    mainVars, RedrawHidden, Edit, CancelEdited, NoRestartDb, Join, Destroy,
    Destroyed, Submit, Finish

(* A layer is drawn from the query that is there at that moment; what it   *)
(* was drawn from stays good enough as long as nobody spoils the pass.     *)
LEMMA NextDrawing ==
    ASSUME IInv, [Next]_vars
    PROVE  Drawing'
<1> USE ViewAssumption
<1>1. CASE \/ Redraw
           \/ \E v \in Views : SetView(v)
  BY <1>1
  DEF IInv, Drawing, Sound, AfterOverview, Gate, queryVars, SetView,
    CheckRestart, RestartNolock, DrawbufShows, Woken, Redraw
<1>2. CASE Paint
  BY <1>2
  DEF IInv, Drawing, Sound, AfterOverview, Gate, queryVars, threadVars, Paint
<1>3. CASE \/ SetHidden \/ Terminate \/ SpuriousWakeup
           \/ \E l \in Layers : Call(l)
  BY <1>3
  DEF IInv, Drawing, Sound, AfterOverview, Gate, bufferVars, queryVars,
    mainVars, SetHidden, Woken, Terminate, SpuriousWakeup, Call
<1>4. CASE CancelEdited
  BY <1>4
  DEF IInv, Drawing, Framed, Pass, Sound, AfterOverview, Gate, Inside,
    NoResult, bufferVars, threadVars, CancelEdited
<1>5. CASE RestartDb
  BY <1>5
  DEF IInv, Drawing, RestartDb, RestartNolock, Woken
<1>6. CASE Destroy \/ Destroyed
  BY <1>6
  DEF IInv, Drawing, Framed, Pass, Sound, AfterOverview, Gate, Inside,
    NoResult, bufferVars, threadVars, Destroy, Destroyed
<1>7. CASE DrawWait
  BY <1>7
  DEF IInv, Drawing, Sound, AfterOverview, Gate, queryVars, mainVars,
    DrawWait
<1>8. CASE ResetDrawbuf
  BY <1>8
  DEF IInv, Drawing, Sound, ResetDrawbuf
<1>9. CASE DecideDbquery
  BY <1>9
  DEF IInv, Drawing, Pass, Sound, DecideDbquery
<1>10. CASE ComputeStart \/ AllSubmitted
  BY <1>10
  DEF IInv, Drawing, Pass, Sound, ComputeStart, Drawn, AllSubmitted
<1>11. CASE Requery
  BY <1>11
  DEF IInv, Drawing, Pass, Sound, Requery
<1>12. CASE \E l \in Layers : Submit(l)
  BY <1>12
  DEF IInv, Drawing, Pass, Sound, Submit
<1>13. CASE \E l \in Layers : DrawLayer(l)
  <2>1. PICK l \in Layers : DrawLayer(l)
    BY <1>13
  <2>2. CASE query[l].status = "pending"
    BY <2>1, <2>2
    DEF IInv, Drawing, DrawLayer, Sound, AfterOverview, Gate, bufferVars,
      queryVars, mainVars
  <2>3. CASE query[l].status # "pending"
    <3>1. /\ used' = [used EXCEPT ![l] =
                        IF query[l].status = "ready" /\ drawbuf \in Query[l]
                        THEN DrawnFrom(l) ELSE NoResult]
          /\ dpc = "layers" /\ dpc' = "layers"
          /\ UNCHANGED <<kind, threadstate, drawbuf, dbrectangle, query,
                         notified>>
      BY <2>1, <2>3 DEF DrawLayer, bufferVars, queryVars, mainVars
    <3>2. \A j \in Layers : j # l => used'[j] = used[j]
      BY <3>1 DEF IInv, TypeOK
    <3>3. \/ used'[l] = NoResult
          \/ /\ query[l] # NoResult
             /\ used'[l].area = query[l].area
             /\ used'[l].version = query[l].version
      <4>1. used'[l] = NoResult
              \/ (query[l].status = "ready" /\ used'[l] = DrawnFrom(l))
        BY <3>1 DEF IInv, TypeOK
      <4>2. /\ DrawnFrom(l).area = query[l].area
            /\ DrawnFrom(l).version = query[l].version
        BY DEF IInv, TypeOK, Results, DrawnFrom
      <4>3. query[l].status = "ready" => query[l] # NoResult
        BY DEF NoResult
      <4> QED BY <4>1, <4>2, <4>3
    <3>4. SUFFICES ASSUME threadstate \in {"busy", "ready"}
                   PROVE  \A j \in Layers : (Sound(j) \/ AfterOverview(j))'
      BY <3>1 DEF Drawing
    <3>5. /\ dbrectangle # NoView /\ Inside(drawbuf, dbrectangle)
          /\ ~dbquery
      BY <3>1, <3>4 DEF IInv, Framed, Inside, Pass
    <3>6. query[l] # NoResult =>
            /\ notified[l] <= query[l].version
            /\ query[l].area = dbrectangle \/ AfterOverview(l)
      BY <3>1, <3>5 DEF IInv, Recent, SameArea, AfterOverview
    <3>7. query[l].version \in Nat /\ notified[l] \in Nat
      BY DEF IInv, TypeOK, Results
    <3>8. (Sound(l) \/ AfterOverview(l))'
      BY <3>1, <3>3, <3>5, <3>6, <3>7 DEF Sound, AfterOverview, Inside, Gate
    <3>9. ASSUME NEW j \in Layers, j # l
          PROVE  (Sound(j) \/ AfterOverview(j))'
      <4>1. Sound(j) \/ AfterOverview(j)
        BY <3>1, <3>4 DEF IInv, Drawing
      <4>2. used'[j] = used[j]
        BY <3>2, <3>9
      <4> QED BY <3>1, <4>1, <4>2 DEF Sound, AfterOverview, Inside, Gate
    <3> QED BY <3>8, <3>9
  <2> QED BY <2>2, <2>3
<1>14. CASE LayerWakeUp \/ DrawDone \/ Dispatch
  BY <1>14
  DEF IInv, Drawing, Sound, AfterOverview, Gate, bufferVars, queryVars,
    mainVars, LayerWakeUp, DrawDone, Dispatch
<1>15. CASE \E l \in Layers : Finish(l)
  BY <1>15
  DEF IInv, Drawing, Sound, AfterOverview, Gate, bufferVars, threadVars,
    mainVars, Finish
<1>16. CASE UNCHANGED <<threadstate, dpc, used, drawbuf, notified, query,
                        dbrectangle, kind>>
  BY <1>16
  DEF IInv, Drawing, Sound, AfterOverview, Gate
<1> QED
  BY <1>1, <1>2, <1>3, <1>4, <1>5, <1>6, <1>7, <1>8, <1>9, <1>10, <1>11,
    <1>12, <1>13, <1>14, <1>15, <1>16
  DEF Next, Main, Draw, Worker, vars, bufferVars, queryVars, threadVars,
    mainVars, RedrawHidden, Edit, NoRestartDb, Join

(* A layer leaves the loop when its query is no longer pending, and a query *)
(* that has failed or been cancelled is not made again during the loop.    *)
LEMMA NextLacking ==
    ASSUME IInv, [Next]_vars
    PROVE  Lacking'
<1> USE ViewAssumption
<1>1. CASE \/ Redraw
           \/ \E v \in Views : SetView(v)
  <2>1. PICK v \in Views : CheckRestart(v)
    BY <1>1 DEF IInv, TypeOK, SetView, Redraw
  <2>2. UNCHANGED <<kind, query, todo, used>>
    BY <1>1 DEF SetView, Redraw, queryVars
  <2>3. CASE threadstate = "ready"
    <3>1. dpc' \notin Waiting /\ threadstate' # "ready"
      BY <2>1, <2>3
      DEF IInv, ReadyIsAtRest, CheckRestart, RestartNolock, Woken, Waiting
    <3> QED BY <3>1 DEF Lacking
  <2>4. CASE threadstate # "ready"
    <3>1. /\ drawbuf' = drawbuf /\ threadstate' # "ready"
          /\ dpc' \in Waiting => dpc \in Waiting
      BY <2>1, <2>4 DEF CheckRestart, RestartNolock, Woken, Waiting
    <3> QED BY <2>2, <3>1 DEF IInv, Lacking, Looked, Gate, Query
  <2> QED BY <2>3, <2>4
<1>2. CASE Paint
  <2>1. CASE threadstate = "ready"
    BY <1>2, <2>1
    DEF IInv, ReadyIsAtRest, Lacking, Waiting, threadVars, Paint
  <2>2. CASE threadstate # "ready"
    BY <1>2, <2>2
    DEF IInv, Lacking, Looked, Gate, Query, queryVars, threadVars, Paint
  <2> QED BY <2>1, <2>2
<1>3. CASE \/ SetHidden \/ Terminate \/ SpuriousWakeup
           \/ \E l \in Layers : Call(l)
  BY <1>3
  DEF IInv, Lacking, Looked, Waiting, Gate, Query, bufferVars, queryVars,
    SetHidden, Woken, Terminate, SpuriousWakeup, Call
<1>4. CASE CancelEdited
  BY <1>4
  DEF IInv, Lacking, Looked, Gate, Query, NoResult, bufferVars, threadVars,
    CancelEdited
<1>5. CASE RestartDb
  BY <1>5
  DEF IInv, Lacking, Looked, Waiting, Gate, Query, queryVars, RestartDb,
    RestartNolock, Woken
<1>6. CASE Destroy \/ Destroyed
  BY <1>6
  DEF IInv, Lacking, Looked, Gate, Query, NoResult, bufferVars, threadVars,
    Destroy, Destroyed
<1>7. CASE DrawWait \/ ResetDrawbuf \/ DecideDbquery
  BY <1>7
  DEF IInv, Lacking, Looked, ReadyIsAtRest, Waiting, Gate, Query, bufferVars,
    queryVars, DrawWait, ResetDrawbuf, DecideDbquery
<1>8. CASE ComputeStart \/ AllSubmitted
  BY <1>8
  DEF IInv, Lacking, ReadyIsAtRest, TypeOK, Waiting, Gate, bufferVars,
    ComputeStart, Drawn, AllSubmitted
<1>9. CASE Requery
  BY <1>9
  DEF IInv, Lacking, Looked, ReadyIsAtRest, Query, bufferVars, Requery
<1>10. CASE \E l \in Layers : Submit(l)
  BY <1>10
  DEF IInv, Lacking, ReadyIsAtRest, Waiting, bufferVars, Submit
<1>11. CASE \E l \in Layers : DrawLayer(l)
  <2>1. PICK l \in Layers : DrawLayer(l)
    BY <1>11
  <2>2. threadstate' # "ready"
    BY <2>1 DEF IInv, ReadyIsAtRest, DrawLayer, bufferVars
  <2>3. CASE query[l].status = "pending"
    BY <2>1, <2>2, <2>3
    DEF IInv, Lacking, Looked, Waiting, DrawLayer, Gate, Query, bufferVars,
      queryVars
  <2>4. CASE query[l].status # "pending"
    <3>1. /\ used' = [used EXCEPT ![l] =
                        IF query[l].status = "ready" /\ drawbuf \in Query[l]
                        THEN DrawnFrom(l) ELSE NoResult]
          /\ todo' = todo \ {l} /\ dpc = "layers"
          /\ UNCHANGED <<kind, drawbuf, query>>
      BY <2>1, <2>4 DEF DrawLayer, bufferVars, queryVars
    <3>2. Looked(l)'
      <4>1. /\ query[l].status \in {"none", "ready", "failed"}
            /\ query[l].status = "ready" => DrawnFrom(l) # NoResult
        BY <2>4 DEF IInv, TypeOK, Results, NoResult, DrawnFrom
      <4>2. used'[l] = IF query[l].status = "ready" /\ drawbuf \in Query[l]
                       THEN DrawnFrom(l) ELSE NoResult
        BY <3>1 DEF IInv, TypeOK
      <4> QED BY <3>1, <4>1, <4>2 DEF Looked, Query
    <3>3. ASSUME NEW j \in Layers \ todo, j # l, Looked(j)
          PROVE  Looked(j)'
      <4>1. used'[j] = used[j]
        BY <3>1, <3>3 DEF IInv, TypeOK
      <4> QED BY <3>1, <3>3, <4>1 DEF Looked, Query
    <3> QED
      BY <2>2, <3>1, <3>2, <3>3 DEF IInv, Lacking, Waiting, Gate
  <2> QED BY <2>3, <2>4
<1>12. CASE LayerWakeUp \/ Dispatch
  BY <1>12
  DEF IInv, Lacking, Looked, Waiting, Gate, Query, bufferVars, queryVars,
    LayerWakeUp, Dispatch
<1>13. CASE DrawDone
  BY <1>13
  DEF IInv, Lacking, Looked, Waiting, Gate, Query, queryVars, DrawDone
<1>14. CASE \E l \in Layers : Finish(l)
  BY <1>14
  DEF IInv, Lacking, Looked, Gate, Query, bufferVars, threadVars, Finish
<1>15. CASE UNCHANGED <<dpc, todo, drawbuf, used, query, threadstate, kind>>
  BY <1>15
  DEF IInv, Lacking, Looked, Gate, Query
<1> QED
  BY <1>1, <1>2, <1>3, <1>4, <1>5, <1>6, <1>7, <1>8, <1>9, <1>10, <1>11,
    <1>12, <1>13, <1>14, <1>15
  DEF Next, Main, Draw, Worker, vars, bufferVars, queryVars, threadVars,
    mainVars, RedrawHidden, Edit, NoRestartDb, Join

(* Only a map that is hidden makes a pass nobody has spoilt leave out or   *)
(* break off a layer, or give up: to show it again spoils the pass.        *)
LEMMA NextWhole ==
    ASSUME IInv, [Next]_vars
    PROVE  Whole'
<1> USE ViewAssumption
<1>1. CASE \/ Redraw
           \/ \E v \in Views : SetView(v)
  <2>1. /\ UNCHANGED <<hidden, used>>
        /\ \E v \in Views : CheckRestart(v)
    BY <1>1 DEF IInv, TypeOK, SetView, Redraw
  <2>2. PICK v \in Views : CheckRestart(v)
    BY <2>1
  <2>3. CASE threadstate = "ready"
    <3>1. torn' = (\E l \in Layers : BrokenOff(l))
          /\ threadstate' \in {"idle", "restart"}
      BY <2>2, <2>3 DEF CheckRestart, TornAfter, RestartNolock
    <3>2. torn' => hidden
      BY <2>3, <3>1 DEF IInv, Whole, ReadyIsAtRest
    <3> QED BY <2>1, <3>1, <3>2 DEF Whole
  <2>4. CASE threadstate # "ready"
    <3>1. /\ torn' = torn
          /\ \/ UNCHANGED <<threadstate, dpc>>
             \/ threadstate' = "restart"
      BY <2>2, <2>4 DEF CheckRestart, TornAfter, RestartNolock
    <3> QED BY <2>1, <3>1 DEF IInv, Whole, BrokenOff
  <2> QED BY <2>3, <2>4
<1>2. CASE Paint
  BY <1>2 DEF IInv, Whole, ReadyIsAtRest, BrokenOff, TornAfter, threadVars,
    Paint
<1>3. CASE SetHidden
  BY <1>3 DEF IInv, TypeOK, Whole, BrokenOff, SetHidden, Woken
<1>4. CASE RestartDb
  BY <1>4 DEF IInv, Whole, BrokenOff, RestartDb, RestartNolock, Woken
<1>5. CASE \/ Terminate \/ SpuriousWakeup
           \/ \E l \in Layers : Call(l)
  BY <1>5 DEF IInv, Whole, BrokenOff, bufferVars, Terminate, SpuriousWakeup,
    Woken, Call
<1>6. CASE DrawWait
  BY <1>6 DEF IInv, Whole, BrokenOff, DrawWait
<1>7. CASE ResetDrawbuf
  BY <1>7 DEF IInv, Whole, BrokenOff, NoResult, ResetDrawbuf
<1>8. CASE \/ DecideDbquery \/ ComputeStart \/ Requery \/ AllSubmitted
           \/ LayerWakeUp \/ Dispatch
           \/ \E l \in Layers : Submit(l)
  BY <1>8 DEF IInv, Whole, BrokenOff, Aborted, bufferVars, DecideDbquery,
    ComputeStart, Requery, AllSubmitted, LayerWakeUp, Dispatch, Submit
<1>9. CASE \E l \in Layers : DrawLayer(l)
  <2>1. PICK l \in Layers : DrawLayer(l)
    BY <1>9
  <2>2. UNCHANGED <<hidden, threadstate, torn>> /\ dpc = "layers"
    BY <2>1 DEF DrawLayer, bufferVars
  <2>3. CASE query[l].status = "pending"
    BY <2>1, <2>2, <2>3 DEF IInv, Whole, BrokenOff, Aborted, DrawLayer
  <2>4. CASE query[l].status # "pending"
    <3>1. /\ dpc' = "layers"
          /\ \A j \in Layers : j # l => used'[j] = used[j]
          /\ used'[l] = NoResult
               \/ (query[l].status = "ready" /\ used'[l] = DrawnFrom(l))
      BY <2>1, <2>2, <2>4 DEF IInv, TypeOK, DrawLayer
    <3>2. threadstate \in {"busy", "ready"} /\ BrokenOff(l)' => hidden
      <4>1. ~Aborted /\ query[l].status = "ready"
              => DrawnFrom(l).status = "ready"
        BY DEF DrawnFrom
      <4>2. NoResult.status = "none"
        BY DEF NoResult
      <4> QED BY <3>1, <4>1, <4>2 DEF BrokenOff, Aborted
    <3> QED BY <2>2, <3>1, <3>2 DEF IInv, Whole, BrokenOff
  <2> QED BY <2>3, <2>4
<1>10. CASE DrawDone
  BY <1>10 DEF IInv, Whole, BrokenOff, DrawDone
<1>11. CASE UNCHANGED <<threadstate, dpc, used, hidden, torn>>
  BY <1>11 DEF IInv, Whole, BrokenOff
<1> QED
  BY <1>1, <1>2, <1>3, <1>4, <1>5, <1>6, <1>7, <1>8, <1>9, <1>10, <1>11
  DEF Next, Main, Draw, Worker, vars, bufferVars, queryVars, threadVars,
    mainVars, RedrawHidden, Edit, CancelEdited, NoRestartDb, Join, Destroy,
    Destroyed, Finish

(* Queries made while the destructor runs are those of lingering.          *)
LEMMA NextLeaving ==
    ASSUME IInv, [Next]_vars
    PROVE  Leaving'
<1> USE ViewAssumption
<1>1. CASE \/ SetHidden
           \/ \E v \in Views : SetView(v)
  BY <1>1
  DEF IInv, Leaving, SetView, CheckRestart, RestartNolock, DrawbufShows,
    Woken, SetHidden
<1>2. CASE Redraw \/ Paint
  BY <1>2
  DEF IInv, Leaving, Redraw, CheckRestart, RestartNolock, DrawbufShows,
    Woken, Paint
<1>3. CASE \/ NoRestartDb \/ Join
           \/ \E l \in Layers : Edit(l)
  BY <1>3
  DEF IInv, Leaving, Edit, NoRestartDb, Join
<1>4. CASE CancelEdited
  BY <1>4
  DEF IInv, Leaving, CancelEdited
<1>5. CASE RestartDb
  BY <1>5
  DEF IInv, Leaving, RestartDb, RestartNolock, Woken
<1>6. CASE Terminate
  BY <1>6
  DEF IInv, Leaving, queryVars, Terminate, Woken
<1>7. CASE Destroy
  BY <1>7
  DEF IInv, Leaving, Destroy
<1>8. CASE Destroyed
  BY <1>8
  DEF IInv, Leaving, Late, threadVars, Destroyed
<1>9. CASE \/ DrawWait \/ ResetDrawbuf \/ DecideDbquery \/ ComputeStart
           \/ AllSubmitted
           \/ \E l \in Layers : DrawLayer(l)
  BY <1>9
  DEF IInv, Leaving, queryVars, mainVars, DrawWait, ResetDrawbuf,
    DecideDbquery, ComputeStart, Drawn, AllSubmitted, DrawLayer
<1>10. CASE Requery
  BY <1>10
  DEF IInv, Leaving, mainVars, Requery
<1>11. CASE \E l \in Layers : Submit(l)
  BY <1>11
  DEF IInv, Leaving, mainVars, Submit
<1>12. CASE \/ LayerWakeUp \/ DrawDone \/ Dispatch \/ SpuriousWakeup
            \/ \E l \in Layers : Call(l)
  BY <1>12
  DEF IInv, Leaving, Late, queryVars, mainVars, LayerWakeUp, DrawDone,
    Dispatch, SpuriousWakeup, Woken, Call
<1>13. CASE \E l \in Layers : Finish(l)
  BY <1>13
  DEF IInv, Leaving, NoResult, Late, threadVars, mainVars, Finish
<1>14. CASE UNCHANGED <<mpc, query, lingering, dpc, kind>>
  BY <1>14
  DEF IInv, Leaving, Late
<1> QED
  BY <1>1, <1>2, <1>3, <1>4, <1>5, <1>6, <1>7, <1>8, <1>9, <1>10, <1>11,
    <1>12, <1>13, <1>14
  DEF Next, Main, Draw, Worker, vars, bufferVars, queryVars, threadVars,
    mainVars, RedrawHidden

(* The invariant holds at the start, and every step keeps each part.       *)
THEOREM DrawInvariant == Spec => []IInv
<1>1. Init => IInv
  <2> SUFFICES ASSUME Init PROVE IInv
    OBVIOUS
  <2>1. TypeOK
    <3>1. /\ NoResult \in Results
          /\ query \in [Layers -> Results] /\ used \in [Layers -> Sources]
      BY DEF Init, Results, Sources, NoResult
    <3> QED
      BY <3>1 DEF Init, TypeOK, AtRest
  <2>2. Pass /\ ReadyIsAtRest /\ Framed /\ Lacking /\ Leaving
    BY DEF Init, Pass, ReadyIsAtRest, Framed, Lacking, Leaving, Waiting
  <2>3. Recent /\ SameArea /\ Drawing /\ Whole
    BY DEF Init, Recent, SameArea, Drawing, Whole
  <2> QED BY <2>1, <2>2, <2>3 DEF IInv
<1>2. IInv /\ [Next]_vars => IInv'
  BY NextTypeOK, NextReadyIsAtRest, NextPass, NextRecent, NextSameArea,
    NextFramed, NextDrawing, NextLacking, NextWhole, NextLeaving DEF IInv
<1> QED BY <1>1, <1>2, PTL DEF Spec

(* No picture is taken for the screen, or its buffer reset by the main     *)
(* thread, while it is being drawn.                                        *)
THEOREM DrawReadyIsAtRest == Spec => []ReadyIsAtRest
<1>1. IInv => ReadyIsAtRest
  BY DEF IInv
<1> QED BY <1>1, DrawInvariant, PTL

(* A picture that is ready has been drawn from results that cover its view *)
(* and hold every notified change, the case of an overview excepted.       *)
THEOREM DrawReadyIsSound == Spec => []ReadyIsSound
<1>1. IInv => ReadyIsSound
  BY DEF IInv, Drawing, ReadyIsAtRest, ReadyIsSound
<1> QED BY <1>1, DrawInvariant, PTL

(* Where overlays are drawn in every view, a layer is missing from a       *)
(* picture only if its query failed or was cancelled; in any view it is    *)
(* broken off only if the map is hidden, and then not for good.            *)
THEOREM DrawReadyIsComplete == Spec => [](Gate = Views => ReadyIsComplete)
<1>1. IInv => (Gate = Views => ReadyIsComplete)
  BY DEF IInv, Lacking, Looked, Whole, ReadyIsAtRest, ReadyIsComplete
<1> QED BY <1>1, DrawInvariant, PTL

(* The destructor leaves behind only queries made after its cancel.        *)
THEOREM DrawOrphansAreLate == Spec => []OrphansAreLate
<1>1. IInv => OrphansAreLate
  BY DEF IInv, Leaving, OrphansAreLate
<1> QED BY <1>1, DrawInvariant, PTL

===============================================================================
