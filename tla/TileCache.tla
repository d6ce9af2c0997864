----------------------------- MODULE TileCache -----------------------------
(***************************************************************************)
(* VectorMapRenderer::DrawThreadTMS and its TileCache: maps put together   *)
(* from tiles that are files on the disk.  The draw thread takes the tiles *)
(* that are there and queues the others; the main thread, in callbacks of  *)
(* its main loop, fetches one at a time over HTTP and has the map drawn    *)
(* again when the queue has become empty.                                  *)
(*                                                                         *)
(* m_queue is under m_mutex, m_msg and the files are not: m_msg belongs to *)
(* the main thread, but clear_queue(), in the draw thread, looks at it.    *)
(* The tile being fetched is not kept anywhere; download_complete() takes  *)
(* it to be the front of m_queue.  A file is there for the draw thread     *)
(* from the moment it is created, written or not.                          *)
(*                                                                         *)
(* An action is a stretch of code under m_mutex, or one between two        *)
(* accesses to what the other thread changes.  Nobody catches what the     *)
(* functions that deal with files throw, and the program ends: died says   *)
(* of what, and the other variables keep what they had.  What DrawThread   *)
(* does around compute_pixmap() is in module DrawThread, and only a wish   *)
(* to draw here.                                                           *)
(***************************************************************************)
EXTENDS Naturals, Sequences, FiniteSets

CONSTANTS
    Tiles,          \* TileIndex
    NoTile,         \* no tile; no file
    Empty,          \* what is in a file that was created but not written
    Partial,        \* what is in one that was written in part
    Views,
    TilesOf,        \* TilesOf[v]: the tiles of the view v, row by row
    Shared,         \* the tiles that the cache of another map may fetch too
    Leftovers,      \* those an earlier run may have died writing
    MaxChanges      \* changes of the view (bound)

ASSUME TileAssumption ==
    /\ NoTile \notin Tiles
    /\ Empty \notin Tiles
    /\ Partial \notin Tiles
    /\ Empty # NoTile
    /\ Partial \notin {NoTile, Empty}
    /\ TilesOf \in [Views -> Seq(Tiles)]
    /\ Shared \subseteq Tiles
    /\ Leftovers \subseteq Tiles
    /\ MaxChanges \in Nat

VARIABLES
    queue,          \* m_queue, a std::vector
    slot,           \* what is at the start of the storage of that vector
    failed,         \* m_failed
    dispatched,     \* m_dispatched
    pending,        \* m_dispatch() was called, runqueue() has to run
    msg,            \* m_msg: the tile its URI asks for
    inflight,       \* the message is with libsoup
    file,           \* what the file of a tile holds
    other,          \* the tile the other cache is storing
    mpc,            \* where the main thread is
    idx,            \* its local variable, where there is one
    view,           \* the view wanted
    changes,
    restart,        \* threadstate_restart
    dpc,            \* where the draw thread is
    drawing,        \* the view it draws
    todo,           \* the tiles of it not yet looked at
    want,           \* the tile get_pixbuf() was called with
    got,            \* the tiles drawn in this pass
    picture,        \* the last picture finished
    died,           \* what ended the program
    gap,            \* history: see ClearQueue
    silent,         \* history: a file has come, or will, and nobody is told
    foreign         \* history: tiles the other cache has begun to store

queueVars == <<queue, slot, failed, dispatched>>
soupVars == <<msg, inflight>>
diskVars == <<file, other, foreign>>
mainVars == <<mpc, idx, view, changes>>
drawVars == <<dpc, drawing, todo, want, got, picture>>
vars == <<queueVars, pending, soupVars, diskVars, mainVars, restart,
          drawVars, died, gap, silent>>

Contents == Tiles \cup {NoTile, Empty, Partial}

TypeOK ==
    /\ queue \in Seq(Tiles)
    /\ slot \in Tiles \cup {NoTile}
    /\ failed \in SUBSET Tiles
    /\ dispatched \in BOOLEAN
    /\ pending \in BOOLEAN
    /\ msg \in Tiles \cup {NoTile}
    /\ inflight \in BOOLEAN
    /\ file \in [Tiles -> Contents]
    /\ other \in Tiles \cup {NoTile}
    /\ mpc \in {"idle", "take", "look", "skip", "create", "write", "remove",
                "fail", "signal", "free"}
    /\ idx \in Tiles \cup {NoTile}
    /\ view \in Views
    /\ changes \in 0..MaxChanges
    /\ restart \in BOOLEAN
    /\ dpc \in {"idle", "begin", "again", "tiles", "info", "load", "queue",
                "dispatch", "changed"}
    /\ drawing \in Views
    /\ todo \in Seq(Tiles)
    /\ want \in Tiles \cup {NoTile}
    /\ got \in SUBSET Tiles
    /\ picture \in [view: Views, tiles: SUBSET Tiles]
    /\ died \in {"no", "erase", "exists", "read", "io"}
    /\ gap \in BOOLEAN
    /\ silent \in BOOLEAN
    /\ foreign \in SUBSET Tiles
    /\ mpc \in {"look", "skip", "create", "write", "remove", "fail"}
         => idx # NoTile
    /\ dpc \in {"queue", "info", "load"} => want # NoTile
    /\ queue # <<>> => slot = Head(queue)

(* Tiles fetched in an earlier run of the program are there already, the   *)
(* one it was writing when it was killed perhaps not all of it.            *)
Init ==
    /\ queue = <<>>
    /\ slot = NoTile
    /\ failed = {}
    /\ dispatched = FALSE
    /\ pending = FALSE
    /\ msg = NoTile
    /\ inflight = FALSE
    /\ file \in {f \in [Tiles -> Contents] : \A t \in Tiles :
                   \/ f[t] \in {NoTile, t}
                   \/ t \in Leftovers /\ f[t] \in {Empty, Partial}}
    /\ other = NoTile
    /\ mpc = "idle"
    /\ idx = NoTile
    /\ view \in Views
    /\ changes = 0
    /\ restart = TRUE
    /\ dpc = "idle"
    /\ drawing = view
    /\ todo = <<>>
    /\ want = NoTile
    /\ got = {}
    /\ picture = [view |-> view, tiles |-> {}]
    /\ died = "no"
    /\ gap = FALSE
    /\ silent = FALSE
    /\ foreign = {}

-----------------------------------------------------------------------------
(* m_queue *)

(* A vector that becomes empty leaves its storage as it was.               *)
SetQueue(q) ==
    /\ queue' = q
    /\ slot' = IF q = <<>> THEN slot ELSE Head(q)

(* TileCache::exists() *)
Exists(t) == file[t] # NoTile

(* tile_queue_changed() *)
TileQueueChanged == restart' = (restart \/ queue = <<>>)

-----------------------------------------------------------------------------
(* Plausible mistakes, for the checks to notice; the specification does    *)
(* not use this section.                                                   *)

(* a tile that is wanted is put in front *)
Push_Front ==
    /\ dpc = "queue"
    /\ IF want \in failed
       THEN UNCHANGED <<queue, slot, dispatched>> /\ dpc' = "tiles"
       ELSE /\ SetQueue(<<want>> \o queue)
            /\ dispatched' = TRUE
            /\ dpc' = IF dispatched THEN "changed" ELSE "dispatch"
    /\ UNCHANGED <<failed, pending, soupVars, diskVars, mainVars, restart,
                   drawing, todo, want, got, picture, died, gap, silent>>

(* a file written in part is deleted, but not noted in m_failed *)
Fail_Forgets ==
    /\ mpc = "fail"
    /\ mpc' = "signal"
    /\ UNCHANGED <<queueVars, pending, soupVars, diskVars, idx, view,
                   changes, restart, drawVars, died, gap, silent>>

(* runqueue() leaves m_dispatched alone *)
Take_KeepsDispatched ==
    /\ mpc = "take"
    /\ IF queue = <<>>
       THEN mpc' = "idle" /\ UNCHANGED <<queue, slot, idx, silent>>
       ELSE IF Head(queue) \in failed
            THEN /\ SetQueue(Tail(queue))
                 /\ silent' = (Tail(queue) = <<>>)
                 /\ UNCHANGED <<idx, mpc>>
            ELSE /\ idx' = Head(queue)
                 /\ mpc' = "look"
                 /\ UNCHANGED <<queue, slot, silent>>
    /\ UNCHANGED <<failed, dispatched, pending, soupVars, diskVars, view,
                   changes, restart, drawVars, died, gap>>

(* a download that has ended is only told while others wait *)
Signal_WhileWaiting ==
    /\ mpc = "signal"
    /\ restart' = (restart \/ queue # <<>>)
    /\ mpc' = "free"
    /\ UNCHANGED <<queueVars, pending, soupVars, diskVars, idx, view,
                   changes, drawVars, died, gap, silent>>

-----------------------------------------------------------------------------
(* The draw thread: DrawThreadTMS::compute_pixmap(). *)

StartPass ==
    /\ dpc = "idle"
    /\ restart
    /\ restart' = FALSE
    /\ drawing' = view
    /\ todo' = TilesOf[view]
    /\ got' = {}
    /\ silent' = FALSE
    /\ dpc' = "begin"
    /\ UNCHANGED <<queueVars, pending, soupVars, diskVars, mainVars, want,
                   picture, died, gap>>

(* clear_queue().  With a message under way and nothing in the queue it    *)
(* erases from behind the end of the vector up to its end, which makes the *)
(* vector one element long again.  The main thread may be in runqueue(),   *)
(* with the front in its hand and m_msg not yet set: then the queue loses  *)
(* the tile that is about to be fetched (gap).                             *)
ClearQueue ==
    IF msg = NoTile
    THEN /\ SetQueue(<<>>)
         /\ gap' = (gap \/ mpc \in {"look", "skip"})
    ELSE /\ SetQueue(IF queue = <<>> THEN <<slot>> ELSE <<Head(queue)>>)
         /\ UNCHANGED gap

(* It is called twice, before and after the database is queried.           *)
Clear ==
    /\ \/ dpc = "begin" /\ dpc' = "again"
       \/ dpc = "again" /\ dpc' = "tiles"
    /\ ClearQueue
    /\ UNCHANGED <<failed, dispatched, pending, soupVars, diskVars, mainVars,
                   restart, drawing, todo, want, got, picture, died, silent>>

(* get_pixbuf() asks whether there is a file, ...                          *)
GetPixbuf ==
    /\ dpc = "tiles"
    /\ todo # <<>>
    /\ todo' = Tail(todo)
    /\ want' = Head(todo)
    /\ dpc' = IF Exists(Head(todo)) THEN "info" ELSE "queue"
    /\ UNCHANGED <<queueVars, pending, soupVars, diskVars, mainVars, restart,
                   drawing, got, picture, died, gap, silent>>

(* ... then for its size (and neither draws nor queues it when it is       *)
(* empty), ...                                                             *)
QueryInfo ==
    /\ dpc = "info"
    /\ CASE file[want] = NoTile ->
              died' = "read" /\ UNCHANGED <<dpc, want, silent>>
         [] file[want] = Empty ->
              /\ dpc' = "tiles"
              /\ want' = NoTile
              /\ silent' = (silent \/ want \in foreign)
              /\ UNCHANGED died
         [] OTHER -> dpc' = "load" /\ UNCHANGED <<died, want, silent>>
    /\ UNCHANGED <<queueVars, pending, soupVars, diskVars, mainVars, restart,
                   drawing, todo, got, picture, gap>>

(* ... and then reads it.  What is there in part only is not a picture.    *)
Load ==
    /\ dpc = "load"
    /\ IF file[want] \in Tiles
       THEN /\ got' = got \cup {want}
            /\ want' = NoTile
            /\ dpc' = "tiles"
            /\ UNCHANGED died
       ELSE died' = "read" /\ UNCHANGED <<got, want, dpc>>
    /\ UNCHANGED <<queueVars, pending, soupVars, diskVars, mainVars, restart,
                   drawing, todo, picture, gap, silent>>

(* Either may fail for a reason that has nothing to do with the tile.      *)
ReadError ==
    /\ dpc \in {"info", "load"}
    /\ died' = "io"
    /\ UNCHANGED <<queueVars, pending, soupVars, diskVars, mainVars, restart,
                   drawVars, gap, silent>>

(* queue(), under m_mutex, ... *)
Push ==
    /\ dpc = "queue"
    /\ IF want \in failed
       THEN UNCHANGED <<queue, slot, dispatched>> /\ dpc' = "tiles"
       ELSE /\ SetQueue(Append(queue, want))
            /\ dispatched' = TRUE
            /\ dpc' = IF dispatched THEN "changed" ELSE "dispatch"
    /\ want' = NoTile
    /\ UNCHANGED <<failed, pending, soupVars, diskVars, mainVars, restart,
                   drawing, todo, got, picture, died, gap, silent>>

(* ... m_dispatch() and m_queuechange() *)
Dispatch ==
    /\ dpc = "dispatch"
    /\ pending' = TRUE
    /\ dpc' = "changed"
    /\ UNCHANGED <<queueVars, soupVars, diskVars, mainVars, restart, drawing,
                   todo, want, got, picture, died, gap, silent>>

Changed ==
    /\ dpc = "changed"
    /\ TileQueueChanged
    /\ dpc' = "tiles"
    /\ UNCHANGED <<queueVars, pending, soupVars, diskVars, mainVars, drawing,
                   todo, want, got, picture, died, gap, silent>>

(* The layers above the tiles are not drawn, and the picture is thrown     *)
(* away, when the map has to be drawn again.                               *)
Finish ==
    /\ dpc = "tiles"
    /\ todo = <<>>
    /\ dpc' = "idle"
    /\ picture' = IF restart THEN picture
                  ELSE [view |-> drawing, tiles |-> got]
    /\ got' = {}
    /\ UNCHANGED <<queueVars, pending, soupVars, diskVars, mainVars, restart,
                   drawing, todo, want, died, gap, silent>>

-----------------------------------------------------------------------------
(* The main thread. *)

SetView(v) ==
    /\ mpc = "idle"
    /\ v # view
    /\ changes < MaxChanges
    /\ changes' = changes + 1
    /\ view' = v
    /\ restart' = TRUE
    /\ UNCHANGED <<queueVars, pending, soupVars, diskVars, mpc, idx,
                   drawVars, died, gap, silent>>

(* The Dispatcher calls runqueue(), which leaves m_dispatched set when a   *)
(* download is going on.                                                   *)
RunQueue ==
    /\ mpc = "idle"
    /\ pending
    /\ pending' = FALSE
    /\ mpc' = IF msg # NoTile THEN "idle" ELSE "take"
    /\ UNCHANGED <<queueVars, soupVars, diskVars, idx, view, changes,
                   restart, drawVars, died, gap, silent>>

(* The loop of runqueue(): under m_mutex, ...                              *)
Take ==
    /\ mpc = "take"
    /\ dispatched' = FALSE
    /\ IF queue = <<>>
       THEN mpc' = "idle" /\ UNCHANGED <<queue, slot, idx, silent>>
       ELSE IF Head(queue) \in failed
            THEN /\ SetQueue(Tail(queue))
                 /\ silent' = (Tail(queue) = <<>>)
                 /\ UNCHANGED <<idx, mpc>>
            ELSE /\ idx' = Head(queue)
                 /\ mpc' = "look"
                 /\ UNCHANGED <<queue, slot, silent>>
    /\ UNCHANGED <<failed, pending, soupVars, diskVars, view, changes,
                   restart, drawVars, died, gap>>

(* ... without it, ... *)
Look ==
    /\ mpc = "look"
    /\ IF Exists(idx)
       THEN mpc' = "skip" /\ UNCHANGED <<soupVars, idx>>
       ELSE /\ msg' = idx
            /\ inflight' = TRUE
            /\ idx' = NoTile
            /\ mpc' = "idle"
    /\ UNCHANGED <<queueVars, pending, diskVars, view, changes, restart,
                   drawVars, died, gap, silent>>

(* ... and under it again.  To erase the first element of an empty vector  *)
(* moves nearly all of the memory.                                         *)
Skip ==
    /\ mpc = "skip"
    /\ IF queue = <<>>
       THEN died' = "erase" /\ UNCHANGED <<queue, slot, mpc, idx, silent>>
       ELSE /\ SetQueue(Tail(queue))
            /\ silent' = (Tail(queue) = <<>>)
            /\ idx' = NoTile
            /\ mpc' = "take"
            /\ UNCHANGED died
    /\ UNCHANGED <<failed, dispatched, pending, soupVars, diskVars, view,
                   changes, restart, drawVars, gap>>

(* download_complete() with a status that means success.  With an empty    *)
(* queue it returns, and m_msg stays what it was.  (A status that is not   *)
(* final makes libsoup send the message again, which is no step here; that *)
(* the server gives a final one at last is assumed.)                       *)
Fetched ==
    /\ mpc = "idle"
    /\ inflight
    /\ inflight' = FALSE
    /\ IF queue = <<>>
       THEN UNCHANGED <<queue, slot, idx, mpc>>
       ELSE /\ idx' = Head(queue)
            /\ SetQueue(Tail(queue))
            /\ mpc' = "create"
    /\ UNCHANGED <<failed, dispatched, pending, msg, diskVars, view, changes,
                   restart, drawVars, died, gap, silent>>

(* create_file() throws when the file is there, and when it cannot be      *)
(* made: that mkdir() has failed is not noticed before.                    *)
Create ==
    /\ mpc = "create"
    /\ IF Exists(idx)
       THEN died' = "exists" /\ UNCHANGED <<file, mpc>>
       ELSE \/ /\ file' = [file EXCEPT ![idx] = Empty]
               /\ mpc' = "write"
               /\ UNCHANGED died
            \/ died' = "io" /\ UNCHANGED <<file, mpc>>
    /\ UNCHANGED <<queueVars, pending, soupVars, other, foreign, idx, view,
                   changes, restart, drawVars, gap, silent>>

(* write(), which takes its time, ... *)
WriteSome ==
    /\ mpc = "write"
    /\ file[idx] = Empty
    /\ file' = [file EXCEPT ![idx] = Partial]
    /\ UNCHANGED <<queueVars, pending, soupVars, other, foreign, mainVars,
                   restart, drawVars, died, gap, silent>>

(* ... writes the body, all of it (and there may be nothing in it) or too  *)
(* little of it, or throws.                                                *)
Write ==
    /\ mpc = "write"
    /\ \/ /\ file' = [file EXCEPT ![idx] = msg]
          /\ mpc' = "signal"
          /\ UNCHANGED died
       \/ file[idx] = Empty /\ mpc' = "signal" /\ UNCHANGED <<file, died>>
       \/ file[idx] = Partial /\ mpc' = "remove" /\ UNCHANGED <<file, died>>
       \/ died' = "io" /\ UNCHANGED <<file, mpc>>
    /\ UNCHANGED <<queueVars, pending, soupVars, other, foreign, idx, view,
                   changes, restart, drawVars, gap, silent>>

(* What was written in part is deleted, ... *)
Remove ==
    /\ mpc = "remove"
    /\ \/ /\ file' = [file EXCEPT ![idx] = NoTile]
          /\ mpc' = "fail"
          /\ UNCHANGED died
       \/ died' = "io" /\ UNCHANGED <<file, mpc>>
    /\ UNCHANGED <<queueVars, pending, soupVars, other, foreign, idx, view,
                   changes, restart, drawVars, gap, silent>>

(* ... and its tile noted, under m_mutex. *)
Fail ==
    /\ mpc = "fail"
    /\ failed' = failed \cup {idx}
    /\ mpc' = "signal"
    /\ UNCHANGED <<queue, slot, dispatched, pending, soupVars, diskVars, idx,
                   view, changes, restart, drawVars, died, gap, silent>>

(* download_complete() with "not found" or "forbidden" *)
Refused ==
    /\ mpc = "idle"
    /\ inflight
    /\ inflight' = FALSE
    /\ IF queue = <<>>
       THEN UNCHANGED <<queue, slot, failed, mpc>>
       ELSE /\ SetQueue(Tail(queue))
            /\ failed' = failed \cup {Head(queue)}
            /\ mpc' = "signal"
    /\ UNCHANGED <<dispatched, pending, msg, diskVars, idx, view, changes,
                   restart, drawVars, died, gap, silent>>

Signal ==
    /\ mpc = "signal"
    /\ TileQueueChanged
    /\ mpc' = "free"
    /\ UNCHANGED <<queueVars, pending, soupVars, diskVars, idx, view,
                   changes, drawVars, died, gap, silent>>

(* m_msg = 0; runqueue(); *)
Free ==
    /\ mpc = "free"
    /\ msg' = NoTile
    /\ idx' = NoTile
    /\ mpc' = "take"
    /\ UNCHANGED <<queueVars, pending, inflight, diskVars, view, changes,
                   restart, drawVars, died, gap, silent>>

-----------------------------------------------------------------------------
(* Another map or the MapTileDownloaderDialog has a TileCache of its own,  *)
(* over the same directory, in this program or in another one.             *)
OtherCreates(t) ==
    /\ t \in Shared \ foreign
    /\ other = NoTile
    /\ ~Exists(t)
    /\ file' = [file EXCEPT ![t] = Empty]
    /\ other' = t
    /\ foreign' = foreign \cup {t}
    /\ UNCHANGED <<queueVars, pending, soupVars, mainVars, restart, drawVars,
                   died, gap, silent>>

OtherWrites ==
    /\ other # NoTile
    /\ \/ /\ file[other] = Empty
          /\ file' = [file EXCEPT ![other] = Partial]
          /\ UNCHANGED other
       \/ /\ \E c \in {other, NoTile} : file' = [file EXCEPT ![other] = c]
          /\ other' = NoTile
    /\ UNCHANGED <<queueVars, pending, soupVars, foreign, mainVars, restart,
                   drawVars, died, gap, silent>>

Draw ==
    /\ died = "no"
    /\ \/ StartPass \/ Clear \/ GetPixbuf \/ QueryInfo \/ Load \/ Push
       \/ Dispatch \/ Changed \/ Finish

Answered ==
    /\ died = "no"
    /\ Fetched \/ Refused

MainLoop ==
    /\ died = "no"
    /\ \/ RunQueue \/ Take \/ Look \/ Skip \/ Create \/ WriteSome \/ Write
       \/ Remove \/ Fail \/ Signal \/ Free

Others ==
    /\ died = "no"
    /\ \/ ReadError
       \/ OtherWrites
       \/ \E v \in Views : SetView(v)
       \/ \E t \in Tiles : OtherCreates(t)

Next == Draw \/ Answered \/ MainLoop \/ Others

(* Both threads go on; the server ends every request at last.              *)
Spec == Init /\ [][Next]_vars
FairSpec ==
    /\ Spec
    /\ WF_vars(Draw)
    /\ WF_vars(MainLoop)
    /\ WF_vars(Answered)

-----------------------------------------------------------------------------
(* download_complete() finds the tile that was asked for at the front of   *)
(* m_queue, whatever the draw thread does to the queue meanwhile, unless   *)
(* clear_queue() has hit runqueue() between its two looks at the queue     *)
(* and m_msg.                                                              *)
RequestAtFront ==
    gap \/ (inflight => queue # <<>> /\ Head(queue) = msg)

(* The file of a tile never holds the picture of another one, on the same  *)
(* condition: a wrong file stays, as a tile that is there is never fetched *)
(* again.                                                                  *)
OwnPictures ==
    gap \/ \A t \in Tiles : file[t] \in {NoTile, Empty, Partial, t}

(* The file of t has been deleted, or is or was in other hands; or it is   *)
(* being written, or about to be deleted.                                  *)
Spoilt(t) == t \in failed \cup foreign \cup Leftovers
Unsteady(t) ==
    \/ mpc \in {"write", "remove", "fail"} /\ idx = t
    \/ Spoilt(t)

(* Errors of the disk apart, the program ends for these reasons only: an   *)
(* erase() from an empty vector, or a create_file() that finds the file    *)
(* there, after that clear_queue(); such a create_file() also when another *)
(* cache was faster; and a query_info() or a create_from_file() of a file  *)
(* somebody is writing, has deleted or has left unfinished.  The last one  *)
(* takes no fault at all: the draw thread has only to look while the main  *)
(* thread writes.                                                          *)
CrashExplained ==
    /\ died = "erase" => gap
    /\ died = "exists" => gap \/ idx \in foreign
    /\ died = "read" => Unsteady(want)

(* When the view is left alone the downloads come to an end, and none is   *)
(* left in the queue; m_msg is free for the next one.                      *)
Drains ==
    <>[](gap \/ died # "no" \/ (queue = <<>> /\ msg = NoTile))

(* ... and what was fetched is on the picture, unless the last tile left   *)
(* the queue without anyone being told: runqueue() drops a tile that was   *)
(* queued twice or has failed, and does not call m_queuechange(); or the   *)
(* file of another cache was found before that had written it.  A tile     *)
(* whose file is and stays empty is never drawn.                           *)
Fresh ==
    /\ picture.view = view
    /\ \A i \in DOMAIN TilesOf[view] : LET t == TilesOf[view][i] IN
         t \in picture.tiles \cup failed \/ file[t] = Empty
Refreshed ==
    <>[](gap \/ died # "no" \/ silent \/ Fresh)

-----------------------------------------------------------------------------
(* Why the safety properties hold; proved in TileCacheProofs.              *)

(* m_msg is set while a request is under way and while its answer is       *)
(* dealt with, and free in runqueue(); by then a tile has been queued.     *)
MsgInv ==
    /\ msg # NoTile \/ mpc \in {"look", "skip"} => slot # NoTile
    /\ inflight => msg # NoTile
    /\ mpc \in {"take", "look", "skip"} => msg = NoTile
    /\ mpc \in {"create", "write", "remove", "fail", "signal", "free"}
         => ~inflight
    /\ mpc \in {"create", "write"} => msg # NoTile

(* The main thread's tile is the front of the queue, later the one of      *)
(* m_msg, and only a tile without a file is asked for.                     *)
FrontInv ==
    /\ mpc \in {"look", "skip"} => queue # <<>> /\ Head(queue) = idx
    /\ mpc \in {"create", "write"} => idx = msg
    /\ inflight \/ mpc = "create" => file[msg] = NoTile \/ msg \in foreign

(* Half a picture is in unsteady files only, and a file the draw thread    *)
(* has seen to be there, and not to be empty, is so until such a one goes. *)
FileInv ==
    /\ other # NoTile => other \in foreign
    /\ \A t \in Tiles : file[t] = Partial => Unsteady(t)
    /\ dpc = "info" => file[want] # NoTile \/ Unsteady(want)
    /\ dpc = "load" => file[want] \in Tiles \/ Unsteady(want)
    /\ dpc = "load" => file[want] # Empty \/ Spoilt(want)

IInv ==
    /\ TypeOK
    /\ MsgInv
    /\ RequestAtFront
    /\ OwnPictures
    /\ CrashExplained
    /\ FileInv
    /\ gap \/ FrontInv

=============================================================================
