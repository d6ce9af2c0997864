-------------------------- MODULE TileCacheProofs --------------------------
(***************************************************************************)
(* The safety of TileCache, for any set of tiles and views.  The inductive *)
(* invariant is IInv of TileCache: besides the properties it says when     *)
(* m_msg is set (MsgInv), that, as long as clear_queue() has not hit       *)
(* runqueue() in the middle, the front of m_queue is the tile the main     *)
(* thread is dealing with (FrontInv), and what the draw thread may find in *)
(* a file it has seen to be there (FileInv).                               *)
(***************************************************************************)
EXTENDS TileCache, TLAPS

(* The queue stays a sequence of tiles whose first element is at the start *)
(* of the storage, and a storage once used is never without an element.    *)
LEMMA SetQueueFacts ==
    ASSUME TypeOK, NEW q \in Seq(Tiles), SetQueue(q)
    PROVE  /\ queue' = q
           /\ queue' \in Seq(Tiles)
           /\ slot' \in Tiles \cup {NoTile}
           /\ queue' # <<>> => slot' = Head(queue')
           /\ slot # NoTile => slot' # NoTile
<1>1. q # <<>> => Head(q) \in Tiles
  OBVIOUS
<1> QED
  BY <1>1, TileAssumption DEF SetQueue, TypeOK

(* What taking the front off a queue that is not empty leaves.             *)
LEMMA FrontFacts ==
    ASSUME TypeOK, queue # <<>>
    PROVE  /\ Head(queue) \in Tiles
           /\ Tail(queue) \in Seq(Tiles)
  BY DEF TypeOK

(* clear_queue() keeps the front while a request is under way.             *)
LEMMA ClearFacts ==
    ASSUME TypeOK, MsgInv, ClearQueue
    PROVE  /\ queue' \in Seq(Tiles)
           /\ slot' \in Tiles \cup {NoTile}
           /\ queue' # <<>> => slot' = Head(queue')
           /\ slot # NoTile => slot' # NoTile
           /\ gap' \in BOOLEAN
           /\ gap => gap'
           /\ msg # NoTile /\ queue # <<>> =>
                 queue' # <<>> /\ Head(queue') = Head(queue)
           /\ msg = NoTile /\ mpc \in {"look", "skip"} => gap'
<1>1. CASE msg = NoTile
  <2>1. SetQueue(<<>>) /\ <<>> \in Seq(Tiles)
    BY <1>1 DEF ClearQueue
  <2> QED
    BY <1>1, <2>1, SetQueueFacts DEF ClearQueue, TypeOK
<1>2. CASE msg # NoTile
  <2>1. slot \in Tiles
    BY <1>2 DEF TypeOK, MsgInv
  <2> DEFINE q == IF queue = <<>> THEN <<slot>> ELSE <<Head(queue)>>
  <2>2. q \in Seq(Tiles) /\ SetQueue(q)
    BY <1>2, <2>1, FrontFacts DEF ClearQueue
  <2>3. queue # <<>> => q # <<>> /\ Head(q) = Head(queue)
    BY FrontFacts
  <2> HIDE DEF q
  <2> QED
    BY <1>2, <2>2, <2>3, SetQueueFacts DEF ClearQueue, TypeOK
<1> QED
  BY <1>1, <1>2

-----------------------------------------------------------------------------
LEMMA InvInit == Init => IInv
<1> SUFFICES ASSUME Init PROVE IInv
  OBVIOUS
<1>1. TypeOK
  <2>1. file \in [Tiles -> Contents]
    BY DEF Init
  <2>2. queue \in Seq(Tiles) /\ (queue # <<>> => slot = Head(queue))
    BY DEF Init
  <2>3. picture \in [view: Views, tiles: SUBSET Tiles]
    BY DEF Init
  <2>4. /\ changes \in 0..MaxChanges
        /\ view \in Views
        /\ drawing \in Views
    BY TileAssumption DEF Init
  <2>5. /\ slot \in Tiles \cup {NoTile}
        /\ failed \in SUBSET Tiles
        /\ msg \in Tiles \cup {NoTile}
        /\ idx \in Tiles \cup {NoTile}
        /\ want \in Tiles \cup {NoTile}
        /\ todo \in Seq(Tiles)
        /\ got \in SUBSET Tiles
        /\ foreign \in SUBSET Tiles
        /\ other \in Tiles \cup {NoTile}
    BY DEF Init
  <2>6. /\ mpc = "idle" /\ dpc = "idle" /\ died = "no"
        /\ dispatched \in BOOLEAN /\ pending \in BOOLEAN
        /\ inflight \in BOOLEAN /\ restart \in BOOLEAN
        /\ gap \in BOOLEAN /\ silent \in BOOLEAN
    BY DEF Init
  <2> QED
    BY <2>1, <2>2, <2>3, <2>4, <2>5, <2>6 DEF TypeOK
<1>2. \A t \in Tiles : file[t] \in {NoTile, Empty, Partial, t}
  BY DEF Init
<1>3. FileInv
  BY TileAssumption DEF Init, FileInv, Unsteady, Spoilt
<1> QED
  BY <1>1, <1>2, <1>3
  DEF Init, IInv, MsgInv, RequestAtFront, OwnPictures, CrashExplained,
      FrontInv

LEMMA InvNext == IInv /\ [Next]_vars => IInv'
<1> USE TileAssumption
    DEF vars, queueVars, soupVars, diskVars, mainVars, drawVars, Contents
<1> SUFFICES ASSUME IInv, [Next]_vars PROVE IInv'
  OBVIOUS
<1> USE DEF IInv
<1>1. ASSUME died = "no", StartPass PROVE IInv'
  <2>1. TypeOK'
    <3>1. /\ queue' \in Seq(Tiles)
          /\ slot' \in Tiles \cup {NoTile}
          /\ queue' # <<>> => slot' = Head(queue')
      BY <1>1 DEF StartPass, TypeOK, MsgInv
    <3>2. /\ failed' \in SUBSET Tiles
          /\ (dispatched \in BOOLEAN /\ pending \in BOOLEAN)'
          /\ msg' \in Tiles \cup {NoTile}
          /\ inflight' \in BOOLEAN
      BY <1>1 DEF StartPass, TypeOK, MsgInv
    <3>3. /\ idx' \in Tiles \cup {NoTile}
          /\ mpc' \in {"idle", "take", "look", "skip", "create", "write",
                       "remove", "fail", "signal", "free"}
          /\ mpc' \in {"look", "skip", "create", "write", "remove", "fail"}
               => idx' # NoTile
          /\ view' \in Views
          /\ changes' \in 0..MaxChanges
      BY <1>1 DEF StartPass, TypeOK, MsgInv
    <3>4. /\ file' \in [Tiles -> Contents]
          /\ other' \in Tiles \cup {NoTile}
          /\ foreign' \in SUBSET Tiles
          /\ died' \in {"no", "erase", "exists", "read", "io"}
          /\ gap' \in BOOLEAN
          /\ silent' \in BOOLEAN
          /\ restart' \in BOOLEAN
      BY <1>1 DEF StartPass, TypeOK, MsgInv
    <3>5. /\ dpc' \in {"idle", "begin", "again", "tiles", "info", "load",
                       "queue", "dispatch", "changed"}
          /\ drawing' \in Views
          /\ todo' \in Seq(Tiles)
          /\ want' \in Tiles \cup {NoTile}
          /\ got' \in SUBSET Tiles
          /\ picture' \in [view: Views, tiles: SUBSET Tiles]
          /\ dpc' \in {"queue", "info", "load"} => want' # NoTile
      BY <1>1 DEF StartPass, TypeOK, MsgInv
    <3> QED
      BY <3>1, <3>2, <3>3, <3>4, <3>5 DEF TypeOK
  <2>2. MsgInv'
    BY <1>1 DEF StartPass, MsgInv, TypeOK
  <2>3. (RequestAtFront /\ (gap \/ FrontInv))'
    BY <1>1 DEF StartPass, MsgInv, RequestAtFront, FrontInv, TypeOK
  <2>4. OwnPictures'
    BY <1>1 DEF StartPass, OwnPictures, MsgInv, FrontInv, TypeOK
  <2>5. CrashExplained'
    BY <1>1
    DEF StartPass, CrashExplained, MsgInv, FrontInv, FileInv, Unsteady, Spoilt,
        TypeOK
  <2>6. FileInv'
    BY <1>1 DEF StartPass, FileInv, Unsteady, Spoilt, MsgInv, TypeOK
  <2> QED
    BY <2>1, <2>2, <2>3, <2>4, <2>5, <2>6
<1>2. ASSUME died = "no", Clear PROVE IInv'
  <2>1. TypeOK'
    <3>1. /\ queue' \in Seq(Tiles)
          /\ slot' \in Tiles \cup {NoTile}
          /\ queue' # <<>> => slot' = Head(queue')
      BY <1>2, ClearFacts DEF Clear, TypeOK, MsgInv
    <3>2. /\ failed' \in SUBSET Tiles
          /\ (dispatched \in BOOLEAN /\ pending \in BOOLEAN)'
          /\ msg' \in Tiles \cup {NoTile}
          /\ inflight' \in BOOLEAN
      BY <1>2, ClearFacts DEF Clear, TypeOK, MsgInv
    <3>3. /\ idx' \in Tiles \cup {NoTile}
          /\ mpc' \in {"idle", "take", "look", "skip", "create", "write",
                       "remove", "fail", "signal", "free"}
          /\ mpc' \in {"look", "skip", "create", "write", "remove", "fail"}
               => idx' # NoTile
          /\ view' \in Views
          /\ changes' \in 0..MaxChanges
      BY <1>2, ClearFacts DEF Clear, TypeOK, MsgInv
    <3>4. /\ file' \in [Tiles -> Contents]
          /\ other' \in Tiles \cup {NoTile}
          /\ foreign' \in SUBSET Tiles
          /\ died' \in {"no", "erase", "exists", "read", "io"}
          /\ gap' \in BOOLEAN
          /\ silent' \in BOOLEAN
          /\ restart' \in BOOLEAN
      BY <1>2, ClearFacts DEF Clear, TypeOK, MsgInv
    <3>5. /\ dpc' \in {"idle", "begin", "again", "tiles", "info", "load",
                       "queue", "dispatch", "changed"}
          /\ drawing' \in Views
          /\ todo' \in Seq(Tiles)
          /\ want' \in Tiles \cup {NoTile}
          /\ got' \in SUBSET Tiles
          /\ picture' \in [view: Views, tiles: SUBSET Tiles]
          /\ dpc' \in {"queue", "info", "load"} => want' # NoTile
      BY <1>2, ClearFacts DEF Clear, TypeOK, MsgInv
    <3> QED
      BY <3>1, <3>2, <3>3, <3>4, <3>5 DEF TypeOK
  <2>2. MsgInv'
    BY <1>2, ClearFacts DEF Clear, MsgInv, TypeOK
  <2>3. (RequestAtFront /\ (gap \/ FrontInv))'
    BY <1>2, ClearFacts DEF Clear, MsgInv, RequestAtFront, FrontInv, TypeOK
  <2>4. OwnPictures'
    BY <1>2, ClearFacts DEF Clear, OwnPictures, MsgInv, FrontInv, TypeOK
  <2>5. CrashExplained'
    BY <1>2, ClearFacts
    DEF Clear, CrashExplained, MsgInv, FrontInv, FileInv, Unsteady, Spoilt,
        TypeOK
  <2>6. FileInv'
    BY <1>2, ClearFacts DEF Clear, FileInv, Unsteady, Spoilt, MsgInv, TypeOK
  <2> QED
    BY <2>1, <2>2, <2>3, <2>4, <2>5, <2>6
<1>3. ASSUME died = "no", GetPixbuf PROVE IInv'
  <2>1. TypeOK'
    BY <1>3 DEF GetPixbuf, TypeOK, MsgInv, Exists
  <2>2. MsgInv'
    BY <1>3 DEF GetPixbuf, MsgInv, TypeOK
  <2>3. (RequestAtFront /\ (gap \/ FrontInv))'
    BY <1>3 DEF GetPixbuf, MsgInv, RequestAtFront, FrontInv, TypeOK, Exists
  <2>4. OwnPictures'
    BY <1>3 DEF GetPixbuf, OwnPictures, MsgInv, FrontInv, TypeOK
  <2>5. CrashExplained'
    BY <1>3
    DEF GetPixbuf, CrashExplained, MsgInv, FrontInv, FileInv, Unsteady, Spoilt,
        TypeOK, Exists
  <2>6. FileInv'
    BY <1>3 DEF GetPixbuf, FileInv, Unsteady, Spoilt, MsgInv, TypeOK, Exists
  <2> QED
    BY <2>1, <2>2, <2>3, <2>4, <2>5, <2>6
<1>4. ASSUME died = "no", QueryInfo PROVE IInv'
  <2>1. TypeOK'
    <3>1. /\ queue' \in Seq(Tiles)
          /\ slot' \in Tiles \cup {NoTile}
          /\ queue' # <<>> => slot' = Head(queue')
      BY <1>4 DEF QueryInfo, TypeOK, MsgInv
    <3>2. /\ failed' \in SUBSET Tiles
          /\ (dispatched \in BOOLEAN /\ pending \in BOOLEAN)'
          /\ msg' \in Tiles \cup {NoTile}
          /\ inflight' \in BOOLEAN
      BY <1>4 DEF QueryInfo, TypeOK, MsgInv
    <3>3. /\ idx' \in Tiles \cup {NoTile}
          /\ mpc' \in {"idle", "take", "look", "skip", "create", "write",
                       "remove", "fail", "signal", "free"}
          /\ mpc' \in {"look", "skip", "create", "write", "remove", "fail"}
               => idx' # NoTile
          /\ view' \in Views
          /\ changes' \in 0..MaxChanges
      BY <1>4 DEF QueryInfo, TypeOK, MsgInv
    <3>4. /\ file' \in [Tiles -> Contents]
          /\ other' \in Tiles \cup {NoTile}
          /\ foreign' \in SUBSET Tiles
          /\ died' \in {"no", "erase", "exists", "read", "io"}
          /\ gap' \in BOOLEAN
          /\ silent' \in BOOLEAN
          /\ restart' \in BOOLEAN
      BY <1>4 DEF QueryInfo, TypeOK, MsgInv
    <3>5. /\ dpc' \in {"idle", "begin", "again", "tiles", "info", "load",
                       "queue", "dispatch", "changed"}
          /\ drawing' \in Views
          /\ todo' \in Seq(Tiles)
          /\ want' \in Tiles \cup {NoTile}
          /\ got' \in SUBSET Tiles
          /\ picture' \in [view: Views, tiles: SUBSET Tiles]
          /\ dpc' \in {"queue", "info", "load"} => want' # NoTile
      BY <1>4 DEF QueryInfo, TypeOK, MsgInv
    <3> QED
      BY <3>1, <3>2, <3>3, <3>4, <3>5 DEF TypeOK
  <2>2. MsgInv'
    BY <1>4 DEF QueryInfo, MsgInv, TypeOK
  <2>3. (RequestAtFront /\ (gap \/ FrontInv))'
    BY <1>4 DEF QueryInfo, MsgInv, RequestAtFront, FrontInv, TypeOK
  <2>4. OwnPictures'
    BY <1>4 DEF QueryInfo, OwnPictures, MsgInv, FrontInv, TypeOK
  <2>5. CrashExplained'
    BY <1>4
    DEF QueryInfo, CrashExplained, MsgInv, FrontInv, FileInv, Unsteady, Spoilt,
        TypeOK
  <2>6. FileInv'
    BY <1>4 DEF QueryInfo, FileInv, Unsteady, Spoilt, MsgInv, TypeOK
  <2> QED
    BY <2>1, <2>2, <2>3, <2>4, <2>5, <2>6
<1>5. ASSUME died = "no", Load PROVE IInv'
  <2>1. TypeOK'
    BY <1>5 DEF Load, TypeOK, MsgInv
  <2>2. MsgInv'
    BY <1>5 DEF Load, MsgInv, TypeOK
  <2>3. (RequestAtFront /\ (gap \/ FrontInv))'
    BY <1>5 DEF Load, MsgInv, RequestAtFront, FrontInv, TypeOK
  <2>4. OwnPictures'
    BY <1>5 DEF Load, OwnPictures, MsgInv, FrontInv, TypeOK
  <2>5. CrashExplained'
    BY <1>5
    DEF Load, CrashExplained, MsgInv, FrontInv, FileInv, Unsteady, Spoilt,
        TypeOK
  <2>6. FileInv'
    BY <1>5 DEF Load, FileInv, Unsteady, Spoilt, MsgInv, TypeOK
  <2> QED
    BY <2>1, <2>2, <2>3, <2>4, <2>5, <2>6
<1>6. ASSUME died = "no", Push PROVE IInv'
  <2>0. want \notin failed =>
          /\ want \in Tiles
          /\ Append(queue, want) \in Seq(Tiles)
          /\ Append(queue, want) # <<>>
          /\ SetQueue(Append(queue, want))
          /\ queue # <<>> => Head(Append(queue, want)) = Head(queue)
    <3>1. want \in Tiles /\ queue \in Seq(Tiles)
      BY <1>6 DEF Push, TypeOK
    <3>2. /\ Append(queue, want) \in Seq(Tiles)
          /\ Append(queue, want) # <<>>
          /\ queue # <<>> => Head(Append(queue, want)) = Head(queue)
      BY <3>1
    <3>3. want \notin failed => SetQueue(Append(queue, want))
      BY <1>6 DEF Push
    <3> QED
      BY <3>1, <3>2, <3>3
  <2>1. TypeOK'
    <3>1. /\ queue' \in Seq(Tiles)
          /\ slot' \in Tiles \cup {NoTile}
          /\ queue' # <<>> => slot' = Head(queue')
      BY <1>6, <2>0, SetQueueFacts DEF Push, TypeOK, MsgInv
    <3>2. /\ failed' \in SUBSET Tiles
          /\ (dispatched \in BOOLEAN /\ pending \in BOOLEAN)'
          /\ msg' \in Tiles \cup {NoTile}
          /\ inflight' \in BOOLEAN
      BY <1>6, <2>0, SetQueueFacts DEF Push, TypeOK, MsgInv
    <3>3. /\ idx' \in Tiles \cup {NoTile}
          /\ mpc' \in {"idle", "take", "look", "skip", "create", "write",
                       "remove", "fail", "signal", "free"}
          /\ mpc' \in {"look", "skip", "create", "write", "remove", "fail"}
               => idx' # NoTile
          /\ view' \in Views
          /\ changes' \in 0..MaxChanges
      BY <1>6, <2>0, SetQueueFacts DEF Push, TypeOK, MsgInv
    <3>4. /\ file' \in [Tiles -> Contents]
          /\ other' \in Tiles \cup {NoTile}
          /\ foreign' \in SUBSET Tiles
          /\ died' \in {"no", "erase", "exists", "read", "io"}
          /\ gap' \in BOOLEAN
          /\ silent' \in BOOLEAN
          /\ restart' \in BOOLEAN
      BY <1>6, <2>0, SetQueueFacts DEF Push, TypeOK, MsgInv
    <3>5. /\ dpc' \in {"idle", "begin", "again", "tiles", "info", "load",
                       "queue", "dispatch", "changed"}
          /\ drawing' \in Views
          /\ todo' \in Seq(Tiles)
          /\ want' \in Tiles \cup {NoTile}
          /\ got' \in SUBSET Tiles
          /\ picture' \in [view: Views, tiles: SUBSET Tiles]
          /\ dpc' \in {"queue", "info", "load"} => want' # NoTile
      BY <1>6, <2>0, SetQueueFacts DEF Push, TypeOK, MsgInv
    <3> QED
      BY <3>1, <3>2, <3>3, <3>4, <3>5 DEF TypeOK
  <2>2. MsgInv'
    BY <1>6, <2>0, SetQueueFacts DEF Push, MsgInv, TypeOK
  <2>3. (RequestAtFront /\ (gap \/ FrontInv))'
    BY <1>6, <2>0, SetQueueFacts
    DEF Push, MsgInv, RequestAtFront, FrontInv, TypeOK
  <2>4. OwnPictures'
    BY <1>6, <2>0, SetQueueFacts
    DEF Push, OwnPictures, MsgInv, FrontInv, TypeOK
  <2>5. CrashExplained'
    BY <1>6, <2>0, SetQueueFacts
    DEF Push, CrashExplained, MsgInv, FrontInv, FileInv, Unsteady, Spoilt,
        TypeOK
  <2>6. FileInv'
    BY <1>6, <2>0, SetQueueFacts
    DEF Push, FileInv, Unsteady, Spoilt, MsgInv, TypeOK
  <2> QED
    BY <2>1, <2>2, <2>3, <2>4, <2>5, <2>6
<1>7. ASSUME died = "no", Dispatch PROVE IInv'
  <2>1. TypeOK'
    BY <1>7 DEF Dispatch, TypeOK, MsgInv
  <2>2. MsgInv'
    BY <1>7 DEF Dispatch, MsgInv, TypeOK
  <2>3. (RequestAtFront /\ (gap \/ FrontInv))'
    BY <1>7 DEF Dispatch, MsgInv, RequestAtFront, FrontInv, TypeOK
  <2>4. OwnPictures'
    BY <1>7 DEF Dispatch, OwnPictures, MsgInv, FrontInv, TypeOK
  <2>5. CrashExplained'
    BY <1>7
    DEF Dispatch, CrashExplained, MsgInv, FrontInv, FileInv, Unsteady, Spoilt,
        TypeOK
  <2>6. FileInv'
    BY <1>7 DEF Dispatch, FileInv, Unsteady, Spoilt, MsgInv, TypeOK
  <2> QED
    BY <2>1, <2>2, <2>3, <2>4, <2>5, <2>6
<1>8. ASSUME died = "no", Changed PROVE IInv'
  <2>1. TypeOK'
    BY <1>8 DEF Changed, TypeOK, MsgInv, TileQueueChanged
  <2>2. MsgInv'
    BY <1>8 DEF Changed, MsgInv, TypeOK
  <2>3. (RequestAtFront /\ (gap \/ FrontInv))'
    BY <1>8 DEF Changed, MsgInv, RequestAtFront, FrontInv, TypeOK
  <2>4. OwnPictures'
    BY <1>8 DEF Changed, OwnPictures, MsgInv, FrontInv, TypeOK
  <2>5. CrashExplained'
    BY <1>8
    DEF Changed, CrashExplained, MsgInv, FrontInv, FileInv, Unsteady, Spoilt,
        TypeOK
  <2>6. FileInv'
    BY <1>8 DEF Changed, FileInv, Unsteady, Spoilt, MsgInv, TypeOK
  <2> QED
    BY <2>1, <2>2, <2>3, <2>4, <2>5, <2>6
<1>9. ASSUME died = "no", Finish PROVE IInv'
  <2>1. TypeOK'
    BY <1>9 DEF Finish, TypeOK, MsgInv
  <2>2. MsgInv'
    BY <1>9 DEF Finish, MsgInv, TypeOK
  <2>3. (RequestAtFront /\ (gap \/ FrontInv))'
    BY <1>9 DEF Finish, MsgInv, RequestAtFront, FrontInv, TypeOK
  <2>4. OwnPictures'
    BY <1>9 DEF Finish, OwnPictures, MsgInv, FrontInv, TypeOK
  <2>5. CrashExplained'
    BY <1>9
    DEF Finish, CrashExplained, MsgInv, FrontInv, FileInv, Unsteady, Spoilt,
        TypeOK
  <2>6. FileInv'
    BY <1>9 DEF Finish, FileInv, Unsteady, Spoilt, MsgInv, TypeOK
  <2> QED
    BY <2>1, <2>2, <2>3, <2>4, <2>5, <2>6
<1>10. ASSUME died = "no", Fetched PROVE IInv'
  <2>1. TypeOK'
    <3>1. /\ queue' \in Seq(Tiles)
          /\ slot' \in Tiles \cup {NoTile}
          /\ queue' # <<>> => slot' = Head(queue')
      BY <1>10, FrontFacts, SetQueueFacts DEF Fetched, TypeOK, MsgInv
    <3>2. /\ failed' \in SUBSET Tiles
          /\ (dispatched \in BOOLEAN /\ pending \in BOOLEAN)'
          /\ msg' \in Tiles \cup {NoTile}
          /\ inflight' \in BOOLEAN
      BY <1>10, FrontFacts, SetQueueFacts DEF Fetched, TypeOK, MsgInv
    <3>3. /\ idx' \in Tiles \cup {NoTile}
          /\ mpc' \in {"idle", "take", "look", "skip", "create", "write",
                       "remove", "fail", "signal", "free"}
          /\ mpc' \in {"look", "skip", "create", "write", "remove", "fail"}
               => idx' # NoTile
          /\ view' \in Views
          /\ changes' \in 0..MaxChanges
      BY <1>10, FrontFacts, SetQueueFacts DEF Fetched, TypeOK, MsgInv
    <3>4. /\ file' \in [Tiles -> Contents]
          /\ other' \in Tiles \cup {NoTile}
          /\ foreign' \in SUBSET Tiles
          /\ died' \in {"no", "erase", "exists", "read", "io"}
          /\ gap' \in BOOLEAN
          /\ silent' \in BOOLEAN
          /\ restart' \in BOOLEAN
      BY <1>10, FrontFacts, SetQueueFacts DEF Fetched, TypeOK, MsgInv
    <3>5. /\ dpc' \in {"idle", "begin", "again", "tiles", "info", "load",
                       "queue", "dispatch", "changed"}
          /\ drawing' \in Views
          /\ todo' \in Seq(Tiles)
          /\ want' \in Tiles \cup {NoTile}
          /\ got' \in SUBSET Tiles
          /\ picture' \in [view: Views, tiles: SUBSET Tiles]
          /\ dpc' \in {"queue", "info", "load"} => want' # NoTile
      BY <1>10, FrontFacts, SetQueueFacts DEF Fetched, TypeOK, MsgInv
    <3> QED
      BY <3>1, <3>2, <3>3, <3>4, <3>5 DEF TypeOK
  <2>2. MsgInv'
    BY <1>10, FrontFacts, SetQueueFacts DEF Fetched, MsgInv, TypeOK
  <2>3. (RequestAtFront /\ (gap \/ FrontInv))'
    BY <1>10, FrontFacts, SetQueueFacts
    DEF Fetched, MsgInv, RequestAtFront, FrontInv, TypeOK
  <2>4. OwnPictures'
    BY <1>10, FrontFacts, SetQueueFacts
    DEF Fetched, OwnPictures, MsgInv, FrontInv, TypeOK
  <2>5. CrashExplained'
    BY <1>10, FrontFacts, SetQueueFacts
    DEF Fetched, CrashExplained, MsgInv, FrontInv, FileInv, Unsteady, Spoilt,
        TypeOK
  <2>6. FileInv'
    BY <1>10, FrontFacts, SetQueueFacts
    DEF Fetched, FileInv, Unsteady, Spoilt, MsgInv, TypeOK
  <2> QED
    BY <2>1, <2>2, <2>3, <2>4, <2>5, <2>6
<1>11. ASSUME died = "no", Refused PROVE IInv'
  <2>1. TypeOK'
    <3>1. /\ queue' \in Seq(Tiles)
          /\ slot' \in Tiles \cup {NoTile}
          /\ queue' # <<>> => slot' = Head(queue')
      BY <1>11, FrontFacts, SetQueueFacts DEF Refused, TypeOK, MsgInv
    <3>2. /\ failed' \in SUBSET Tiles
          /\ (dispatched \in BOOLEAN /\ pending \in BOOLEAN)'
          /\ msg' \in Tiles \cup {NoTile}
          /\ inflight' \in BOOLEAN
      BY <1>11, FrontFacts, SetQueueFacts DEF Refused, TypeOK, MsgInv
    <3>3. /\ idx' \in Tiles \cup {NoTile}
          /\ mpc' \in {"idle", "take", "look", "skip", "create", "write",
                       "remove", "fail", "signal", "free"}
          /\ mpc' \in {"look", "skip", "create", "write", "remove", "fail"}
               => idx' # NoTile
          /\ view' \in Views
          /\ changes' \in 0..MaxChanges
      BY <1>11, FrontFacts, SetQueueFacts DEF Refused, TypeOK, MsgInv
    <3>4. /\ file' \in [Tiles -> Contents]
          /\ other' \in Tiles \cup {NoTile}
          /\ foreign' \in SUBSET Tiles
          /\ died' \in {"no", "erase", "exists", "read", "io"}
          /\ gap' \in BOOLEAN
          /\ silent' \in BOOLEAN
          /\ restart' \in BOOLEAN
      BY <1>11, FrontFacts, SetQueueFacts DEF Refused, TypeOK, MsgInv
    <3>5. /\ dpc' \in {"idle", "begin", "again", "tiles", "info", "load",
                       "queue", "dispatch", "changed"}
          /\ drawing' \in Views
          /\ todo' \in Seq(Tiles)
          /\ want' \in Tiles \cup {NoTile}
          /\ got' \in SUBSET Tiles
          /\ picture' \in [view: Views, tiles: SUBSET Tiles]
          /\ dpc' \in {"queue", "info", "load"} => want' # NoTile
      BY <1>11, FrontFacts, SetQueueFacts DEF Refused, TypeOK, MsgInv
    <3> QED
      BY <3>1, <3>2, <3>3, <3>4, <3>5 DEF TypeOK
  <2>2. MsgInv'
    BY <1>11, FrontFacts, SetQueueFacts DEF Refused, MsgInv, TypeOK
  <2>3. (RequestAtFront /\ (gap \/ FrontInv))'
    BY <1>11, FrontFacts, SetQueueFacts
    DEF Refused, MsgInv, RequestAtFront, FrontInv, TypeOK
  <2>4. OwnPictures'
    BY <1>11, FrontFacts, SetQueueFacts
    DEF Refused, OwnPictures, MsgInv, FrontInv, TypeOK
  <2>5. CrashExplained'
    BY <1>11, FrontFacts, SetQueueFacts
    DEF Refused, CrashExplained, MsgInv, FrontInv, FileInv, Unsteady, Spoilt,
        TypeOK
  <2>6. FileInv'
    BY <1>11, FrontFacts, SetQueueFacts
    DEF Refused, FileInv, Unsteady, Spoilt, MsgInv, TypeOK
  <2> QED
    BY <2>1, <2>2, <2>3, <2>4, <2>5, <2>6
<1>12. ASSUME died = "no", RunQueue PROVE IInv'
  <2>1. TypeOK'
    <3>1. /\ queue' \in Seq(Tiles)
          /\ slot' \in Tiles \cup {NoTile}
          /\ queue' # <<>> => slot' = Head(queue')
      BY <1>12 DEF RunQueue, TypeOK, MsgInv
    <3>2. /\ failed' \in SUBSET Tiles
          /\ (dispatched \in BOOLEAN /\ pending \in BOOLEAN)'
          /\ msg' \in Tiles \cup {NoTile}
          /\ inflight' \in BOOLEAN
      BY <1>12 DEF RunQueue, TypeOK, MsgInv
    <3>3. /\ idx' \in Tiles \cup {NoTile}
          /\ mpc' \in {"idle", "take", "look", "skip", "create", "write",
                       "remove", "fail", "signal", "free"}
          /\ mpc' \in {"look", "skip", "create", "write", "remove", "fail"}
               => idx' # NoTile
          /\ view' \in Views
          /\ changes' \in 0..MaxChanges
      BY <1>12 DEF RunQueue, TypeOK, MsgInv
    <3>4. /\ file' \in [Tiles -> Contents]
          /\ other' \in Tiles \cup {NoTile}
          /\ foreign' \in SUBSET Tiles
          /\ died' \in {"no", "erase", "exists", "read", "io"}
          /\ gap' \in BOOLEAN
          /\ silent' \in BOOLEAN
          /\ restart' \in BOOLEAN
      BY <1>12 DEF RunQueue, TypeOK, MsgInv
    <3>5. /\ dpc' \in {"idle", "begin", "again", "tiles", "info", "load",
                       "queue", "dispatch", "changed"}
          /\ drawing' \in Views
          /\ todo' \in Seq(Tiles)
          /\ want' \in Tiles \cup {NoTile}
          /\ got' \in SUBSET Tiles
          /\ picture' \in [view: Views, tiles: SUBSET Tiles]
          /\ dpc' \in {"queue", "info", "load"} => want' # NoTile
      BY <1>12 DEF RunQueue, TypeOK, MsgInv
    <3> QED
      BY <3>1, <3>2, <3>3, <3>4, <3>5 DEF TypeOK
  <2>2. MsgInv'
    BY <1>12 DEF RunQueue, MsgInv, TypeOK
  <2>3. (RequestAtFront /\ (gap \/ FrontInv))'
    BY <1>12 DEF RunQueue, MsgInv, RequestAtFront, FrontInv, TypeOK
  <2>4. OwnPictures'
    BY <1>12 DEF RunQueue, OwnPictures, MsgInv, FrontInv, TypeOK
  <2>5. CrashExplained'
    BY <1>12
    DEF RunQueue, CrashExplained, MsgInv, FrontInv, FileInv, Unsteady, Spoilt,
        TypeOK
  <2>6. FileInv'
    BY <1>12 DEF RunQueue, FileInv, Unsteady, Spoilt, MsgInv, TypeOK
  <2> QED
    BY <2>1, <2>2, <2>3, <2>4, <2>5, <2>6
<1>13. ASSUME died = "no", Take PROVE IInv'
  <2>1. TypeOK'
    <3>1. /\ queue' \in Seq(Tiles)
          /\ slot' \in Tiles \cup {NoTile}
          /\ queue' # <<>> => slot' = Head(queue')
      BY <1>13, FrontFacts, SetQueueFacts DEF Take, TypeOK, MsgInv
    <3>2. /\ failed' \in SUBSET Tiles
          /\ (dispatched \in BOOLEAN /\ pending \in BOOLEAN)'
          /\ msg' \in Tiles \cup {NoTile}
          /\ inflight' \in BOOLEAN
      BY <1>13, FrontFacts, SetQueueFacts DEF Take, TypeOK, MsgInv
    <3>3. /\ idx' \in Tiles \cup {NoTile}
          /\ mpc' \in {"idle", "take", "look", "skip", "create", "write",
                       "remove", "fail", "signal", "free"}
          /\ mpc' \in {"look", "skip", "create", "write", "remove", "fail"}
               => idx' # NoTile
          /\ view' \in Views
          /\ changes' \in 0..MaxChanges
      BY <1>13, FrontFacts, SetQueueFacts DEF Take, TypeOK, MsgInv
    <3>4. /\ file' \in [Tiles -> Contents]
          /\ other' \in Tiles \cup {NoTile}
          /\ foreign' \in SUBSET Tiles
          /\ died' \in {"no", "erase", "exists", "read", "io"}
          /\ gap' \in BOOLEAN
          /\ silent' \in BOOLEAN
          /\ restart' \in BOOLEAN
      BY <1>13, FrontFacts, SetQueueFacts DEF Take, TypeOK, MsgInv
    <3>5. /\ dpc' \in {"idle", "begin", "again", "tiles", "info", "load",
                       "queue", "dispatch", "changed"}
          /\ drawing' \in Views
          /\ todo' \in Seq(Tiles)
          /\ want' \in Tiles \cup {NoTile}
          /\ got' \in SUBSET Tiles
          /\ picture' \in [view: Views, tiles: SUBSET Tiles]
          /\ dpc' \in {"queue", "info", "load"} => want' # NoTile
      BY <1>13, FrontFacts, SetQueueFacts DEF Take, TypeOK, MsgInv
    <3> QED
      BY <3>1, <3>2, <3>3, <3>4, <3>5 DEF TypeOK
  <2>2. MsgInv'
    BY <1>13, FrontFacts, SetQueueFacts DEF Take, MsgInv, TypeOK
  <2>3. (RequestAtFront /\ (gap \/ FrontInv))'
    BY <1>13, FrontFacts, SetQueueFacts
    DEF Take, MsgInv, RequestAtFront, FrontInv, TypeOK
  <2>4. OwnPictures'
    BY <1>13, FrontFacts, SetQueueFacts
    DEF Take, OwnPictures, MsgInv, FrontInv, TypeOK
  <2>5. CrashExplained'
    BY <1>13, FrontFacts, SetQueueFacts
    DEF Take, CrashExplained, MsgInv, FrontInv, FileInv, Unsteady, Spoilt,
        TypeOK
  <2>6. FileInv'
    BY <1>13, FrontFacts, SetQueueFacts
    DEF Take, FileInv, Unsteady, Spoilt, MsgInv, TypeOK
  <2> QED
    BY <2>1, <2>2, <2>3, <2>4, <2>5, <2>6
<1>14. ASSUME died = "no", Look PROVE IInv'
  <2>1. TypeOK'
    <3>1. /\ queue' \in Seq(Tiles)
          /\ slot' \in Tiles \cup {NoTile}
          /\ queue' # <<>> => slot' = Head(queue')
      BY <1>14 DEF Look, TypeOK, MsgInv, Exists
    <3>2. /\ failed' \in SUBSET Tiles
          /\ (dispatched \in BOOLEAN /\ pending \in BOOLEAN)'
          /\ msg' \in Tiles \cup {NoTile}
          /\ inflight' \in BOOLEAN
      BY <1>14 DEF Look, TypeOK, MsgInv, Exists
    <3>3. /\ idx' \in Tiles \cup {NoTile}
          /\ mpc' \in {"idle", "take", "look", "skip", "create", "write",
                       "remove", "fail", "signal", "free"}
          /\ mpc' \in {"look", "skip", "create", "write", "remove", "fail"}
               => idx' # NoTile
          /\ view' \in Views
          /\ changes' \in 0..MaxChanges
      BY <1>14 DEF Look, TypeOK, MsgInv, Exists
    <3>4. /\ file' \in [Tiles -> Contents]
          /\ other' \in Tiles \cup {NoTile}
          /\ foreign' \in SUBSET Tiles
          /\ died' \in {"no", "erase", "exists", "read", "io"}
          /\ gap' \in BOOLEAN
          /\ silent' \in BOOLEAN
          /\ restart' \in BOOLEAN
      BY <1>14 DEF Look, TypeOK, MsgInv, Exists
    <3>5. /\ dpc' \in {"idle", "begin", "again", "tiles", "info", "load",
                       "queue", "dispatch", "changed"}
          /\ drawing' \in Views
          /\ todo' \in Seq(Tiles)
          /\ want' \in Tiles \cup {NoTile}
          /\ got' \in SUBSET Tiles
          /\ picture' \in [view: Views, tiles: SUBSET Tiles]
          /\ dpc' \in {"queue", "info", "load"} => want' # NoTile
      BY <1>14 DEF Look, TypeOK, MsgInv, Exists
    <3> QED
      BY <3>1, <3>2, <3>3, <3>4, <3>5 DEF TypeOK
  <2>2. MsgInv'
    BY <1>14 DEF Look, MsgInv, TypeOK
  <2>3. (RequestAtFront /\ (gap \/ FrontInv))'
    BY <1>14 DEF Look, MsgInv, RequestAtFront, FrontInv, TypeOK, Exists
  <2>4. OwnPictures'
    BY <1>14 DEF Look, OwnPictures, MsgInv, FrontInv, TypeOK
  <2>5. CrashExplained'
    BY <1>14
    DEF Look, CrashExplained, MsgInv, FrontInv, FileInv, Unsteady, Spoilt,
        TypeOK, Exists
  <2>6. FileInv'
    BY <1>14 DEF Look, FileInv, Unsteady, Spoilt, MsgInv, TypeOK, Exists
  <2> QED
    BY <2>1, <2>2, <2>3, <2>4, <2>5, <2>6
<1>15. ASSUME died = "no", Skip PROVE IInv'
  <2>1. TypeOK'
    <3>1. /\ queue' \in Seq(Tiles)
          /\ slot' \in Tiles \cup {NoTile}
          /\ queue' # <<>> => slot' = Head(queue')
      BY <1>15, FrontFacts, SetQueueFacts DEF Skip, TypeOK, MsgInv
    <3>2. /\ failed' \in SUBSET Tiles
          /\ (dispatched \in BOOLEAN /\ pending \in BOOLEAN)'
          /\ msg' \in Tiles \cup {NoTile}
          /\ inflight' \in BOOLEAN
      BY <1>15, FrontFacts, SetQueueFacts DEF Skip, TypeOK, MsgInv
    <3>3. /\ idx' \in Tiles \cup {NoTile}
          /\ mpc' \in {"idle", "take", "look", "skip", "create", "write",
                       "remove", "fail", "signal", "free"}
          /\ mpc' \in {"look", "skip", "create", "write", "remove", "fail"}
               => idx' # NoTile
          /\ view' \in Views
          /\ changes' \in 0..MaxChanges
      BY <1>15, FrontFacts, SetQueueFacts DEF Skip, TypeOK, MsgInv
    <3>4. /\ file' \in [Tiles -> Contents]
          /\ other' \in Tiles \cup {NoTile}
          /\ foreign' \in SUBSET Tiles
          /\ died' \in {"no", "erase", "exists", "read", "io"}
          /\ gap' \in BOOLEAN
          /\ silent' \in BOOLEAN
          /\ restart' \in BOOLEAN
      BY <1>15, FrontFacts, SetQueueFacts DEF Skip, TypeOK, MsgInv
    <3>5. /\ dpc' \in {"idle", "begin", "again", "tiles", "info", "load",
                       "queue", "dispatch", "changed"}
          /\ drawing' \in Views
          /\ todo' \in Seq(Tiles)
          /\ want' \in Tiles \cup {NoTile}
          /\ got' \in SUBSET Tiles
          /\ picture' \in [view: Views, tiles: SUBSET Tiles]
          /\ dpc' \in {"queue", "info", "load"} => want' # NoTile
      BY <1>15, FrontFacts, SetQueueFacts DEF Skip, TypeOK, MsgInv
    <3> QED
      BY <3>1, <3>2, <3>3, <3>4, <3>5 DEF TypeOK
  <2>2. MsgInv'
    BY <1>15, FrontFacts, SetQueueFacts DEF Skip, MsgInv, TypeOK
  <2>3. (RequestAtFront /\ (gap \/ FrontInv))'
    BY <1>15, FrontFacts, SetQueueFacts
    DEF Skip, MsgInv, RequestAtFront, FrontInv, TypeOK
  <2>4. OwnPictures'
    BY <1>15, FrontFacts, SetQueueFacts
    DEF Skip, OwnPictures, MsgInv, FrontInv, TypeOK
  <2>5. CrashExplained'
    BY <1>15, FrontFacts, SetQueueFacts
    DEF Skip, CrashExplained, MsgInv, FrontInv, FileInv, Unsteady, Spoilt,
        TypeOK
  <2>6. FileInv'
    BY <1>15, FrontFacts, SetQueueFacts
    DEF Skip, FileInv, Unsteady, Spoilt, MsgInv, TypeOK
  <2> QED
    BY <2>1, <2>2, <2>3, <2>4, <2>5, <2>6
<1>16. ASSUME died = "no", Create PROVE IInv'
  <2>1. TypeOK'
    <3>1. /\ queue' \in Seq(Tiles)
          /\ slot' \in Tiles \cup {NoTile}
          /\ queue' # <<>> => slot' = Head(queue')
      BY <1>16 DEF Create, TypeOK, MsgInv, Exists
    <3>2. /\ failed' \in SUBSET Tiles
          /\ (dispatched \in BOOLEAN /\ pending \in BOOLEAN)'
          /\ msg' \in Tiles \cup {NoTile}
          /\ inflight' \in BOOLEAN
      BY <1>16 DEF Create, TypeOK, MsgInv, Exists
    <3>3. /\ idx' \in Tiles \cup {NoTile}
          /\ mpc' \in {"idle", "take", "look", "skip", "create", "write",
                       "remove", "fail", "signal", "free"}
          /\ mpc' \in {"look", "skip", "create", "write", "remove", "fail"}
               => idx' # NoTile
          /\ view' \in Views
          /\ changes' \in 0..MaxChanges
      BY <1>16 DEF Create, TypeOK, MsgInv, Exists
    <3>4. /\ file' \in [Tiles -> Contents]
          /\ other' \in Tiles \cup {NoTile}
          /\ foreign' \in SUBSET Tiles
          /\ died' \in {"no", "erase", "exists", "read", "io"}
          /\ gap' \in BOOLEAN
          /\ silent' \in BOOLEAN
          /\ restart' \in BOOLEAN
      BY <1>16 DEF Create, TypeOK, MsgInv, Exists
    <3>5. /\ dpc' \in {"idle", "begin", "again", "tiles", "info", "load",
                       "queue", "dispatch", "changed"}
          /\ drawing' \in Views
          /\ todo' \in Seq(Tiles)
          /\ want' \in Tiles \cup {NoTile}
          /\ got' \in SUBSET Tiles
          /\ picture' \in [view: Views, tiles: SUBSET Tiles]
          /\ dpc' \in {"queue", "info", "load"} => want' # NoTile
      BY <1>16 DEF Create, TypeOK, MsgInv, Exists
    <3> QED
      BY <3>1, <3>2, <3>3, <3>4, <3>5 DEF TypeOK
  <2>2. MsgInv'
    BY <1>16 DEF Create, MsgInv, TypeOK
  <2>3. (RequestAtFront /\ (gap \/ FrontInv))'
    BY <1>16 DEF Create, MsgInv, RequestAtFront, FrontInv, TypeOK, Exists
  <2>4. OwnPictures'
    BY <1>16 DEF Create, OwnPictures, MsgInv, FrontInv, TypeOK
  <2>5. CrashExplained'
    BY <1>16
    DEF Create, CrashExplained, MsgInv, FrontInv, FileInv, Unsteady, Spoilt,
        TypeOK, Exists
  <2>6. FileInv'
    BY <1>16 DEF Create, FileInv, Unsteady, Spoilt, MsgInv, TypeOK, Exists
  <2> QED
    BY <2>1, <2>2, <2>3, <2>4, <2>5, <2>6
<1>17. ASSUME died = "no", WriteSome PROVE IInv'
  <2>1. TypeOK'
    BY <1>17 DEF WriteSome, TypeOK, MsgInv
  <2>2. MsgInv'
    BY <1>17 DEF WriteSome, MsgInv, TypeOK
  <2>3. (RequestAtFront /\ (gap \/ FrontInv))'
    BY <1>17 DEF WriteSome, MsgInv, RequestAtFront, FrontInv, TypeOK
  <2>4. OwnPictures'
    BY <1>17 DEF WriteSome, OwnPictures, MsgInv, FrontInv, TypeOK
  <2>5. CrashExplained'
    BY <1>17
    DEF WriteSome, CrashExplained, MsgInv, FrontInv, FileInv, Unsteady, Spoilt,
        TypeOK
  <2>6. FileInv'
    BY <1>17 DEF WriteSome, FileInv, Unsteady, Spoilt, MsgInv, TypeOK
  <2> QED
    BY <2>1, <2>2, <2>3, <2>4, <2>5, <2>6
<1>18. ASSUME died = "no", Write PROVE IInv'
  <2>1. TypeOK'
    <3>1. /\ queue' \in Seq(Tiles)
          /\ slot' \in Tiles \cup {NoTile}
          /\ queue' # <<>> => slot' = Head(queue')
      BY <1>18 DEF Write, TypeOK, MsgInv
    <3>2. /\ failed' \in SUBSET Tiles
          /\ (dispatched \in BOOLEAN /\ pending \in BOOLEAN)'
          /\ msg' \in Tiles \cup {NoTile}
          /\ inflight' \in BOOLEAN
      BY <1>18 DEF Write, TypeOK, MsgInv
    <3>3. /\ idx' \in Tiles \cup {NoTile}
          /\ mpc' \in {"idle", "take", "look", "skip", "create", "write",
                       "remove", "fail", "signal", "free"}
          /\ mpc' \in {"look", "skip", "create", "write", "remove", "fail"}
               => idx' # NoTile
          /\ view' \in Views
          /\ changes' \in 0..MaxChanges
      BY <1>18 DEF Write, TypeOK, MsgInv
    <3>4. /\ file' \in [Tiles -> Contents]
          /\ other' \in Tiles \cup {NoTile}
          /\ foreign' \in SUBSET Tiles
          /\ died' \in {"no", "erase", "exists", "read", "io"}
          /\ gap' \in BOOLEAN
          /\ silent' \in BOOLEAN
          /\ restart' \in BOOLEAN
      BY <1>18 DEF Write, TypeOK, MsgInv
    <3>5. /\ dpc' \in {"idle", "begin", "again", "tiles", "info", "load",
                       "queue", "dispatch", "changed"}
          /\ drawing' \in Views
          /\ todo' \in Seq(Tiles)
          /\ want' \in Tiles \cup {NoTile}
          /\ got' \in SUBSET Tiles
          /\ picture' \in [view: Views, tiles: SUBSET Tiles]
          /\ dpc' \in {"queue", "info", "load"} => want' # NoTile
      BY <1>18 DEF Write, TypeOK, MsgInv
    <3> QED
      BY <3>1, <3>2, <3>3, <3>4, <3>5 DEF TypeOK
  <2>2. MsgInv'
    BY <1>18 DEF Write, MsgInv, TypeOK
  <2>3. (RequestAtFront /\ (gap \/ FrontInv))'
    BY <1>18 DEF Write, MsgInv, RequestAtFront, FrontInv, TypeOK
  <2>4. OwnPictures'
    BY <1>18 DEF Write, OwnPictures, MsgInv, FrontInv, TypeOK
  <2>5. CrashExplained'
    BY <1>18
    DEF Write, CrashExplained, MsgInv, FrontInv, FileInv, Unsteady, Spoilt,
        TypeOK
  <2>6. FileInv'
    BY <1>18 DEF Write, FileInv, Unsteady, Spoilt, MsgInv, TypeOK
  <2> QED
    BY <2>1, <2>2, <2>3, <2>4, <2>5, <2>6
<1>19. ASSUME died = "no", Remove PROVE IInv'
  <2>1. TypeOK'
    BY <1>19 DEF Remove, TypeOK, MsgInv
  <2>2. MsgInv'
    BY <1>19 DEF Remove, MsgInv, TypeOK
  <2>3. (RequestAtFront /\ (gap \/ FrontInv))'
    BY <1>19 DEF Remove, MsgInv, RequestAtFront, FrontInv, TypeOK
  <2>4. OwnPictures'
    BY <1>19 DEF Remove, OwnPictures, MsgInv, FrontInv, TypeOK
  <2>5. CrashExplained'
    BY <1>19
    DEF Remove, CrashExplained, MsgInv, FrontInv, FileInv, Unsteady, Spoilt,
        TypeOK
  <2>6. FileInv'
    BY <1>19 DEF Remove, FileInv, Unsteady, Spoilt, MsgInv, TypeOK
  <2> QED
    BY <2>1, <2>2, <2>3, <2>4, <2>5, <2>6
<1>20. ASSUME died = "no", Fail PROVE IInv'
  <2>1. TypeOK'
    BY <1>20 DEF Fail, TypeOK, MsgInv
  <2>2. MsgInv'
    BY <1>20 DEF Fail, MsgInv, TypeOK
  <2>3. (RequestAtFront /\ (gap \/ FrontInv))'
    BY <1>20 DEF Fail, MsgInv, RequestAtFront, FrontInv, TypeOK
  <2>4. OwnPictures'
    BY <1>20 DEF Fail, OwnPictures, MsgInv, FrontInv, TypeOK
  <2>5. CrashExplained'
    BY <1>20
    DEF Fail, CrashExplained, MsgInv, FrontInv, FileInv, Unsteady, Spoilt,
        TypeOK
  <2>6. FileInv'
    BY <1>20 DEF Fail, FileInv, Unsteady, Spoilt, MsgInv, TypeOK
  <2> QED
    BY <2>1, <2>2, <2>3, <2>4, <2>5, <2>6
<1>21. ASSUME died = "no", Signal PROVE IInv'
  <2>1. TypeOK'
    BY <1>21 DEF Signal, TypeOK, MsgInv, TileQueueChanged
  <2>2. MsgInv'
    BY <1>21 DEF Signal, MsgInv, TypeOK
  <2>3. (RequestAtFront /\ (gap \/ FrontInv))'
    BY <1>21 DEF Signal, MsgInv, RequestAtFront, FrontInv, TypeOK
  <2>4. OwnPictures'
    BY <1>21 DEF Signal, OwnPictures, MsgInv, FrontInv, TypeOK
  <2>5. CrashExplained'
    BY <1>21
    DEF Signal, CrashExplained, MsgInv, FrontInv, FileInv, Unsteady, Spoilt,
        TypeOK
  <2>6. FileInv'
    BY <1>21 DEF Signal, FileInv, Unsteady, Spoilt, MsgInv, TypeOK
  <2> QED
    BY <2>1, <2>2, <2>3, <2>4, <2>5, <2>6
<1>22. ASSUME died = "no", Free PROVE IInv'
  <2>1. TypeOK'
    BY <1>22 DEF Free, TypeOK, MsgInv
  <2>2. MsgInv'
    BY <1>22 DEF Free, MsgInv, TypeOK
  <2>3. (RequestAtFront /\ (gap \/ FrontInv))'
    BY <1>22 DEF Free, MsgInv, RequestAtFront, FrontInv, TypeOK
  <2>4. OwnPictures'
    BY <1>22 DEF Free, OwnPictures, MsgInv, FrontInv, TypeOK
  <2>5. CrashExplained'
    BY <1>22
    DEF Free, CrashExplained, MsgInv, FrontInv, FileInv, Unsteady, Spoilt,
        TypeOK
  <2>6. FileInv'
    BY <1>22 DEF Free, FileInv, Unsteady, Spoilt, MsgInv, TypeOK
  <2> QED
    BY <2>1, <2>2, <2>3, <2>4, <2>5, <2>6
<1>23. ASSUME died = "no", ReadError PROVE IInv'
  <2>1. TypeOK'
    BY <1>23 DEF ReadError, TypeOK, MsgInv
  <2>2. MsgInv'
    BY <1>23 DEF ReadError, MsgInv, TypeOK
  <2>3. (RequestAtFront /\ (gap \/ FrontInv))'
    BY <1>23 DEF ReadError, MsgInv, RequestAtFront, FrontInv, TypeOK
  <2>4. OwnPictures'
    BY <1>23 DEF ReadError, OwnPictures, MsgInv, FrontInv, TypeOK
  <2>5. CrashExplained'
    BY <1>23
    DEF ReadError, CrashExplained, MsgInv, FrontInv, FileInv, Unsteady, Spoilt,
        TypeOK
  <2>6. FileInv'
    BY <1>23 DEF ReadError, FileInv, Unsteady, Spoilt, MsgInv, TypeOK
  <2> QED
    BY <2>1, <2>2, <2>3, <2>4, <2>5, <2>6
<1>24. ASSUME died = "no", OtherWrites PROVE IInv'
  <2>0. /\ other \in Tiles
        /\ other \in foreign
        /\ other' \in {other, NoTile}
    BY <1>24 DEF OtherWrites, TypeOK, FileInv
  <2>c. PICK c \in {other, NoTile, Partial} :
          file' = [file EXCEPT ![other] = c]
    BY <1>24 DEF OtherWrites
  <2>f. /\ file' \in [Tiles -> Contents]
        /\ \A t \in Tiles : t # other => file'[t] = file[t]
        /\ file'[other] = c
    BY <2>0, <2>c DEF TypeOK
  <2>1. TypeOK'
    <3>1. /\ queue' \in Seq(Tiles)
          /\ slot' \in Tiles \cup {NoTile}
          /\ queue' # <<>> => slot' = Head(queue')
      BY <1>24 DEF OtherWrites, TypeOK, MsgInv
    <3>2. /\ failed' \in SUBSET Tiles
          /\ (dispatched \in BOOLEAN /\ pending \in BOOLEAN)'
          /\ msg' \in Tiles \cup {NoTile}
          /\ inflight' \in BOOLEAN
      BY <1>24 DEF OtherWrites, TypeOK, MsgInv
    <3>3. /\ idx' \in Tiles \cup {NoTile}
          /\ mpc' \in {"idle", "take", "look", "skip", "create", "write",
                       "remove", "fail", "signal", "free"}
          /\ mpc' \in {"look", "skip", "create", "write", "remove", "fail"}
               => idx' # NoTile
          /\ view' \in Views
          /\ changes' \in 0..MaxChanges
      BY <1>24 DEF OtherWrites, TypeOK, MsgInv
    <3>4. /\ file' \in [Tiles -> Contents]
          /\ other' \in Tiles \cup {NoTile}
          /\ foreign' \in SUBSET Tiles
          /\ died' \in {"no", "erase", "exists", "read", "io"}
          /\ gap' \in BOOLEAN
          /\ silent' \in BOOLEAN
          /\ restart' \in BOOLEAN
      BY <1>24, <2>0, <2>f DEF OtherWrites, TypeOK, MsgInv
    <3>5. /\ dpc' \in {"idle", "begin", "again", "tiles", "info", "load",
                       "queue", "dispatch", "changed"}
          /\ drawing' \in Views
          /\ todo' \in Seq(Tiles)
          /\ want' \in Tiles \cup {NoTile}
          /\ got' \in SUBSET Tiles
          /\ picture' \in [view: Views, tiles: SUBSET Tiles]
          /\ dpc' \in {"queue", "info", "load"} => want' # NoTile
      BY <1>24 DEF OtherWrites, TypeOK, MsgInv
    <3> QED
      BY <3>1, <3>2, <3>3, <3>4, <3>5 DEF TypeOK
  <2>2. MsgInv'
    BY <1>24 DEF OtherWrites, MsgInv, TypeOK
  <2>3. (RequestAtFront /\ (gap \/ FrontInv))'
    BY <1>24, <2>0, <2>f
    DEF OtherWrites, MsgInv, RequestAtFront, FrontInv, TypeOK
  <2>4. OwnPictures'
    BY <1>24, <2>0, <2>f DEF OtherWrites, OwnPictures, TypeOK
  <2>5. CrashExplained'
    BY <1>24
    DEF OtherWrites, CrashExplained, MsgInv, FrontInv, FileInv, Unsteady,
        Spoilt, TypeOK
  <2>6. FileInv'
    BY <1>24 DEF OtherWrites, FileInv, Unsteady, Spoilt, MsgInv, TypeOK
  <2> QED
    BY <2>1, <2>2, <2>3, <2>4, <2>5, <2>6
<1>25. ASSUME NEW v \in Views, died = "no", SetView(v) PROVE IInv'
  <2>1. TypeOK'
    BY <1>25 DEF SetView, TypeOK, MsgInv
  <2>2. MsgInv'
    BY <1>25 DEF SetView, MsgInv, TypeOK
  <2>3. (RequestAtFront /\ (gap \/ FrontInv))'
    BY <1>25 DEF SetView, MsgInv, RequestAtFront, FrontInv, TypeOK
  <2>4. OwnPictures'
    BY <1>25 DEF SetView, OwnPictures, MsgInv, FrontInv, TypeOK
  <2>5. CrashExplained'
    BY <1>25
    DEF SetView, CrashExplained, MsgInv, FrontInv, FileInv, Unsteady, Spoilt,
        TypeOK
  <2>6. FileInv'
    BY <1>25 DEF SetView, FileInv, Unsteady, Spoilt, MsgInv, TypeOK
  <2> QED
    BY <2>1, <2>2, <2>3, <2>4, <2>5, <2>6
<1>26. ASSUME NEW t \in Tiles, died = "no", OtherCreates(t) PROVE IInv'
  <2>1. TypeOK'
    BY <1>26 DEF OtherCreates, TypeOK, MsgInv, Exists
  <2>2. MsgInv'
    BY <1>26 DEF OtherCreates, MsgInv, TypeOK
  <2>3. (RequestAtFront /\ (gap \/ FrontInv))'
    BY <1>26 DEF OtherCreates, MsgInv, RequestAtFront, FrontInv, TypeOK, Exists
  <2>4. OwnPictures'
    BY <1>26 DEF OtherCreates, OwnPictures, MsgInv, FrontInv, TypeOK
  <2>5. CrashExplained'
    BY <1>26
    DEF OtherCreates, CrashExplained, MsgInv, FrontInv, FileInv, Unsteady,
        Spoilt, TypeOK, Exists
  <2>6. FileInv'
    BY <1>26
    DEF OtherCreates, FileInv, Unsteady, Spoilt, MsgInv, TypeOK, Exists
  <2> QED
    BY <2>1, <2>2, <2>3, <2>4, <2>5, <2>6
<1>27. CASE UNCHANGED vars
  BY <1>27
  DEF TypeOK, MsgInv, RequestAtFront, OwnPictures, CrashExplained, FrontInv,
      FileInv, Unsteady, Spoilt
<1> QED
  BY <1>1, <1>2, <1>3, <1>4, <1>5, <1>6, <1>7, <1>8, <1>9, <1>10, <1>11, <1>12,
     <1>13, <1>14, <1>15, <1>16, <1>17, <1>18, <1>19, <1>20, <1>21, <1>22,
     <1>23, <1>24, <1>25, <1>26, <1>27
  DEF Next, Draw, Answered, MainLoop, Others

THEOREM Invariance == Spec => []IInv
  BY InvInit, InvNext, PTL DEF Spec

(* TypeOK: m_queue holds tiles, and its storage the front of it.           *)
THEOREM TypeCorrect == Spec => []TypeOK
  BY Invariance, PTL DEF IInv

(* RequestAtFront: download_complete() finds the tile it has the answer    *)
(* for at the front of m_queue, unless clear_queue() came between the two  *)
(* halves of runqueue().                                                   *)
THEOREM AnswersMatch == Spec => []RequestAtFront
  BY Invariance, PTL DEF IInv

(* OwnPictures: hence the file of a tile holds that tile.                  *)
THEOREM FilesMatch == Spec => []OwnPictures
  BY Invariance, PTL DEF IInv

(* CrashExplained: errors of the disk apart, the undefined erase() and the *)
(* uncaught exceptions have no cause but that clear_queue(), a second      *)
(* cache, and a draw thread that reads what is being written, was deleted  *)
(* or was left unfinished.                                                 *)
THEOREM CrashesExplained == Spec => []CrashExplained
  BY Invariance, PTL DEF IInv

=============================================================================
