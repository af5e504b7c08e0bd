--------------------------- MODULE BanListProofs -----------------------------
(***************************************************************************)
(* Proofs about BanList, for any users, browsers, requests and bounds: a   *)
(* browser never keeps a row that the cache has dropped, and stop() leaves *)
(* no reconcile task behind, whatever was in progress.                     *)
(***************************************************************************)
EXTENDS BanList, TLAPS

ReconTask == [pc : {"none", "sleeping", "reading", "read", "applying"},
              list : SUBSET Uids, todo : SUBSET Uids,
              added : SUBSET Uids, removed : SUBSET Uids]

(* The state that the two properties depend on. *)
CoreType ==
  /\ bans \in Rows
  /\ view \in [Browsers -> Rows]
  /\ subs \subseteq Browsers
  /\ stopped \in BOOLEAN
  /\ recon \in ReconTask

IInv == CoreType /\ ViewsWithinCache /\ NoTaskAfterStop

coreVars == <<bans, view, stopped, recon, subs>>

(* Applying addBan to a browser and to the cache alike keeps the browser   *)
(* within the cache; the cache may gain other rows at the same time.       *)
LEMMA AddedWithin ==
  ASSUME NEW rows \in Rows, NEW cache \in Rows, NEW cache2 \in Rows, NEW u \in Uids,
         NEW row \in Row, Shown(rows) \subseteq Shown(cache),
         Shown(cache) \cup {u} \subseteq Shown(cache2)
  PROVE  addBan(rows, u, row) \in Rows /\ Shown(addBan(rows, u, row)) \subseteq Shown(cache2)
BY DEF addBan, Shown, Rows, Row

(* Removing the same row from both keeps it, too. *)
LEMMA RemovedWithin ==
  ASSUME NEW rows \in Rows, NEW cache \in Rows, NEW cache2 \in Rows, NEW u \in Uids,
         Shown(rows) \subseteq Shown(cache),
         Shown(cache) \ {u} \subseteq Shown(cache2)
  PROVE  removeBan(rows, u) \in Rows /\ Shown(removeBan(rows, u)) \subseteq Shown(cache2)
BY DEF removeBan, Shown, Rows, Row

(* Overwriting adds rows and removes none. *)
LEMMA OverwriteGrows ==
  ASSUME NEW rows \in Rows, NEW S \in SUBSET Uids
  PROVE  /\ Overwrite(rows, S) \in Rows
         /\ Shown(Overwrite(rows, S)) = Shown(rows) \cup S
BY DEF Overwrite, Shown, Rows, Row

(* refresh() yields rows. *)
LEMMA RefreshedType ==
  ASSUME NEW rows \in Rows, NEW S PROVE Refreshed(rows, S) \in Rows
BY DEF Refreshed, Rows, Row

(* A snapshot broadcast makes every subscriber's rows those of the cache.  *)
LEMMA ReplaceKeeps ==
  ASSUME IInv, NEW rows \in Rows, Replace(rows),
         UNCHANGED <<stopped, subs, recon>>
  PROVE  IInv'
<1>1. bans' = rows /\ view' = [b \in Browsers |-> IF b \in subs THEN rows ELSE view[b]]
  BY DEF Replace, BroadcastSnapshot, BroadcastTo
<1>2. (bans \in Rows)' /\ (view \in [Browsers -> Rows])'
  BY <1>1 DEF IInv, CoreType
<1>3. \A b \in subs : view'[b] = rows
  BY <1>1 DEF IInv, CoreType
<1>4. ViewsWithinCache'
  BY <1>1, <1>3 DEF IInv, ViewsWithinCache
<1>5. QED
  BY <1>2, <1>4 DEF IInv, CoreType, NoTaskAfterStop

(* ban_added for a row that the cache holds afterwards.                    *)
LEMMA AddedKeeps ==
  ASSUME IInv, NEW u \in Uids, NEW row \in Row, BroadcastAdded(u, row),
         (bans \in Rows)', Shown(bans) \cup {u} \subseteq Shown(bans'),
         UNCHANGED <<stopped, subs>>
  PROVE  (view \in [Browsers -> Rows])' /\ ViewsWithinCache'
<1>1. view' = [b \in Browsers |-> IF b \in subs THEN addBan(view[b], u, row) ELSE view[b]]
  BY DEF BroadcastAdded, BroadcastTo
<1>2. \A b \in Browsers : view[b] \in Rows
  BY DEF IInv, CoreType
<1>3. \A b \in subs : /\ b \in Browsers
                      /\ addBan(view[b], u, row) \in Rows
                      /\ Shown(addBan(view[b], u, row)) \subseteq Shown(bans')
  BY <1>2, AddedWithin DEF IInv, CoreType, ViewsWithinCache
<1>4. (view \in [Browsers -> Rows])'
  BY <1>1, <1>2, <1>3
<1>5. \A b \in subs : view'[b] = addBan(view[b], u, row)
  BY <1>1, <1>3
<1>6. ViewsWithinCache'
  BY <1>3, <1>5 DEF ViewsWithinCache
<1>7. QED
  BY <1>4, <1>6

(* ban_removed for the only row that the cache drops.                      *)
LEMMA RemovedKeeps ==
  ASSUME IInv, NEW u \in Uids, BroadcastRemoved(u),
         (bans \in Rows)', Shown(bans) \ {u} \subseteq Shown(bans'),
         UNCHANGED <<stopped, subs>>
  PROVE  (view \in [Browsers -> Rows])' /\ ViewsWithinCache'
<1>1. view' = [b \in Browsers |-> IF b \in subs THEN removeBan(view[b], u) ELSE view[b]]
  BY DEF BroadcastRemoved, BroadcastTo
<1>2. \A b \in Browsers : view[b] \in Rows
  BY DEF IInv, CoreType
<1>3. \A b \in subs : /\ b \in Browsers
                      /\ removeBan(view[b], u) \in Rows
                      /\ Shown(removeBan(view[b], u)) \subseteq Shown(bans')
  BY <1>2, RemovedWithin DEF IInv, CoreType, ViewsWithinCache
<1>4. (view \in [Browsers -> Rows])'
  BY <1>1, <1>2, <1>3
<1>5. \A b \in subs : view'[b] = removeBan(view[b], u)
  BY <1>1, <1>3
<1>6. ViewsWithinCache'
  BY <1>3, <1>5 DEF ViewsWithinCache
<1>7. QED
  BY <1>4, <1>6

(* subscribe(): the new subscriber starts from the cache. *)
LEMMA SubscribeKeeps ==
  ASSUME IInv, NEW b \in Browsers, Subscribe(b), UNCHANGED <<bans, stopped>>
  PROVE  /\ (view \in [Browsers -> Rows])'
         /\ (subs \subseteq Browsers)'
         /\ ViewsWithinCache'
<1>1. \A d \in Browsers : view'[d] = IF d = b THEN bans ELSE view[d]
  BY DEF Subscribe, IInv, CoreType
<1>2. ViewsWithinCache'
  BY <1>1 DEF Subscribe, IInv, CoreType, ViewsWithinCache
<1>3. QED
  BY <1>2 DEF Subscribe, IInv, CoreType

(* One segment of the reconcile loop. *)
LEMMA SegmentKeeps ==
  ASSUME IInv, NEW todo \in SUBSET Uids, NEW added \in SUBSET Uids,
         NEW removed \in SUBSET Uids, recon.pc # "none",
         ReconcileSegment(todo, added, removed), UNCHANGED <<stopped, subs>>
  PROVE  IInv'
<1>0. ~stopped
  BY DEF IInv, NoTaskAfterStop
<1>1. ASSUME NEW u \in todo \cap added, NEW silent \in SUBSET (todo \ added),
             bans' = Overwrite(bans, silent \cup {u}),
             BroadcastAdded(u, "confirmed"),
             recon' = [pc |-> "applying", list |-> {}, added |-> added,
                       todo |-> todo \ (silent \cup {u}), removed |-> removed]
      PROVE  IInv'
  <2>1. (bans \in Rows)' /\ Shown(bans) \cup {u} \subseteq Shown(bans')
    BY <1>1, OverwriteGrows DEF IInv, CoreType
  <2>2. (view \in [Browsers -> Rows])' /\ ViewsWithinCache'
    BY <1>1, <2>1, AddedKeeps DEF Row
  <2>3. (recon \in ReconTask)'
    BY <1>1 DEF ReconTask
  <2>4. QED
    BY <1>0, <2>1, <2>2, <2>3 DEF IInv, CoreType, NoTaskAfterStop
<1>2. ASSUME NEW u \in removed,
             bans' = [Overwrite(bans, todo) EXCEPT ![u] = "absent"],
             BroadcastRemoved(u),
             recon' = [pc |-> "applying", list |-> {}, added |-> {},
                       todo |-> {}, removed |-> removed \ {u}]
      PROVE  IInv'
  <2>1. Overwrite(bans, todo) \in Rows /\ Shown(bans) \subseteq Shown(Overwrite(bans, todo))
    BY OverwriteGrows DEF IInv, CoreType
  <2>2. (bans \in Rows)' /\ Shown(bans) \ {u} \subseteq Shown(bans')
    BY <1>2, <2>1 DEF Rows, Row, Shown
  <2>3. (view \in [Browsers -> Rows])' /\ ViewsWithinCache'
    BY <1>2, <2>2, RemovedKeeps
  <2>4. (recon \in ReconTask)'
    BY <1>2 DEF ReconTask
  <2>5. QED
    BY <1>0, <2>2, <2>3, <2>4 DEF IInv, CoreType, NoTaskAfterStop
<1>3. ASSUME bans' = Overwrite(bans, todo), recon' = Idle("sleeping"), UNCHANGED view
      PROVE  IInv'
  <2>1. (bans \in Rows)' /\ Shown(bans) \subseteq Shown(bans')
    BY <1>3, OverwriteGrows DEF IInv, CoreType
  <2>2. (recon \in ReconTask)'
    BY <1>3 DEF ReconTask, Idle
  <2>3. QED
    BY <1>0, <1>3, <2>1, <2>2 DEF IInv, CoreType, NoTaskAfterStop, ViewsWithinCache
<1>4. QED
  BY <1>1, <1>2, <1>3 DEF ReconcileSegment

-----------------------------------------------------------------------------
(* A request that writes, or whose write was carried out, names a user.    *)
WritesNameUser ==
  /\ req \in [Requests -> [pc : RequestPCs, uid : Uids \cup {"none"}, list : SUBSET Uids]]
  /\ \A r \in Requests :
       req[r].pc \in {"banning", "unbanning", "banned", "unbanned"} => req[r].uid \in Uids

(* Only the request actions change the requests. *)
LEMMA NextRequests == WritesNameUser /\ [Next]_vars => WritesNameUser'
<1> SUFFICES ASSUME WritesNameUser, [Next]_vars PROVE WritesNameUser'
  OBVIOUS
<1> USE DEF WritesNameUser, RequestPCs, Goes
<1>1. ASSUME NEW r \in Requests, NEW u \in Uids, PostBan(r, u) PROVE WritesNameUser'
  BY <1>1 DEF PostBan
<1>2. ASSUME NEW r \in Requests, NEW u \in Uids, DeleteBan(r, u) PROVE WritesNameUser'
  BY <1>2 DEF DeleteBan
<1>3. ASSUME NEW r \in Requests, RefreshRequest(r) PROVE WritesNameUser'
  BY <1>3 DEF RefreshRequest
<1>4. ASSUME NEW r \in Requests, BilibiliWrites(r) PROVE WritesNameUser'
  BY <1>4 DEF BilibiliWrites
<1>5. ASSUME NEW r \in Requests, WriteFails(r) \/ NoManager(r) PROVE WritesNameUser'
  BY <1>5 DEF WriteFails, NoManager
<1>6. ASSUME NEW r \in Requests, OnBan(r) PROVE WritesNameUser'
  BY <1>6 DEF OnBan
<1>7. ASSUME NEW r \in Requests, OnUnban(r) PROVE WritesNameUser'
  BY <1>7 DEF OnUnban
<1>8. ASSUME NEW r \in Requests, RequestReads(r) PROVE WritesNameUser'
  BY <1>8 DEF RequestReads
<1>9. ASSUME NEW r \in Requests, RequestApplies(r) PROVE WritesNameUser'
  BY <1>9 DEF RequestApplies
<1>10. ASSUME UNCHANGED req PROVE WritesNameUser'
  BY <1>10
<1>11. ASSUME NEW u \in Uids, OutOfBandBan(u) \/ OutOfBandUnban(u) \/ ListCatchesUp(u)
       PROVE  UNCHANGED req
  BY <1>11 DEF OutOfBandBan, OutOfBandUnban, ListCatchesUp
<1>12. ASSUME NEW b \in Browsers,
              Connect(b) \/ ConnectStarts(b) \/ StartSteps(b) \/ Disconnect(b)
       PROVE  UNCHANGED req
  BY <1>12 DEF Connect, ConnectStarts, StartSteps, StartReads, StartApplies, StartEnds, Disconnect
<1>13. ASSUME ReconcileSteps \/ Stop \/ UNCHANGED vars PROVE UNCHANGED req
  BY <1>13 DEF ReconcileSteps, ReconcileTick, ReconcileReads, ReconcileDiffs,
       ReconcileContinues, Stop, vars
<1>14. QED
  BY <1>1, <1>2, <1>3, <1>4, <1>5, <1>6, <1>7, <1>8, <1>9, <1>10, <1>11, <1>12, <1>13
     DEF Next, RequestSteps

(* A step that leaves the cache, the browsers, the subscribers and the     *)
(* task alone keeps the invariant.                                         *)
LEMMA StutterKeeps == IInv /\ UNCHANGED coreVars => IInv'
BY DEF IInv, CoreType, coreVars, ViewsWithinCache, NoTaskAfterStop

(* Requests keep the invariant. *)
LEMMA RequestKeeps ==
  ASSUME IInv, WritesNameUser, NEW r \in Requests, RefreshRequest(r) \/ RequestSteps(r)
  PROVE  IInv'
<1>1. CASE OnBan(r)
  <2>1. req[r].uid \in Uids /\ bans \in Rows
    BY <1>1 DEF OnBan, WritesNameUser, IInv, CoreType
  <2>2. (bans \in Rows)' /\ Shown(bans) \cup {req[r].uid} \subseteq Shown(bans')
    BY <1>1, <2>1 DEF OnBan, Rows, Row, Shown
  <2>3. (view \in [Browsers -> Rows])' /\ ViewsWithinCache'
    BY <1>1, <2>1, <2>2, AddedKeeps DEF OnBan, Row
  <2>4. QED
    BY <1>1, <2>2, <2>3 DEF OnBan, IInv, CoreType, NoTaskAfterStop
<1>2. CASE OnUnban(r)
  <2>1. req[r].uid \in Uids /\ bans \in Rows
    BY <1>2 DEF OnUnban, WritesNameUser, IInv, CoreType
  <2>2. (bans \in Rows)' /\ Shown(bans) \ {req[r].uid} \subseteq Shown(bans')
    BY <1>2, <2>1 DEF OnUnban, Rows, Row, Shown
  <2>3. (view \in [Browsers -> Rows])' /\ ViewsWithinCache'
    BY <1>2, <2>1, <2>2, RemovedKeeps DEF OnUnban
  <2>4. QED
    BY <1>2, <2>2, <2>3 DEF OnUnban, IInv, CoreType, NoTaskAfterStop
<1>3. CASE RequestApplies(r)
  BY <1>3, ReplaceKeeps, RefreshedType DEF RequestApplies, IInv, CoreType
<1>4. CASE RefreshRequest(r) \/ BilibiliWrites(r) \/ WriteFails(r) \/ NoManager(r)
             \/ RequestReads(r)
  BY <1>4, StutterKeeps DEF RefreshRequest, BilibiliWrites, WriteFails, NoManager,
       RequestReads, coreVars, manager
<1>5. QED
  BY <1>1, <1>2, <1>3, <1>4 DEF RequestSteps

(* Connecting and disconnecting browsers keep it, and so does start(). *)
LEMMA RouteKeeps ==
  ASSUME IInv, NEW b \in Browsers,
         Connect(b) \/ ConnectStarts(b) \/ StartSteps(b) \/ Disconnect(b)
  PROVE  IInv'
<1>1. CASE Connect(b)
  BY <1>1, SubscribeKeeps DEF Connect, IInv, CoreType, NoTaskAfterStop
<1>2. CASE ConnectStarts(b) \/ StartReads(b)
  BY <1>2, StutterKeeps DEF ConnectStarts, StartReads, coreVars, manager
<1>3. CASE StartApplies(b)
  <2> DEFINE rows == [u \in Uids |-> IF u \in got THEN "confirmed" ELSE "absent"]
  <2>1. rows \in Rows
    BY DEF Rows, Row
  <2>2. QED
    BY <1>3, <2>1, ReplaceKeeps DEF StartApplies
<1>4. CASE StartEnds(b)
  <2>1. (recon \in ReconTask)' /\ NoTaskAfterStop'
    BY <1>4 DEF StartEnds, Idle, ReconTask, NoTaskAfterStop, IInv, CoreType
  <2>2. QED
    BY <1>4, <2>1, SubscribeKeeps DEF StartEnds, IInv, CoreType
<1>5. CASE Disconnect(b)
  BY <1>5 DEF Disconnect, IInv, CoreType, ViewsWithinCache, NoTaskAfterStop
<1>6. QED
  BY <1>1, <1>2, <1>3, <1>4, <1>5 DEF StartSteps

(* The reconcile task keeps it. *)
LEMMA ReconcileKeeps == ASSUME IInv, ReconcileSteps PROVE IInv'
<1>1. CASE ReconcileTick \/ ReconcileReads
  <2>1. (recon \in ReconTask)' /\ ~stopped
    <3>1. recon \in ReconTask /\ ~stopped
      BY <1>1 DEF ReconcileTick, ReconcileReads, IInv, CoreType, NoTaskAfterStop
    <3>2. Idle("reading") \in ReconTask /\ Idle("sleeping") \in ReconTask
      BY DEF Idle, ReconTask
    <3>3. \A list \in SUBSET Uids :
            [recon EXCEPT !.pc = "read", !.list = list] \in ReconTask
      BY <3>1 DEF ReconTask
    <3>4. QED
      BY <1>1, <3>1, <3>2, <3>3 DEF ReconcileTick, ReconcileReads
  <2>2. UNCHANGED <<bans, view, subs, stopped>>
    BY <1>1 DEF ReconcileTick, ReconcileReads, manager
  <2>3. QED
    BY <2>1, <2>2 DEF IInv, CoreType, ViewsWithinCache, NoTaskAfterStop
<1>2. CASE ReconcileDiffs
  <2>1. recon.list \in SUBSET Uids
    BY DEF IInv, CoreType, ReconTask
  <2>2. recon.list \ Shown(bans) \in SUBSET Uids /\ Confirmed(bans) \ recon.list \in SUBSET Uids
    BY <2>1 DEF Confirmed
  <2>3. QED
    BY <1>2, <2>1, <2>2, SegmentKeeps DEF ReconcileDiffs
<1>3. CASE ReconcileContinues
  <2>1. /\ recon.todo \in SUBSET Uids
        /\ recon.added \in SUBSET Uids
        /\ recon.removed \in SUBSET Uids
    BY DEF IInv, CoreType, ReconTask
  <2>2. QED
    BY <1>3, <2>1, SegmentKeeps DEF ReconcileContinues
<1>4. QED
  BY <1>1, <1>2, <1>3 DEF ReconcileSteps

(* The initial state satisfies both invariants. *)
LEMMA InitIInv == Init => IInv /\ WritesNameUser
<1> SUFFICES ASSUME Init PROVE IInv /\ WritesNameUser
  OBVIOUS
<1>1. NoRows \in Rows
  BY DEF NoRows, Rows, Row
<1>2. bans \in Rows /\ view \in [Browsers -> Rows] /\ subs = {} /\ stopped = FALSE
  BY <1>1 DEF Init
<1>3. recon \in ReconTask
  BY DEF Init, Idle, ReconTask
<1>4. IInv
  BY <1>2, <1>3 DEF IInv, CoreType, ViewsWithinCache, NoTaskAfterStop
<1>5. WritesNameUser
  BY DEF Init, WritesNameUser, RequestPCs
<1>6. QED
  BY <1>4, <1>5

(* Every step keeps the invariant. *)
LEMMA NextIInv == IInv /\ WritesNameUser /\ [Next]_vars => IInv'
<1> SUFFICES ASSUME IInv, WritesNameUser, [Next]_vars PROVE IInv'
  OBVIOUS
<1>1. ASSUME NEW u \in Uids, OutOfBandBan(u) \/ OutOfBandUnban(u) \/ ListCatchesUp(u)
      PROVE  IInv'
  BY <1>1, StutterKeeps DEF OutOfBandBan, OutOfBandUnban, ListCatchesUp, coreVars, manager
<1>2. ASSUME NEW r \in Requests, NEW u \in Uids, PostBan(r, u) \/ DeleteBan(r, u)
      PROVE  IInv'
  BY <1>2, StutterKeeps DEF PostBan, DeleteBan, coreVars, manager
<1>3. CASE Stop
  BY <1>3 DEF Stop, IInv, CoreType, ViewsWithinCache, NoTaskAfterStop, Idle, ReconTask,
       Rows, Row, NoRows
<1>4. CASE UNCHANGED vars
  BY <1>4, StutterKeeps DEF vars, coreVars, manager
<1>5. QED
  BY <1>1, <1>2, <1>3, <1>4, RequestKeeps, RouteKeeps, ReconcileKeeps DEF Next

(* Whatever interleaving of posts, unbans, manual refreshes, reconcile     *)
(* segments, joins and stops: a subscribed browser shows only rows that    *)
(* BanListManager._bans still holds.                                       *)
THEOREM ViewsCorrect == Spec => []ViewsWithinCache
<1>1. IInv => ViewsWithinCache
  BY DEF IInv
<1>2. QED
  BY InitIInv, NextIInv, NextRequests, <1>1, PTL DEF Spec

(* No reconcile task survives BanListManager.stop(), not even one created  *)
(* by a start() that was waiting for Bilibili when stop() ran.             *)
THEOREM StopCorrect == Spec => []NoTaskAfterStop
<1>1. IInv => NoTaskAfterStop
  BY DEF IInv
<1>2. QED
  BY InitIInv, NextIInv, NextRequests, <1>1, PTL DEF Spec

=============================================================================
