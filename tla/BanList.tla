------------------------------- MODULE BanList -------------------------------
(***************************************************************************)
(* The ban list of the active room: BanListManager (room/banlist.py), the  *)
(* HTTP and WebSocket routes that drive it (api/ban_routes.py) and the row *)
(* store of each browser (frontend stores/ban.ts), against Bilibili's own  *)
(* list, which other moderators change and which lags behind writes.       *)
(*                                                                         *)
(* One manager, one room: stop() ends the manager's life (the next room    *)
(* gets a new one).  A row is reduced to whether it is pending (a          *)
(* successful write not yet seen in Bilibili's list, hence no block id) or *)
(* confirmed.  A broadcast reaches the browsers in the order in which      *)
(* broadcasts are begun, so it is one step; the task that broadcasts may   *)
(* be suspended after it.                                                  *)
(***************************************************************************)
EXTENDS Integers, FiniteSets

CONSTANTS
  Uids,       \* users that may be banned
  Browsers,   \* connections to ws_banlist_route
  Requests,   \* bound: HTTP requests served
  MaxWrites,  \* bound: changes made through Bilibili's own pages
  MaxFaults   \* bound: list reads that fail or are cut short

ASSUME BanListAssumption ==
  /\ MaxWrites \in Nat
  /\ MaxFaults \in Nat

VARIABLES
  banned,   \* Bilibili: the users who are banned
  listed,   \* Bilibili: the users its list endpoint returns
  writes,   \* changes made through Bilibili's pages so far
  faults,   \* faulty list reads so far
  started,  \* _room_id is set
  stopped,  \* stop() was called
  bans,     \* self._bans
  subs,     \* self._subscribers
  recon,    \* the _reconcile task and its locals
  req,      \* the HTTP requests
  route,    \* each browser's ws_banlist_route
  got,      \* the list read by the start() that a route is in
  view      \* the rows each browser shows

bilibili == <<banned, listed, writes>>
manager == <<started, stopped, bans, subs>>
vars == <<bilibili, faults, manager, recon, req, route, got, view>>

Row == {"absent", "pending", "confirmed"}
Rows == [Uids -> Row]
NoRows == [u \in Uids |-> "absent"]

Shown(rows) == {u \in Uids : rows[u] # "absent"}
Confirmed(rows) == {u \in Uids : rows[u] = "confirmed"}
Pending(rows) == {u \in Uids : rows[u] = "pending"}

-----------------------------------------------------------------------------
(* Messages and what a browser does with them. *)

addBan(rows, u, row) ==
  [rows EXCEPT ![u] = IF @ = "confirmed" THEN "confirmed" ELSE row]

removeBan(rows, u) == [rows EXCEPT ![u] = "absent"]

(* _broadcast: every subscriber's rows become f of them. *)
BroadcastTo(S, f(_)) ==
  view' = [b \in Browsers |-> IF b \in S THEN f(view[b]) ELSE view[b]]

BroadcastAdded(u, row) ==
  LET f(rows) == addBan(rows, u, row) IN BroadcastTo(subs, f)

BroadcastRemoved(u) ==
  LET f(rows) == removeBan(rows, u) IN BroadcastTo(subs, f)

(* "snapshot": applySnapshot replaces the rows. *)
BroadcastSnapshot(rows) ==
  LET f(old) == rows IN BroadcastTo(subs, f)

-----------------------------------------------------------------------------
(* Bilibili. *)

OutOfBandBan(u) ==
  /\ writes < MaxWrites
  /\ u \notin banned
  /\ banned' = banned \cup {u}
  /\ writes' = writes + 1
  /\ UNCHANGED <<listed, faults, manager, recon, req, route, got, view>>

OutOfBandUnban(u) ==
  /\ writes < MaxWrites
  /\ u \in banned
  /\ banned' = banned \ {u}
  /\ writes' = writes + 1
  /\ UNCHANGED <<listed, faults, manager, recon, req, route, got, view>>

(* The list endpoint catches up with the writes on u. *)
ListCatchesUp(u) ==
  /\ (u \in banned) # (u \in listed)
  /\ listed' = IF u \in banned THEN listed \cup {u} ELSE listed \ {u}
  /\ UNCHANGED <<banned, writes, faults, manager, recon, req, route, got, view>>

(* What get_ban_list returns: the list, or the pages collected before an   *)
(* empty or unreadable page (or before is_running turned false) cut it.    *)
GetBanList(result) ==
  \/ result = listed /\ UNCHANGED faults
  \/ /\ faults < MaxFaults
     /\ result \subseteq listed /\ result # listed
     /\ faults' = faults + 1

GetBanListFails == faults < MaxFaults /\ faults' = faults + 1

-----------------------------------------------------------------------------
(* refresh() *)

(* The list replaces the cache; pending rows it lacks survive.             *)
Refreshed(rows, entries) ==
  [u \in Uids |-> CASE u \in entries         -> "confirmed"
                    [] rows[u] = "pending"   -> "pending"
                    [] OTHER                 -> "absent"]

(* Faulty variant: no snapshot is pushed. *)
ReplaceQuietly(rows) == bans' = rows /\ UNCHANGED view

(* The tail of refresh(): swap the cache, push a snapshot. *)
Replace(rows) == bans' = rows /\ BroadcastSnapshot(rows)

-----------------------------------------------------------------------------
(* post_ban_route, delete_ban_route, get_ban_list_route?refresh=1. *)

ManagerActive == started /\ ~stopped

Goes(r, pc) == req' = [req EXCEPT ![r].pc = pc]

(* A request arrives.  The browser only offers to unban a row that carries *)
(* a block id.                                                             *)
PostBan(r, u) ==
  /\ req[r].pc = "idle"
  /\ req' = [req EXCEPT ![r] = [pc |-> "banning", uid |-> u, list |-> {}]]
  /\ UNCHANGED <<bilibili, faults, manager, recon, route, got, view>>

DeleteBan(r, u) ==
  /\ req[r].pc = "idle"
  /\ \E b \in Browsers : view[b][u] = "confirmed"
  /\ req' = [req EXCEPT ![r] = [pc |-> "unbanning", uid |-> u, list |-> {}]]
  /\ UNCHANGED <<bilibili, faults, manager, recon, route, got, view>>

RefreshRequest(r) ==
  /\ req[r].pc = "idle"
  /\ ManagerActive
  /\ Goes(r, "reading")
  /\ UNCHANGED <<bilibili, faults, manager, recon, route, got, view>>

(* Bilibili carries out the write; the reply is under way. *)
BilibiliWrites(r) ==
  /\ \/ /\ req[r].pc = "banning"
        /\ banned' = banned \cup {req[r].uid}
        /\ Goes(r, "banned")
     \/ /\ req[r].pc = "unbanning"
        /\ banned' = banned \ {req[r].uid}
        /\ Goes(r, "unbanned")
  /\ UNCHANGED <<listed, writes, faults, manager, recon, route, got, view>>

(* The write is refused or the request fails: an HTTP error. *)
WriteFails(r) ==
  /\ req[r].pc \in {"banning", "unbanning"}
  /\ Goes(r, "done")
  /\ UNCHANGED <<bilibili, faults, manager, recon, route, got, view>>

(* The ban succeeded: on_ban, with a pending row, then refresh(). *)
OnBan(r) ==
  LET u == req[r].uid IN
  /\ req[r].pc = "banned"
  /\ ManagerActive
  /\ bans' = [bans EXCEPT ![u] = "pending"]
  /\ BroadcastAdded(u, "pending")
  /\ Goes(r, "reading")
  /\ UNCHANGED <<bilibili, faults, started, stopped, subs, recon, route, got>>

OnUnban(r) ==
  LET u == req[r].uid IN
  /\ req[r].pc = "unbanned"
  /\ ManagerActive
  /\ bans' = [bans EXCEPT ![u] = "absent"]
  /\ BroadcastRemoved(u)
  /\ Goes(r, "done")
  /\ UNCHANGED <<bilibili, faults, started, stopped, subs, recon, route, got>>

NoManager(r) ==
  /\ req[r].pc \in {"banned", "unbanned"}
  /\ ~ManagerActive
  /\ Goes(r, "done")
  /\ UNCHANGED <<bilibili, faults, manager, recon, route, got, view>>

(* refresh(): Bilibili reads its list, later the reply is applied.         *)
RequestReads(r) ==
  /\ req[r].pc = "reading"
  /\ \/ \E list \in SUBSET Uids :
          /\ GetBanList(list)
          /\ req' = [req EXCEPT ![r].pc = "read", ![r].list = list]
     \/ /\ GetBanListFails
        /\ Goes(r, "done")
  /\ UNCHANGED <<bilibili, manager, recon, route, got, view>>

RequestApplies(r) ==
  /\ req[r].pc = "read"
  /\ Replace(Refreshed(bans, req[r].list))
  /\ Goes(r, "done")
  /\ UNCHANGED <<bilibili, faults, started, stopped, subs, recon, route, got>>

-----------------------------------------------------------------------------
(* ws_banlist_route and start(). *)

(* subscribe(): append the callback, send it a snapshot. *)
Subscribe(b) ==
  /\ subs' = subs \cup {b}
  /\ view' = [view EXCEPT ![b] = bans]
  /\ route' = [route EXCEPT ![b] = "subscribed"]

(* The manager has the room already: only subscribe. *)
Connect(b) ==
  /\ route[b] = "closed"
  /\ ManagerActive
  /\ Subscribe(b)
  /\ UNCHANGED <<bilibili, faults, started, stopped, bans, recon, req, got>>

(* start(): the room is set, then the list is read. *)
ConnectStarts(b) ==
  /\ route[b] = "closed"
  /\ ~started /\ ~stopped
  /\ started' = TRUE
  /\ route' = [route EXCEPT ![b] = "starting"]
  /\ UNCHANGED <<bilibili, faults, stopped, bans, subs, recon, req, got, view>>

(* An exception of the first read ends the route; _room_id stays set.      *)
StartReads(b) ==
  /\ route[b] = "starting"
  /\ \/ \E list \in SUBSET Uids :
          /\ GetBanList(list)
          /\ got' = list
          /\ route' = [route EXCEPT ![b] = "start_read"]
     \/ /\ GetBanListFails
        /\ route' = [route EXCEPT ![b] = "closed"]
        /\ UNCHANGED got
  /\ UNCHANGED <<bilibili, manager, recon, req, view>>

(* refresh(preserve_pending=False). *)
StartApplies(b) ==
  /\ route[b] = "start_read"
  /\ Replace([u \in Uids |-> IF u \in got THEN "confirmed" ELSE "absent"])
  /\ route' = [route EXCEPT ![b] = "start_applied"]
  /\ UNCHANGED <<bilibili, faults, started, stopped, subs, recon, req, got>>

Idle(pc) == [pc |-> pc, list |-> {}, todo |-> {}, added |-> {}, removed |-> {}]

(* Faulty variant: the task does not look at _room_id. *)
StartEndsRegardless(b) ==
  /\ route[b] = "start_applied"
  /\ recon' = Idle("sleeping")
  /\ Subscribe(b)
  /\ UNCHANGED <<bilibili, faults, started, stopped, bans, req, got>>

(* The reconcile task is created (after a stop() it ends at its loop       *)
(* condition) and the route subscribes.                                    *)
StartEnds(b) ==
  /\ route[b] = "start_applied"
  /\ recon' = Idle(IF stopped THEN "none" ELSE "sleeping")
  /\ Subscribe(b)
  /\ UNCHANGED <<bilibili, faults, started, stopped, bans, req, got>>

(* The browser disconnects: unsubscribe. *)
Disconnect(b) ==
  /\ route[b] = "subscribed"
  /\ route' = [route EXCEPT ![b] = "closed"]
  /\ subs' = subs \ {b}
  /\ UNCHANGED <<bilibili, faults, started, stopped, bans, recon, req, got, view>>

-----------------------------------------------------------------------------
(* _reconcile *)

ReconcileTick ==
  /\ recon.pc = "sleeping"
  /\ recon' = Idle("reading")
  /\ UNCHANGED <<bilibili, faults, manager, req, route, got, view>>

ReconcileReads ==
  /\ recon.pc = "reading"
  /\ \/ \E list \in SUBSET Uids :
          /\ GetBanList(list)
          /\ recon' = [recon EXCEPT !.pc = "read", !.list = list]
     \/ /\ GetBanListFails
        /\ recon' = Idle("sleeping")
  /\ UNCHANGED <<bilibili, manager, req, route, got, view>>

Overwrite(rows, S) == [u \in Uids |-> IF u \in S THEN "confirmed" ELSE rows[u]]

(* The loop body from one suspension to the next: entries of the list are  *)
(* written until one that is to be announced has been broadcast; after the *)
(* last entry the removed rows follow, one broadcast each.                 *)
ReconcileSegment(todo, added, removed) ==
  \/ \E u \in todo \cap added, silent \in SUBSET (todo \ added) :
       /\ bans' = Overwrite(bans, silent \cup {u})
       /\ BroadcastAdded(u, "confirmed")
       /\ recon' = [pc |-> "applying", list |-> {}, added |-> added,
                    todo |-> todo \ (silent \cup {u}), removed |-> removed]
  \/ /\ todo \cap added = {}
     /\ \E u \in removed :
          /\ bans' = [Overwrite(bans, todo) EXCEPT ![u] = "absent"]
          /\ BroadcastRemoved(u)
          /\ recon' = [pc |-> "applying", list |-> {}, added |-> {},
                       todo |-> {}, removed |-> removed \ {u}]
  \/ /\ todo \cap added = {}
     /\ removed = {}
     /\ bans' = Overwrite(bans, todo)
     /\ recon' = Idle("sleeping")
     /\ UNCHANGED view

(* Faulty variant: rows missing from the list are kept. *)
DiffsAddOnly ==
  /\ recon.pc = "read"
  /\ ReconcileSegment(recon.list, recon.list \ Shown(bans), {})
  /\ UNCHANGED <<bilibili, faults, started, stopped, subs, req, route, got>>

(* The reply is there: diff it against the cache, apply the first segment. *)
ReconcileDiffs ==
  /\ recon.pc = "read"
  /\ ReconcileSegment(recon.list,
                      recon.list \ Shown(bans),
                      Confirmed(bans) \ recon.list)
  /\ UNCHANGED <<bilibili, faults, started, stopped, subs, req, route, got>>

ReconcileContinues ==
  /\ recon.pc = "applying"
  /\ ReconcileSegment(recon.todo, recon.added, recon.removed)
  /\ UNCHANGED <<bilibili, faults, started, stopped, subs, req, route, got>>

-----------------------------------------------------------------------------
(* stop_banlist_manager: the singleton is cleared, stop() cancels the task *)
(* and forgets the rows and the subscribers.                               *)
Stop ==
  /\ ~stopped
  /\ stopped' = TRUE
  /\ started' = FALSE
  /\ recon' = Idle("none")
  /\ bans' = NoRows
  /\ subs' = {}
  /\ UNCHANGED <<bilibili, faults, req, route, got, view>>

Init ==
  /\ banned = {}
  /\ listed = {}
  /\ writes = 0
  /\ faults = 0
  /\ started = FALSE
  /\ stopped = FALSE
  /\ bans = NoRows
  /\ subs = {}
  /\ recon = Idle("none")
  /\ req = [r \in Requests |-> [pc |-> "idle", uid |-> "none", list |-> {}]]
  /\ route = [b \in Browsers |-> "closed"]
  /\ got = {}
  /\ view = [b \in Browsers |-> NoRows]

RequestSteps(r) ==
  \/ BilibiliWrites(r) \/ WriteFails(r)
  \/ OnBan(r) \/ OnUnban(r) \/ NoManager(r)
  \/ RequestReads(r) \/ RequestApplies(r)

StartSteps(b) == StartReads(b) \/ StartApplies(b) \/ StartEnds(b)

ReconcileSteps ==
  ReconcileTick \/ ReconcileReads \/ ReconcileDiffs \/ ReconcileContinues

Next ==
  \/ \E u \in Uids : OutOfBandBan(u) \/ OutOfBandUnban(u) \/ ListCatchesUp(u)
  \/ \E r \in Requests, u \in Uids : PostBan(r, u) \/ DeleteBan(r, u)
  \/ \E r \in Requests : RefreshRequest(r) \/ RequestSteps(r)
  \/ \E b \in Browsers :
       Connect(b) \/ ConnectStarts(b) \/ StartSteps(b) \/ Disconnect(b)
  \/ ReconcileSteps
  \/ Stop

Spec == Init /\ [][Next]_vars

(* HTTP calls are bounded by the client's timeout, the reconcile timer     *)
(* fires, the event loop runs what is ready, and Bilibili's list catches   *)
(* up with its writes.                                                     *)
FairSpec ==
  /\ Spec
  /\ WF_vars(ReconcileSteps)
  /\ \A u \in Uids : WF_vars(ListCatchesUp(u))
  /\ \A r \in Requests : WF_vars(RequestSteps(r))
  /\ \A b \in Browsers : WF_vars(StartSteps(b))

-----------------------------------------------------------------------------
(* Properties. *)

RequestPCs == {"idle", "banning", "unbanning", "banned", "unbanned",
               "reading", "read", "done"}

(* Type invariant of the manager, its task, the requests and the browsers. *)
TypeOK ==
  /\ banned \subseteq Uids /\ listed \subseteq Uids
  /\ writes \in 0..MaxWrites /\ faults \in 0..MaxFaults
  /\ started \in BOOLEAN /\ stopped \in BOOLEAN
  /\ bans \in Rows
  /\ subs \subseteq Browsers
  /\ recon \in [pc : {"none", "sleeping", "reading", "read", "applying"},
                list : SUBSET Uids, todo : SUBSET Uids,
                added : SUBSET Uids, removed : SUBSET Uids]
  /\ req \in [Requests -> [pc : RequestPCs, uid : Uids \cup {"none"},
                           list : SUBSET Uids]]
  /\ route \in [Browsers -> {"closed", "starting", "start_read",
                             "start_applied", "subscribed"}]
  /\ got \subseteq Uids
  /\ view \in [Browsers -> Rows]

(* A subscribed browser never shows a row that the cache has dropped:      *)
(* whatever interleaving of requests, reconcile segments and snapshots     *)
(* removed it, the removal was announced.                                  *)
ViewsWithinCache == \A b \in subs : Shown(view[b]) \subseteq Shown(bans)

(* room_routes.py:212 wants no stale task to fetch entries of the previous *)
(* room: whatever start(), tick or segment was under way when stop() came, *)
(* no reconcile task is left.                                              *)
NoTaskAfterStop == stopped => recon.pc = "none"

(* Out-of-band changes, lagging lists, failed reads, stale replies applied *)
(* late: once they cease, a started manager's confirmed rows settle on     *)
(* exactly the users Bilibili has banned.                                  *)
CacheConverges ==
  <>[](recon.pc # "none" => Confirmed(bans) = banned)

(* banlist.py:281 says _reconcile "emits ban_added / ban_removed deltas    *)
(* for any out-of-band changes": browsers settle on the rows of the cache. *)
BrowsersConverge ==
  <>[](\A b \in subs : recon.pc # "none" => Shown(view[b]) = Shown(bans))

(* ban_routes.py:423 says the route will "start it for room_id": a browser *)
(* that is subscribed has a reconcile task working for it, or one that is  *)
(* being started.                                                          *)
SubscribedMeansReconciling ==
  (subs # {} /\ ManagerActive) =>
    \/ recon.pc # "none"
    \/ \E b \in Browsers : route[b] \in {"starting", "start_read", "start_applied"}

=============================================================================
