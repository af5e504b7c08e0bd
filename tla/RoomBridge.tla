----------------------------- MODULE RoomBridge ------------------------------
(***************************************************************************)
(* The fan-out of one room's events to the browsers: RoomBridge            *)
(* (room/bridge.py), the WebSocket route that registers browsers with it   *)
(* (ws_rooms_route) and the end of the room as stop_room_route brings it   *)
(* about (RoomSession.disconnect, then RoomBridge.close).                  *)
(*                                                                         *)
(* The critical sections under _register_lock contain no await, so each is *)
(* one step.  What interleaves is: upstream events, one sender task per    *)
(* browser, the browsers' routes, scheduled closes and the shutdown.       *)
(***************************************************************************)
EXTENDS Integers, Sequences, FiniteSets

CONSTANTS
  Clients,        \* browsers (WebSocket connections)
  ScIds,          \* ids of super chats (paid messages)
  QueueMaxSize,   \* _client_queue_maxsize
  MaxHistory,     \* _MAX_HISTORY
  MaxSnapshot,    \* _MAX_SNAPSHOT
  MaxEvents       \* bound: events of the room

ASSUME BridgeAssumption ==
  /\ QueueMaxSize \in Nat \ {0}
  /\ MaxHistory \in Nat \ {0}
  /\ MaxSnapshot \in 1..MaxHistory
  /\ MaxEvents \in Nat

VARIABLES
  phase,      \* "open", "closing" (inside close()) or "closed"
  history,    \* self._history
  active,     \* self._active_super_chats, in dict order
  expired,    \* super chats whose end_ts has passed
  attached,   \* self._clients (the keys of _client_queues, _sender_tasks)
  queue,      \* each client's queue; its sender keeps it after a detach
  capacity,   \* each queue's maxsize
  sender,     \* each client's sender task
  sending,    \* the payload in send_json, as a sequence of length <= 1
  sock,       \* each client's socket
  route,      \* each client's ws_rooms_route
  closes,     \* clients whose _close_ws is scheduled or awaited by close()
  cleanup,    \* clients whose sender close() waits for
  eventCount, \* events so far
  sent,       \* what each client was sent
  expected,   \* replay at registration plus every later event
  live        \* super chats announced and not deleted

bridge == <<phase, history, active>>
perClient == <<attached, queue, capacity, sender, sending, sock, route, sent, expected>>
vars == <<bridge, expired, perClient, closes, cleanup, eventCount, live>>

None == [n |-> 0, kind |-> "none", ids |-> {}]

Events ==
  [n : Nat, kind : {"chat", "status"}, ids : {{}}]
    \cup [n : Nat, kind : {"sc"}, ids : {{i} : i \in ScIds}]
    \cup [n : Nat, kind : {"del"}, ids : SUBSET ScIds \ {{}}]

-----------------------------------------------------------------------------
(* Replay state. *)

LastN(s, n) == IF Len(s) <= n THEN s ELSE SubSeq(s, Len(s) - n + 1, Len(s))

(* The places of s that hold none of the super chats of S, and the k-th of *)
(* some places K.                                                          *)
Kept(s, S) == {i \in DOMAIN s : s[i].ids \cap S = {}}

Nth(K, k) == CHOOSE i \in K : Cardinality({j \in K : j <= i}) = k

(* Without the super chats of S, in the same order. *)
Without(s, S) == [k \in 1..Cardinality(Kept(s, S)) |-> s[Nth(Kept(s, S), k)]]

IdsOf(s) == UNION {s[i].ids : i \in DOMAIN s}

ScIdsOf(s) == UNION {s[i].ids : i \in {j \in DOMAIN s : s[j].kind = "sc"}}

(* _prune_expired_super_chats *)
Pruned(a) == Without(a, expired)

(* dict assignment: an existing key keeps its place. *)
Upsert(a, e) ==
  IF e.ids \subseteq IdsOf(a)
  THEN [i \in DOMAIN a |-> IF a[i].ids = e.ids THEN e ELSE a[i]]
  ELSE Append(a, e)

(* Step 1 of _on_event. *)
ActiveAfter(e) ==
  CASE e.kind = "sc" /\ e.ids \cap expired = {} -> Upsert(Pruned(active), e)
    [] e.kind = "del"                           -> Without(Pruned(active), e.ids)
    [] OTHER                                    -> Pruned(active)

(* _replay_snapshot: pinned super chats that left the window, then the     *)
(* window of recent events.                                                *)
HistorySnapshot == LastN(history, MaxSnapshot)

(* Faulty variant: only the window is replayed. *)
WindowOnly == HistorySnapshot

ReplaySnapshot ==
  Without(Pruned(active), ScIdsOf(HistorySnapshot)) \o HistorySnapshot

-----------------------------------------------------------------------------
(* Upstream events. *)

(* Faulty variant: the queue is drained, no sentinel is left. *)
DrainedOnly(q, S) == [c \in Clients |-> IF c \in S THEN <<>> ELSE q[c]]

(* _signal_sender_stop: drain the queue, leave the sentinel. *)
Signalled(q, S) == [c \in Clients |-> IF c \in S THEN <<None>> ELSE q[c]]

(* _on_event, called by RoomSession._broadcast: replay state first, then   *)
(* one put_nowait per client; a client with a full queue is dropped.       *)
OnEvent(kind, ids) ==
  LET e == [n |-> eventCount + 1, kind |-> kind, ids |-> ids]
      slow == {c \in attached : Len(queue[c]) >= capacity[c]}
      quick == attached \ slow
      put == [c \in Clients |-> IF c \in quick THEN Append(queue[c], e) ELSE queue[c]]
  IN
  /\ phase = "open"
  /\ eventCount < MaxEvents
  /\ eventCount' = eventCount + 1
  /\ active' = ActiveAfter(e)
  /\ history' = LastN(Append(history, e), MaxHistory)
  /\ queue' = Signalled(put, slow)
  /\ attached' = quick
  /\ closes' = closes \cup slow
  /\ cleanup' = cleanup \cup slow
  /\ expected' = [c \in Clients |-> IF c \in attached THEN Append(expected[c], e)
                                                      ELSE expected[c]]
  /\ live' = CASE kind = "sc" -> live \cup ids
               [] kind = "del" -> live \ ids
               [] OTHER -> live
  /\ UNCHANGED <<phase, expired, capacity, sender, sending, sock, route, sent>>

ChatEvent == OnEvent("chat", {})
SuperChatArrives(i) == OnEvent("sc", {i})
SuperChatDeleted(S) == OnEvent("del", S)

(* A super chat's end_ts passes. *)
SuperChatExpires(i) ==
  /\ phase = "open"
  /\ i \in ScIds \ expired
  /\ expired' = expired \cup {i}
  /\ UNCHANGED <<bridge, perClient, closes, cleanup, eventCount, live>>

-----------------------------------------------------------------------------
(* Registration: ws_rooms_route up to register_ws. *)

(* Faulty variant: the client is attached without the replay. *)
RegisterWithoutReplay(c) ==
  /\ phase = "open"
  /\ route[c] = "none"
  /\ route' = [route EXCEPT ![c] = "serving"]
  /\ sock' = [sock EXCEPT ![c] = "open"]
  /\ active' = Pruned(active)
  /\ attached' = attached \cup {c}
  /\ expected' = [expected EXCEPT ![c] = ReplaySnapshot]
  /\ sender' = [sender EXCEPT ![c] = "ready"]
  /\ UNCHANGED <<phase, history, expired, queue, capacity, sending, sent,
                 closes, cleanup, eventCount, live>>

Register(c) ==
  LET snapshot == ReplaySnapshot IN
  /\ phase = "open"
  /\ route[c] = "none"
  /\ route' = [route EXCEPT ![c] = "serving"]
  /\ sock' = [sock EXCEPT ![c] = "open"]
  /\ active' = Pruned(active)
  /\ attached' = attached \cup {c}
  /\ capacity' = [capacity EXCEPT ![c] =
                    IF QueueMaxSize >= Len(snapshot) + 1
                    THEN QueueMaxSize ELSE Len(snapshot) + 1]
  /\ queue' = [queue EXCEPT ![c] = snapshot]
  /\ expected' = [expected EXCEPT ![c] = snapshot]
  /\ sender' = [sender EXCEPT ![c] = "ready"]
  /\ UNCHANGED <<phase, history, expired, sending, sent, closes, cleanup,
                 eventCount, live>>

(* The room is being stopped (room_id is None) or gone: the route answers  *)
(* with an error message and closes.                                       *)
RegisterTooLate(c) ==
  /\ phase # "open"
  /\ route[c] = "none"
  /\ route' = [route EXCEPT ![c] = "done"]
  /\ sock' = [sock EXCEPT ![c] = "closed"]
  /\ UNCHANGED <<bridge, expired, attached, queue, capacity, sender, sending,
                 sent, expected, closes, cleanup, eventCount, live>>

(* The browser goes away. *)
ClientLeaves(c) ==
  /\ sock[c] = "open"
  /\ sock' = [sock EXCEPT ![c] = "closed"]
  /\ UNCHANGED <<bridge, expired, attached, queue, capacity, sender, sending,
                 route, sent, expected, closes, cleanup, eventCount, live>>

(* receive_text raised WebSocketDisconnect: unregister_ws detaches the     *)
(* client and, if that popped a sender, waits for it.                      *)
RouteUnregisters(c) ==
  /\ route[c] = "serving"
  /\ sock[c] = "closed"
  /\ IF c \in attached
     THEN /\ attached' = attached \ {c}
          /\ queue' = Signalled(queue, {c})
          /\ route' = [route EXCEPT ![c] = "draining"]
     ELSE /\ route' = [route EXCEPT ![c] = "done"]
          /\ UNCHANGED <<attached, queue>>
  /\ UNCHANGED <<bridge, expired, capacity, sender, sending, sock, sent,
                 expected, closes, cleanup, eventCount, live>>

RouteEnds(c) ==
  /\ route[c] = "draining"
  /\ sender[c] = "done"
  /\ route' = [route EXCEPT ![c] = "done"]
  /\ UNCHANGED <<bridge, expired, attached, queue, capacity, sender, sending,
                 sock, sent, expected, closes, cleanup, eventCount, live>>

-----------------------------------------------------------------------------
(* _client_sender *)

(* queue.get() returns: the sentinel ends the task, a payload is sent.     *)
SenderTakes(c) ==
  /\ sender[c] = "ready"
  /\ queue[c] # <<>>
  /\ queue' = [queue EXCEPT ![c] = Tail(@)]
  /\ IF Head(queue[c]) = None
     THEN /\ sender' = [sender EXCEPT ![c] = "done"]
          /\ UNCHANGED sending
     ELSE /\ sender' = [sender EXCEPT ![c] = "sending"]
          /\ sending' = [sending EXCEPT ![c] = <<Head(queue[c])>>]
  /\ UNCHANGED <<bridge, expired, attached, capacity, sock, route, sent,
                 expected, closes, cleanup, eventCount, live>>

SendCompletes(c) ==
  /\ sender[c] = "sending"
  /\ sock[c] = "open"
  /\ sent' = [sent EXCEPT ![c] = @ \o sending[c]]
  /\ sending' = [sending EXCEPT ![c] = <<>>]
  /\ sender' = [sender EXCEPT ![c] = "ready"]
  /\ UNCHANGED <<bridge, expired, attached, queue, capacity, sock, route,
                 expected, closes, cleanup, eventCount, live>>

(* send_json raised or took longer than _send_timeout: the sender detaches *)
(* its own client (a no-op if it already is) and closes the socket.        *)
SendFails(c) ==
  /\ sender[c] = "sending"
  /\ sending' = [sending EXCEPT ![c] = <<>>]
  /\ sender' = [sender EXCEPT ![c] = "closing"]
  /\ attached' = attached \ {c}
  /\ UNCHANGED <<bridge, expired, queue, capacity, sock, route, sent,
                 expected, closes, cleanup, eventCount, live>>

(* Faulty variant: the sender ends and leaves its socket open. *)
SenderLeavesSocket(c) ==
  /\ sender[c] = "closing"
  /\ sender' = [sender EXCEPT ![c] = "done"]
  /\ UNCHANGED <<bridge, expired, attached, queue, capacity, sending, sock,
                 route, sent, expected, closes, cleanup, eventCount, live>>

SenderClosesSocket(c) ==
  /\ sender[c] = "closing"
  /\ sender' = [sender EXCEPT ![c] = "done"]
  /\ sock' = [sock EXCEPT ![c] = "closed"]
  /\ UNCHANGED <<bridge, expired, attached, queue, capacity, sending, route,
                 sent, expected, closes, cleanup, eventCount, live>>

(* _close_ws of a dropped client, or of one that close() closes. *)
SocketCloses(c) ==
  /\ c \in closes
  /\ closes' = closes \ {c}
  /\ sock' = [sock EXCEPT ![c] = "closed"]
  /\ UNCHANGED <<bridge, expired, attached, queue, capacity, sender, sending,
                 route, sent, expected, cleanup, eventCount, live>>

-----------------------------------------------------------------------------
(* stop_room_route, from the end of DanmakuClient.stop() on.  disconnect() *)
(* broadcasts RoomStatusEvent("disconnected") through _on_event, and       *)
(* close() detaches everybody, drains every queue and leaves the sentinel; *)
(* no await in between yields to another task.                             *)
StopRoom ==
  LET e == [n |-> eventCount + 1, kind |-> "status", ids |-> {}] IN
  /\ phase = "open"
  /\ phase' = "closing"
  /\ eventCount' = eventCount + 1
  /\ active' = ActiveAfter(e)
  /\ history' = LastN(Append(history, e), MaxHistory)
  /\ expected' = [c \in Clients |-> IF c \in attached THEN Append(expected[c], e)
                                                      ELSE expected[c]]
  /\ queue' = Signalled(queue, attached)
  /\ closes' = closes \cup attached
  /\ cleanup' = cleanup \cup attached
  /\ attached' = {}
  /\ UNCHANGED <<expired, capacity, sender, sending, sock, route, sent, live>>

(* Faulty variant: close() returns without awaiting anything. *)
CloseReturnsAtOnce ==
  /\ phase = "closing"
  /\ phase' = "closed"
  /\ UNCHANGED <<history, active, expired, perClient, closes, cleanup,
                 eventCount, live>>

(* close() has awaited its closes and senders. *)
CloseReturns ==
  /\ phase = "closing"
  /\ closes = {}
  /\ \A c \in cleanup : sender[c] = "done"
  /\ phase' = "closed"
  /\ UNCHANGED <<history, active, expired, perClient, closes, cleanup,
                 eventCount, live>>

-----------------------------------------------------------------------------
(* The bridge starts from the super chats that were active on connect      *)
(* (RoomSession.initial_super_chats), one per id.                          *)
Init ==
  /\ phase = "open"
  /\ history = <<>>
  /\ \E s \in {<<>>} \cup {<<[n |-> 0, kind |-> "sc", ids |-> {i}]>> : i \in ScIds} :
       /\ active = s
       /\ live = IdsOf(s)
  /\ expired = {}
  /\ attached = {}
  /\ queue = [c \in Clients |-> <<>>]
  /\ capacity = [c \in Clients |-> QueueMaxSize]
  /\ sender = [c \in Clients |-> "none"]
  /\ sending = [c \in Clients |-> <<>>]
  /\ sock = [c \in Clients |-> "none"]
  /\ route = [c \in Clients |-> "none"]
  /\ closes = {}
  /\ cleanup = {}
  /\ eventCount = 0
  /\ sent = [c \in Clients |-> <<>>]
  /\ expected = [c \in Clients |-> <<>>]

SenderSteps(c) ==
  SenderTakes(c) \/ SendCompletes(c) \/ SendFails(c) \/ SenderClosesSocket(c)

ClientSteps(c) ==
  \/ Register(c) \/ RegisterTooLate(c) \/ ClientLeaves(c)
  \/ RouteUnregisters(c) \/ RouteEnds(c)
  \/ SenderSteps(c) \/ SocketCloses(c)

Next ==
  \/ ChatEvent
  \/ \E i \in ScIds : SuperChatArrives(i) \/ SuperChatExpires(i)
  \/ \E S \in SUBSET ScIds \ {{}} : SuperChatDeleted(S)
  \/ \E c \in Clients : ClientSteps(c)
  \/ StopRoom
  \/ CloseReturns

Spec == Init /\ [][Next]_vars

(* Sends and closes are bounded by timeouts and the event loop runs what   *)
(* is ready; browsers and the upstream owe nothing.                        *)
FairSpec ==
  /\ Spec
  /\ WF_vars(CloseReturns)
  /\ \A c \in Clients :
       WF_vars(SenderSteps(c)) /\ WF_vars(SocketCloses(c))
         /\ WF_vars(RouteUnregisters(c)) /\ WF_vars(RouteEnds(c))

-----------------------------------------------------------------------------
(* Properties. *)

(* Type invariant of the bridge, the tasks and the routes. *)
TypeOK ==
  /\ phase \in {"open", "closing", "closed"}
  /\ history \in Seq(Events) /\ Len(history) <= MaxHistory
  /\ active \in Seq(Events)
  /\ expired \subseteq ScIds /\ live \subseteq ScIds
  /\ attached \subseteq Clients
  /\ closes \subseteq Clients /\ cleanup \subseteq Clients
  /\ queue \in [Clients -> Seq(Events \cup {None})]
  /\ capacity \in [Clients -> Nat \ {0}]
  /\ sender \in [Clients -> {"none", "ready", "sending", "closing", "done"}]
  /\ sending \in [Clients -> Seq(Events)]
  /\ sock \in [Clients -> {"none", "open", "closed"}]
  /\ route \in [Clients -> {"none", "serving", "draining", "done"}]
  /\ eventCount \in 0..(MaxEvents + 1)
  /\ sent \in [Clients -> Seq(Events)]
  /\ expected \in [Clients -> Seq(Events)]

IsPrefixOf(s, t) == Len(s) <= Len(t) /\ s = SubSeq(t, 1, Len(s))

(* bridge.py:348: "a new peer receives each event exactly once, either     *)
(* from history or from its live queue": while attached, sent + in flight  *)
(* + queued is precisely the replay followed by every later event, and     *)
(* after a drop what was sent is a prefix of it: no gap, no duplicate, no  *)
(* reordering.                                                             *)
EachEventExactlyOnce ==
  \A c \in Clients :
    /\ c \in attached => expected[c] = sent[c] \o sending[c] \o queue[c]
    /\ IsPrefixOf(sent[c] \o sending[c], expected[c])

(* The super chats a browser shows after applying a sequence of events.    *)
Shown(s) ==
  {i \in ScIds :
     \E j \in DOMAIN s :
       /\ s[j].kind = "sc" /\ i \in s[j].ids
       /\ \A k \in (j + 1)..Len(s) : ~(s[k].kind = "del" /\ i \in s[k].ids)}

(* A browser that joins now would show exactly the super chats that were   *)
(* announced, not deleted and have not expired, however many chat messages *)
(* have pushed them out of the replay window.                              *)
ReplayShowsLiveSuperChats ==
  Shown(ReplaySnapshot) \ expired = live \ expired

(* Once close() has returned, no sender, route or late close that was      *)
(* under way delivers anything more, and nobody registers again.           *)
QuietAfterClose ==
  [][phase = "closed" => sent' = sent /\ attached' = {}]_vars

(* Every client that leaves the fan-out (slow, failed, stopped) has its    *)
(* socket closed, its sender ended and its route finished.                 *)
DetachedClientsEnd ==
  \A c \in Clients :
    (route[c] = "serving" /\ c \notin attached)
      ~> (sock[c] = "closed" /\ sender[c] = "done" /\ route[c] = "done")

(* The shutdown of a room completes. *)
CloseTerminates == phase = "closing" ~> phase = "closed"

=============================================================================
