---------------------------- MODULE RoomSession ------------------------------
(***************************************************************************)
(* RoomSession (room/session.py): connecting to a room, turning raw        *)
(* messages into events, dropping repeated chat messages, and what the     *)
(* bridge that start_room_route attaches afterwards comes to know of the   *)
(* room's super chats (paid messages).                                     *)
(*                                                                         *)
(* The client is live, and messages are dispatched, while connect() still  *)
(* awaits start() or the list of active super chats; nobody listens until  *)
(* the route has created the bridge.  From the reply to the registered     *)
(* callback no await yields, so that is one step.  Neither does one yield  *)
(* inside _on_raw_message.  The expiry of super chats is in RoomBridge.    *)
(***************************************************************************)
EXTENDS Integers, Sequences, FiniteSets

CONSTANTS
  DedupSize,   \* _dedup_size
  ChatIds,     \* dm_v2 values of chat messages
  ScIds,       \* ids of super chats
  MaxChats,    \* bound: chat messages
  MaxWire,     \* bound: messages on their way to _on_raw_message
  MaxOutages   \* bound: lost upstream connections

NoId == "no_id"

ASSUME SessionAssumption ==
  /\ DedupSize \in Nat
  /\ MaxChats \in Nat /\ MaxWire \in Nat /\ MaxOutages \in Nat
  /\ NoId \notin ChatIds

VARIABLES
  pc,        \* where the caller of connect() or disconnect() is
  status,    \* self.status
  seenIds,   \* self._seen_ids, oldest first
  seenIdSet, \* self._seen_id_set
  reply,     \* the super chats of the list reply under way
  shown,     \* the bridge's active super chats
  upstream,  \* the client's connection: "none", "up" or "down"
  wire,      \* messages received and not yet dispatched
  live,      \* super chats active on Bilibili
  bought,    \* super chats ever bought
  chats,     \* chat messages so far
  outages,   \* lost connections so far
  forwarded, \* chat ids forwarded since the window was last cleared
  missed     \* super chats with a message that no bridge could see

window == <<seenIds, seenIdSet, forwarded>>
bilibili == <<live, bought, chats>>
connection == <<upstream, outages>>
vars == <<pc, status, window, reply, shown, connection, wire, bilibili, missed>>

-----------------------------------------------------------------------------
(* Raw messages: a command as the parts around ":", whether the payload    *)
(* has the expected shape, and the ids it carries.                         *)

Raw(name, good, id, ids) ==
  [cmd |-> <<name, "4", "0">>, good |-> good, id |-> id, ids |-> ids]

NoEvent == [type |-> "none", ids |-> {}]

(* _normalize: the variant suffix is dropped; unknown commands and         *)
(* malformed payloads give None, as does a deletion without ids.           *)
normalize(raw) ==
  LET cmd == Head(raw.cmd) IN
  CASE cmd = "DANMU_MSG" /\ raw.good -> [type |-> "danmaku", ids |-> {}]
    [] cmd \in {"SUPER_CHAT_MESSAGE", "SUPER_CHAT_MESSAGE_JPN"} /\ raw.good ->
         [type |-> "sc", ids |-> raw.ids]
    [] cmd = "SUPER_CHAT_MESSAGE_DELETE" /\ raw.good /\ raw.ids # {} ->
         [type |-> "sc_delete", ids |-> raw.ids]
    [] OTHER -> NoEvent

-----------------------------------------------------------------------------
(* connect() and the bridge. *)

(* start_room_route makes a new session for every start. *)
Connect ==
  /\ pc \in {"idle", "done", "failed"}
  /\ pc' = "resolving"
  /\ status' = "disconnected"
  /\ seenIds' = <<>>
  /\ seenIdSet' = {}
  /\ forwarded' = <<>>
  /\ missed' = {}
  /\ UNCHANGED <<reply, shown, connection, wire, bilibili>>

(* The room id is resolved; without an answer the given one is used.       *)
RoomResolved ==
  /\ pc = "resolving"
  /\ pc' = "starting"
  /\ UNCHANGED <<status, window, reply, shown, connection, wire, bilibili, missed>>

(* The connect loop is authenticated; start() notices at its next poll. *)
SocketUp ==
  /\ pc = "starting"
  /\ upstream = "none"
  /\ upstream' = "up"
  /\ UNCHANGED <<pc, status, window, reply, shown, outages, wire, bilibili, missed>>

(* DanmakuClient.start() returned True; the list of active super chats is  *)
(* being fetched.                                                          *)
ClientStarts ==
  /\ pc = "starting"
  /\ upstream = "up"
  /\ pc' = "loading"
  /\ status' = "connected"
  /\ UNCHANGED <<window, reply, shown, connection, wire, bilibili, missed>>

(* start() returned False, having stopped the client, or raised            *)
(* AuthExpiredError past connect() before there was a socket.              *)
StartFails ==
  /\ pc = "starting"
  /\ pc' = "failed"
  /\ status' \in IF upstream = "none" THEN {"error", status} ELSE {"error"}
  /\ upstream' = "none"
  /\ wire' = <<>>
  /\ UNCHANGED <<window, reply, shown, outages, bilibili, missed>>

(* _load_active_super_chats: Bilibili composes its answer ... *)
ListRead ==
  /\ pc = "loading"
  /\ pc' = "loaded"
  /\ reply' = live
  /\ UNCHANGED <<status, window, shown, connection, wire, bilibili, missed>>

(* ... or the call fails or times out, which yields an empty list. *)
ListFails ==
  /\ pc = "loading"
  /\ pc' = "loaded"
  /\ reply' = {}
  /\ missed' = missed \cup live
  /\ UNCHANGED <<status, window, shown, connection, wire, bilibili>>

(* Faulty variant: the bridge is not seeded. *)
BridgeCreatedEmpty ==
  /\ pc = "loaded"
  /\ pc' = "ready"
  /\ shown' = {}
  /\ reply' = {}
  /\ UNCHANGED <<status, window, connection, wire, bilibili, missed>>

(* The reply arrives: connect() returns and RoomBridge.create seeds the    *)
(* bridge and registers its callback.                                      *)
BridgeCreated ==
  /\ pc = "loaded"
  /\ pc' = "ready"
  /\ shown' = reply
  /\ reply' = {}
  /\ UNCHANGED <<status, window, connection, wire, bilibili, missed>>

-----------------------------------------------------------------------------
(* disconnect() *)

(* DanmakuClient.stop() cancels the dispatching task at once. *)
Disconnect ==
  /\ pc = "ready"
  /\ pc' = "stopping"
  /\ upstream' = "none"
  /\ wire' = <<>>
  /\ UNCHANGED <<status, window, reply, shown, outages, bilibili, missed>>

(* stop() returned; the bridge is closed next. *)
Disconnected ==
  /\ pc = "stopping"
  /\ pc' = "done"
  /\ status' = "disconnected"
  /\ seenIds' = <<>>
  /\ seenIdSet' = {}
  /\ forwarded' = <<>>
  /\ shown' = {}
  /\ UNCHANGED <<reply, connection, wire, bilibili, missed>>

-----------------------------------------------------------------------------
(* Bilibili. *)

(* A message goes onto the wire of a live connection; during an outage it  *)
(* is lost, and so is what it said of super chats.                         *)
Sends(raw) ==
  IF upstream = "up"
  THEN /\ Len(wire) < MaxWire
       /\ wire' = Append(wire, raw)
       /\ UNCHANGED missed
  ELSE /\ missed' = IF upstream = "down" THEN missed \cup raw.ids ELSE missed
       /\ UNCHANGED wire

ChatSent(id) ==
  /\ chats < MaxChats
  /\ upstream = "up"
  /\ chats' = chats + 1
  /\ \E good \in BOOLEAN : Sends(Raw("DANMU_MSG", good, id, {}))
  /\ UNCHANGED <<pc, status, window, reply, shown, connection, live, bought>>

SuperChatBought(i) ==
  /\ i \notin bought
  /\ bought' = bought \cup {i}
  /\ live' = live \cup {i}
  /\ Sends(Raw("SUPER_CHAT_MESSAGE", TRUE, NoId, {i}))
  /\ UNCHANGED <<pc, status, window, reply, shown, connection, chats>>

(* The translated copy of a super chat follows. *)
SuperChatTranslated(i) ==
  /\ i \in live
  /\ upstream = "up"
  /\ Sends(Raw("SUPER_CHAT_MESSAGE_JPN", TRUE, NoId, {i}))
  /\ UNCHANGED <<pc, status, window, reply, shown, connection, bilibili>>

SuperChatWithdrawn(S) ==
  /\ S # {} /\ S \subseteq live
  /\ live' = live \ S
  /\ Sends(Raw("SUPER_CHAT_MESSAGE_DELETE", TRUE, NoId, S))
  /\ UNCHANGED <<pc, status, window, reply, shown, connection, bought, chats>>

(* The client's socket is lost and, unless it gives up, replaced. *)
ConnectionLost ==
  /\ upstream = "up"
  /\ outages < MaxOutages
  /\ outages' = outages + 1
  /\ upstream' = "down"
  /\ UNCHANGED <<pc, status, window, reply, shown, wire, bilibili, missed>>

Reconnected ==
  /\ upstream = "down"
  /\ upstream' = "up"
  /\ UNCHANGED <<pc, status, window, reply, shown, outages, wire, bilibili, missed>>

-----------------------------------------------------------------------------
(* _on_raw_message *)

Dispatching ==
  /\ pc \in {"starting", "loading", "loaded", "ready"}
  /\ wire # <<>>

(* _broadcast: with a bridge attached, its _on_event; with no callback the *)
(* event is gone.                                                          *)
Broadcast(e) ==
  /\ shown' = CASE pc # "ready"           -> shown
                [] e.type = "sc"          -> shown \cup e.ids
                [] e.type = "sc_delete"   -> shown \ e.ids
                [] OTHER                  -> shown
  /\ missed' = IF pc = "loaded" THEN missed \cup e.ids ELSE missed

(* Faulty variant: the evicted id stays in the set. *)
RememberLeaky(id) ==
  /\ seenIds' = Append(IF Len(seenIds) >= DedupSize THEN Tail(seenIds) ELSE seenIds, id)
  /\ seenIdSet' = seenIdSet \cup {id}

(* Faulty variant: the window is one id short. *)
RememberShort(id) ==
  LET full == Len(seenIds) + 1 >= DedupSize /\ seenIds # <<>> IN
  /\ seenIds' = Append(IF full THEN Tail(seenIds) ELSE seenIds, id)
  /\ seenIdSet' = (IF full THEN seenIdSet \ {Head(seenIds)} ELSE seenIdSet)
                    \cup {id}

(* The id enters the window, the oldest one leaves a full one. *)
Remember(id) ==
  LET full == Len(seenIds) >= DedupSize IN
  /\ seenIds' = Append(IF full THEN Tail(seenIds) ELSE seenIds, id)
  /\ seenIdSet' = (IF full THEN seenIdSet \ {Head(seenIds)} ELSE seenIdSet)
                    \cup {id}

(* An unsupported or malformed message, or a repeated chat message.        *)
MessageDropped ==
  LET raw == Head(wire) IN
  /\ Dispatching
  /\ \/ normalize(raw) = NoEvent
     \/ normalize(raw).type = "danmaku" /\ raw.id \in seenIdSet
  /\ wire' = Tail(wire)
  /\ UNCHANGED <<pc, status, window, reply, shown, connection, bilibili, missed>>

(* A chat message that is new, or has no id to tell. *)
ChatForwarded ==
  LET raw == Head(wire)
      e   == normalize(raw)
  IN
  /\ Dispatching
  /\ e.type = "danmaku"
  /\ raw.id \notin seenIdSet
  /\ IF raw.id # NoId /\ DedupSize > 0
     THEN Remember(raw.id) /\ forwarded' = Append(forwarded, raw.id)
     ELSE UNCHANGED window
  /\ Broadcast(e)
  /\ wire' = Tail(wire)
  /\ UNCHANGED <<pc, status, reply, connection, bilibili>>

SuperChatForwarded ==
  LET e == normalize(Head(wire)) IN
  /\ Dispatching
  /\ e.type \in {"sc", "sc_delete"}
  /\ Broadcast(e)
  /\ wire' = Tail(wire)
  /\ UNCHANGED <<pc, status, window, reply, connection, bilibili>>

-----------------------------------------------------------------------------
Init ==
  /\ pc = "idle"
  /\ status = "disconnected"
  /\ seenIds = <<>>
  /\ seenIdSet = {}
  /\ reply = {}
  /\ shown = {}
  /\ upstream = "none"
  /\ wire = <<>>
  /\ live = {}
  /\ bought = {}
  /\ chats = 0
  /\ outages = 0
  /\ forwarded = <<>>
  /\ missed = {}

Next ==
  \/ Connect \/ RoomResolved \/ SocketUp \/ ClientStarts \/ StartFails
  \/ ListRead \/ ListFails \/ BridgeCreated
  \/ Disconnect \/ Disconnected
  \/ \E id \in ChatIds \cup {NoId} : ChatSent(id)
  \/ \E i \in ScIds : SuperChatBought(i) \/ SuperChatTranslated(i)
  \/ \E S \in SUBSET ScIds : SuperChatWithdrawn(S)
  \/ ConnectionLost \/ Reconnected
  \/ MessageDropped \/ ChatForwarded \/ SuperChatForwarded

Spec == Init /\ [][Next]_vars

-----------------------------------------------------------------------------
(* Properties. *)

CommandParts == {"DANMU_MSG", "SUPER_CHAT_MESSAGE", "SUPER_CHAT_MESSAGE_JPN",
                 "SUPER_CHAT_MESSAGE_DELETE", "4", "0"}

RawMessages == [cmd : Seq(CommandParts), good : BOOLEAN, id : ChatIds \cup {NoId},
                ids : SUBSET ScIds]

(* Type invariant of the session, the wire and Bilibili's side. *)
TypeOK ==
  /\ pc \in {"idle", "resolving", "starting", "loading", "loaded", "ready",
             "stopping", "done", "failed"}
  /\ status \in {"disconnected", "connected", "error"}
  /\ seenIds \in Seq(ChatIds)
  /\ seenIdSet \subseteq ChatIds
  /\ forwarded \in Seq(ChatIds)
  /\ reply \subseteq ScIds /\ shown \subseteq ScIds /\ missed \subseteq ScIds
  /\ upstream \in {"none", "up", "down"}
  /\ wire \in Seq(RawMessages)
  /\ live \subseteq bought /\ bought \subseteq ScIds
  /\ chats \in 0..MaxChats /\ outages \in 0..MaxOutages

(* The deque and the set of the dedup window hold the same ids, each once, *)
(* and never more than _dedup_size of them.                                *)
WindowConsistent ==
  /\ Len(seenIds) <= DedupSize
  /\ seenIdSet = {seenIds[n] : n \in DOMAIN seenIds}
  /\ \A m, n \in DOMAIN seenIds : m # n => seenIds[m] # seenIds[n]

(* A chat message forwarded to the browsers is not forwarded again before  *)
(* _dedup_size others were, across reconnects of the client and messages   *)
(* without an id; disconnect() starts a new window.                        *)
NoRepeatWithinWindow ==
  \A m, n \in DOMAIN forwarded :
    (m < n /\ forwarded[m] = forwarded[n]) => n - m > DedupSize

(* Once everything received is dispatched, the bridge shows exactly the    *)
(* super chats active on Bilibili, except for those whose list read        *)
(* failed, whose messages fell into an outage, or whose messages were      *)
(* dispatched after the list was composed and before the bridge listened.  *)
SuperChatsTracked ==
  (pc = "ready" /\ wire = <<>>) =>
    shown \ missed = live \ missed

=============================================================================
