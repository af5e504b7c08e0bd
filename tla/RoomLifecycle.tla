---------------------------- MODULE RoomLifecycle ----------------------------
(***************************************************************************)
(* Which room is live: start_room_route and stop_room_route                *)
(* (api/room_routes.py), RoomSession.connect / disconnect                  *)
(* (room/session.py) and the reaction to an expired login                  *)
(* (AuthSession.handle_auth_expired, which main.py wires to                *)
(* stop_room_route).  The routes share the module-level bridge and hold no *)
(* lock, so calls interleave at every await.                               *)
(*                                                                         *)
(* Each start builds its own session, bridge and client, all named here by *)
(* the call that built them.                                               *)
(***************************************************************************)

CONSTANT
  Calls       \* bound: HTTP calls and expiry reports

NoBridge == "none"

ASSUME LifecycleAssumption == NoBridge \notin Calls

VARIABLES
  pc,           \* where each call is
  previous,     \* each call's local previous / bridge
  room_bridge,  \* the call whose bridge is installed, or NoBridge
  clients,      \* calls whose session holds a live DanmakuClient
  loginExpired, \* auth_session.state is EXPIRED
  outdated,     \* starts begun with a login that has expired since
  overlapped    \* some call or login came while another call was under way

auth == <<loginExpired, outdated>>
roomVars == <<pc, previous, room_bridge, clients, auth, overlapped>>

Goes(c, to) == pc' = [pc EXCEPT ![c] = to]

InProgress == {c \in Calls : pc[c] \notin {"idle", "done"}}

NotesOverlap == overlapped' = (overlapped \/ InProgress # {})

Called(c) == pc[c] = "idle" /\ NotesOverlap

-----------------------------------------------------------------------------
(* start_room_route *)

(* Stop the ban-list manager, which waits for its task. *)
StartCalled(c) ==
  /\ Called(c)
  /\ Goes(c, "start")
  /\ UNCHANGED <<previous, room_bridge, clients, auth>>

(* Faulty variant: the previous room is not taken down. *)
StartIgnoresPrevious(c) ==
  /\ pc[c] = "start"
  /\ previous' = [previous EXCEPT ![c] = room_bridge]
  /\ Goes(c, "connecting")
  /\ UNCHANGED <<room_bridge, clients, auth>>

(* get_room_bridge(): a previous room is disconnected first. *)
StartTakesPrevious(c) ==
  /\ pc[c] = "start"
  /\ previous' = [previous EXCEPT ![c] = room_bridge]
  /\ Goes(c, IF room_bridge = NoBridge THEN "connecting"
                                       ELSE "start_disconnecting")
  /\ UNCHANGED <<room_bridge, clients, auth>>

(* session.connect: DanmakuClient.start() returned True; the initial super *)
(* chats are being loaded.                                                 *)
ClientStarts(c) ==
  /\ pc[c] = "connecting"
  /\ clients' = clients \cup {c}
  /\ Goes(c, "loading")
  /\ UNCHANGED <<previous, room_bridge, auth>>

(* DanmakuClient.start() returned False, having stopped itself. *)
ConnectFails(c) ==
  /\ pc[c] = "connecting"
  /\ Goes(c, "done")
  /\ UNCHANGED <<previous, room_bridge, clients, auth>>

(* connect() is over: bridge created and installed, the role looked up.    *)
BridgeInstalled(c) ==
  /\ pc[c] = "loading"
  /\ room_bridge' = c
  /\ Goes(c, "done")
  /\ UNCHANGED <<previous, clients, auth>>

-----------------------------------------------------------------------------
(* stop_room_route, and handle_auth_expired, which awaits it. *)

TakesBridge(c) ==
  /\ previous' = [previous EXCEPT ![c] = room_bridge]
  /\ Goes(c, IF room_bridge = NoBridge THEN "done" ELSE "stop_disconnecting")
  /\ UNCHANGED <<room_bridge, clients>>

StopCalled(c) ==
  /\ Called(c)
  /\ TakesBridge(c)
  /\ UNCHANGED auth

Begun ==
  {c \in Calls : c \in clients \/ pc[c] \in {"start", "start_disconnecting",
                                   "start_closing", "connecting", "loading"}}

(* Faulty variant: no callback is registered with on_expired. *)
ExpiryUnheard(c) ==
  /\ Called(c)
  /\ loginExpired' = TRUE
  /\ outdated' = outdated \cup Begun
  /\ Goes(c, "done")
  /\ UNCHANGED <<previous, room_bridge, clients>>

(* Some Bilibili call raised AuthExpiredError: any request or the          *)
(* reconcile task.                                                         *)
AuthExpires(c) ==
  /\ Called(c)
  /\ loginExpired' = TRUE
  /\ outdated' = outdated \cup Begun
  /\ TakesBridge(c)

(* The start's own connect raised AuthExpiredError. *)
ConnectExpires(c) ==
  /\ pc[c] = "connecting"
  /\ loginExpired' = TRUE
  /\ outdated' = outdated \cup Begun
  /\ TakesBridge(c)

-----------------------------------------------------------------------------
(* Taking a room down, in either route. *)

(* disconnect() waited for DanmakuClient.stop(); close() then waits for    *)
(* the browsers' senders.                                                  *)
Disconnected(c) ==
  /\ pc[c] \in {"start_disconnecting", "stop_disconnecting"}
  /\ clients' = clients \ {previous[c]}
  /\ Goes(c, IF pc[c] = "start_disconnecting" THEN "start_closing"
                                               ELSE "stop_closing")
  /\ UNCHANGED <<previous, room_bridge, auth>>

(* Faulty variant: the singleton is left in place. *)
BridgeKept(c) ==
  /\ pc[c] \in {"start_closing", "stop_closing"}
  /\ Goes(c, IF pc[c] = "start_closing" THEN "connecting" ELSE "done")
  /\ UNCHANGED <<previous, room_bridge, clients, auth>>

(* set_room_bridge(None), whatever is installed by now. *)
BridgeCleared(c) ==
  /\ pc[c] \in {"start_closing", "stop_closing"}
  /\ room_bridge' = NoBridge
  /\ Goes(c, IF pc[c] = "start_closing" THEN "connecting" ELSE "done")
  /\ UNCHANGED <<previous, clients, auth>>

-----------------------------------------------------------------------------
(* A new login (mark_authenticated_after_login). *)
LoggedIn ==
  /\ loginExpired
  /\ NotesOverlap
  /\ loginExpired' = FALSE
  /\ UNCHANGED <<pc, previous, room_bridge, clients, outdated>>

RoomInit ==
  /\ pc = [c \in Calls |-> "idle"]
  /\ previous = [c \in Calls |-> NoBridge]
  /\ room_bridge = NoBridge
  /\ clients = {}
  /\ loginExpired = FALSE
  /\ outdated = {}
  /\ overlapped = FALSE

Progress(c) ==
  /\ UNCHANGED overlapped
  /\ \/ StartTakesPrevious(c) \/ ClientStarts(c) \/ ConnectFails(c)
     \/ BridgeInstalled(c) \/ ConnectExpires(c)
     \/ Disconnected(c) \/ BridgeCleared(c)

RoomNext ==
  \/ \E c \in Calls : StartCalled(c) \/ StopCalled(c) \/ AuthExpires(c)
                        \/ Progress(c)
  \/ LoggedIn

RoomSpec == RoomInit /\ [][RoomNext]_roomVars

-----------------------------------------------------------------------------
(* Properties. *)

(* Type invariant of the calls, the singleton and the live clients. *)
RoomTypeOK ==
  /\ pc \in [Calls -> {"idle", "start", "start_disconnecting", "start_closing",
                       "connecting", "loading", "stop_disconnecting",
                       "stop_closing", "done"}]
  /\ previous \in [Calls -> Calls \cup {NoBridge}]
  /\ room_bridge \in Calls \cup {NoBridge}
  /\ clients \subseteq Calls
  /\ loginExpired \in BOOLEAN
  /\ outdated \subseteq Calls
  /\ overlapped \in BOOLEAN

(* The comment in stop_room_route (room_routes.py:289) on not leaving a    *)
(* stale bridge behind: whatever overlaps, an installed bridge whose       *)
(* client is gone is about to be cleared by the call that stopped it.      *)
NoStaleBridge ==
  room_bridge # NoBridge =>
    \/ room_bridge \in clients
    \/ \E c \in Calls : /\ previous[c] = room_bridge
                        /\ pc[c] \in {"start_closing", "stop_closing"}

(* bridge.py:21, "Single bridge per process.  Matches the single-room      *)
(* invariant": at most one DanmakuClient is alive, and between calls it is *)
(* the one whose bridge the routes can reach and stop.                     *)
SingleRoom ==
  /\ \A c, d \in clients : c = d
  /\ InProgress = {} => clients = {room_bridge} \ {NoBridge}

(* main.py:162, "Stop room-scoped tasks after (Bilibili) rejects the active *)
(* Cookie": once the calls are over, no client lives on that was started   *)
(* with the rejected login.                                                *)
ExpiryStopsRoom == InProgress = {} => clients \cap outdated = {}

(* Room switches, failed starts, stops and expiries keep the single room   *)
(* as long as each call finds the one before it over.                      *)
SingleRoomIfSerial == ~overlapped => SingleRoom

(* Likewise, no client outlives the login it was started with as long as   *)
(* the expiry was not reported in the middle of another call.              *)
ExpiryStopsRoomIfSerial == ~overlapped => ExpiryStopsRoom

=============================================================================
