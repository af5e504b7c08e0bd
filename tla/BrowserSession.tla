---------------------------- MODULE BrowserSession ----------------------------
(***************************************************************************)
(* One browser page and the room it shows: the room form (RoomInput.vue,   *)
(* QuickRooms.vue), the room store (stores/room.ts), the watcher that      *)
(* opens and closes the page's socket (App.vue), the reconnecting socket   *)
(* (api/ws.ts) and the login status the page keeps (stores/auth.ts),       *)
(* against a backend that starts and stops rooms.                          *)
(*                                                                         *)
(* A handler runs to its next await in one step, with the watchers its     *)
(* assignments trigger.  Replies arrive in any order.  Bridges are the     *)
(* BridgeWS objects, reused once their sockets are gone.  The ban-list     *)
(* socket is opened and closed by the same lines and left out.             *)
(*                                                                         *)
(* No room_status event is among the messages: the backend sends them when *)
(* no page is registered, or drops them with the queue of a closing bridge.*)
(***************************************************************************)
EXTENDS Naturals, FiniteSets

CONSTANTS
  Rooms,       \* real room ids
  Shorts,      \* short ids
  RealOf,      \* the room a short id stands for
  Inputs,      \* room numbers the user types
  QuickRooms,  \* rooms saved as shortcuts
  Calls,       \* bound: requests of the page in flight
  Bridges,     \* bound: BridgeWS objects with a socket or a timer
  MaxRetries,  \* MAX_RETRIES
  None

Numbers == Rooms \cup Shorts

ASSUME BrowserAssumption ==
  /\ RealOf \in [Shorts -> Rooms]
  /\ Rooms \cap Shorts = {}
  /\ Inputs \subseteq Numbers
  /\ QuickRooms \subseteq Rooms
  /\ None \notin Numbers \cup Bridges
  /\ MaxRetries \in Nat \ {0}

VARIABLES
  typed,      \* inputText of the form, None when empty
  current,    \* currentRoomId, None for null
  status,     \* status of the room store
  banner,     \* wsVisible
  bridge,     \* the BridgeWS App.vue holds, None for null
  sock,       \* the socket, retryCount and retryTimer of each BridgeWS
  room,       \* the room each was made for
  calls,      \* requests in flight
  check,      \* the last GET /auth/status: "none", "sent" or its answer
  auth,       \* status of the auth store
  login,      \* state of the backend's auth session
  live,       \* room of the backend's bridge, None without one
  disturbed   \* history: see Send 

page    == <<typed, current, status>>
sockets == <<banner, bridge, sock, room>>
backend == <<login, live>>
vars    == <<page, sockets, calls, check, auth, backend, disturbed>>

Gone == [dom |-> "none", retries |-> 0, timer |-> FALSE]

NoCall == [kind |-> "none", room |-> None, stage |-> "none"]

InFlight == {c \in Calls : calls[c].kind # "none"}

Free == Calls \ InFlight

(* resolve_room_route and RoomSession._resolve_room_id: the real room id.  *)
Real(n) == IF n \in Shorts THEN RealOf[n] ELSE n

(* A request and the room its number stands for.                           *)
Request(kind, n) == [kind |-> kind, room |-> Real(n), stage |-> "sent"]

-----------------------------------------------------------------------------
(* BridgeWS *)

(* Faulty variant: the retry timer survives close(). *)
CloseSocketOnly(s) ==
  [Gone EXCEPT !.dom = IF s.dom = "none" THEN "none" ELSE "closing",
               !.timer = s.timer]

(* close(): the socket is told to close and the retry timer is cleared.    *)
Close(s) == [Gone EXCEPT !.dom = IF s.dom = "none" THEN "none" ELSE "closing"]

(* The closed flag: of every BridgeWS but the one App.vue holds.           *)
IsClosed(b) == b # bridge

scheduleReconnect(b) ==
  LET s == sock[b]
  IN IF IsClosed(b) \/ s.retries >= MaxRetries
       THEN [s EXCEPT !.dom = "none"]
     ELSE [dom |-> "none", retries |-> s.retries + 1, timer |-> TRUE]

(* Faulty variant: the owner is not told. *)
oncloseQuiet(b) ==
  /\ sock' = [sock EXCEPT ![b] = scheduleReconnect(b)]
  /\ UNCHANGED <<banner, check>>

(* Faulty variant: onDisconnect raises the banner and leaves it there. *)
oncloseUnchecked(b) ==
  /\ sock' = [sock EXCEPT ![b] = scheduleReconnect(b)]
  /\ banner' = (banner \/ ~IsClosed(b))
  /\ UNCHANGED check

(* onclose: the owner is told, which raises the banner and asks for the    *)
(* login status, and a reconnect is scheduled; neither once closed.        *)
onclose(b) ==
  /\ sock' = [sock EXCEPT ![b] = scheduleReconnect(b)]
  /\ IF ~IsClosed(b)
       THEN banner' = TRUE /\ check' = "sent"
       ELSE UNCHANGED <<banner, check>>

(* The server accepts; a page is only registered for the live room.        *)
SocketOpens(b) ==
  /\ sock[b].dom = "connecting"
  /\ sock' = [sock EXCEPT ![b] =
       [dom |-> IF live = room[b] THEN "open" ELSE "refused",
        retries |-> 0, timer |-> FALSE]]
  /\ UNCHANGED <<page, banner, bridge, room, calls, check, auth, backend, disturbed>>

(* The error message of a refused socket or the end of a closed one.       *)
SocketCloses(b) ==
  /\ sock[b].dom \in {"refused", "ended", "closing"}
  /\ onclose(b)
  /\ UNCHANGED <<page, bridge, room, calls, auth, backend, disturbed>>

(* The connection cannot be made or breaks: onerror, then onclose.         *)
SocketLost(b) ==
  /\ sock[b].dom \in {"connecting", "open"}
  /\ onclose(b)
  /\ UNCHANGED <<page, bridge, room, calls, auth, backend, disturbed>>

(* The retry timer fires and connect() makes a socket.                     *)
TimerFires(b) ==
  /\ sock[b].timer
  /\ sock' = [sock EXCEPT ![b].timer = FALSE, ![b].dom = "connecting"]
  /\ UNCHANGED <<page, banner, bridge, room, calls, check, auth, backend, disturbed>>

-----------------------------------------------------------------------------
(* The watcher of App.vue *)

(* currentRoomId is null: the socket is closed, the banner is dropped.     *)
WatchCloses ==
  /\ sock' = IF bridge = None THEN sock
             ELSE [sock EXCEPT ![bridge] = Close(@)]
  /\ bridge' = None
  /\ banner' = FALSE
  /\ room' = [b \in Bridges |-> None]

Fresh == {b \in Bridges \ {bridge} : sock[b] = Gone}

(* Connected to another room than before, or without a socket: the old     *)
(* BridgeWS is closed and a new one connects.                              *)
WatchOpens(newId) ==
  \E b \in Fresh :
    /\ \A o \in Fresh : b <= o
    /\ sock' = [o \in Bridges |->
                 IF o = b THEN [Gone EXCEPT !.dom = "connecting"]
                 ELSE IF o = bridge THEN Close(sock[o]) ELSE sock[o]]
    /\ bridge' = b
    /\ room' = [o \in Bridges |-> IF o = b THEN newId ELSE None]
    /\ UNCHANGED banner

(* Faulty variant: a BridgeWS is only made when there is none. *)
WatchMissesSwitch(newId, newStatus) ==
  IF <<newId, newStatus>> = <<current, status>> THEN UNCHANGED sockets
  ELSE IF newId = None THEN WatchCloses
  ELSE IF newStatus = "connected" /\ bridge = None THEN WatchOpens(newId)
  ELSE UNCHANGED sockets

Watch(newId, newStatus) ==
  IF <<newId, newStatus>> = <<current, status>> THEN UNCHANGED sockets
  ELSE IF newId = None THEN WatchCloses
  ELSE IF newStatus = "connected" /\ (current # newId \/ bridge = None)
    THEN WatchOpens(newId)
  ELSE UNCHANGED sockets

Show(newId, newStatus) ==
  /\ current' = newId
  /\ status' = newStatus
  /\ Watch(newId, newStatus)

(* connect() fails, disconnect() and resetAfterAuthExpired().              *)
ShowNothing == Show(None, "disconnected")

-----------------------------------------------------------------------------
(* What else may change the backend's room, and when its room is this      *)
(* page's doing: history for ShownRoomIsLive.                              *)

SameErrand(request) ==
  \A c \in InFlight : /\ "stop" \notin {request.kind, calls[c].kind}
                      /\ "resolve" \in {request.kind, calls[c].kind}
                      /\ calls[c].room = request.room

(* Two requests overlap harmlessly when they are about one room and one of *)
(* them only resolves it; any other overlap disturbs.  A page with nothing *)
(* shown and nothing in flight starts afresh.                              *)
Send(c, request) ==
  /\ c \in Free
  /\ \A d \in Free : c <= d
  /\ calls' = [calls EXCEPT ![c] = request]
  /\ disturbed' = IF InFlight = {} /\ current = None THEN FALSE
                  ELSE disturbed \/ ~SameErrand(request)

-----------------------------------------------------------------------------
(* The user: the form is shown while logged in, and its input and connect  *)
(* controls while the store says "disconnected".                           *)

CanSubmit == auth = "authenticated" /\ status = "disconnected"

Type(n) ==
  /\ CanSubmit
  /\ typed # n
  /\ typed' = n
  /\ UNCHANGED <<current, status, sockets, calls, check, auth, backend, disturbed>>

onBlur(c) ==
  /\ CanSubmit
  /\ typed # None
  /\ Send(c, Request("resolve", typed))
  /\ UNCHANGED <<page, sockets, check, auth, backend>>

(* Enter or the button: a number never resolved is resolved first.         *)
onConnect(c) ==
  /\ CanSubmit
  /\ typed # None
  /\ current = None
  /\ Send(c, Request("resolve_start", typed))
  /\ UNCHANGED <<page, sockets, check, auth, backend>>

(* Otherwise the resolved room is started, whatever the input says.        *)
onConnectResolved(c) ==
  /\ CanSubmit
  /\ typed # None
  /\ current # None
  /\ Send(c, Request("start", current))
  /\ Show(current, "connecting")
  /\ UNCHANGED <<typed, check, auth, backend>>

(* prepareShortcut, then connect.                                          *)
connectQuickRoom(c, r) ==
  /\ CanSubmit
  /\ Send(c, Request("start", r))
  /\ Show(r, "connecting")
  /\ UNCHANGED <<typed, check, auth, backend>>

onDisconnect(c) ==
  /\ auth = "authenticated"
  /\ status # "disconnected"
  /\ Send(c, Request("stop", None))
  /\ UNCHANGED <<page, sockets, check, auth, backend>>

-----------------------------------------------------------------------------
(* Replies *)

Done(c) == calls' = [calls EXCEPT ![c] = NoCall]

(* resolve() stores the room; onBlur shows it in the input.                *)
Resolved(c) ==
  /\ calls[c].kind = "resolve"
  /\ calls[c].stage = "sent"
  /\ Show(calls[c].room, status)
  /\ typed' = IF auth = "authenticated" THEN current' ELSE typed
  /\ Done(c)
  /\ UNCHANGED <<check, auth, backend, disturbed>>

(* onConnect goes on to connect(); the watcher saw the room before that.   *)
ResolvedForStart(c) ==
  LET r == calls[c].room
  IN /\ calls[c].kind = "resolve_start"
     /\ calls[c].stage = "sent"
     /\ current' = r
     /\ Watch(r, status)
     /\ status' = "connecting"
     /\ calls' = [calls EXCEPT ![c] = Request("start", r)]
     /\ UNCHANGED <<typed, check, auth, backend, disturbed>>

(* An error of /rooms/resolve leaves the store alone.                      *)
ResolveFails(c) ==
  /\ calls[c].kind \in {"resolve", "resolve_start"}
  /\ calls[c].stage = "sent"
  /\ Done(c)
  /\ UNCHANGED <<page, sockets, check, auth, backend, disturbed>>

(* Faulty variant: an error answer is taken for success. *)
StartedAnyway(c) ==
  /\ calls[c].kind = "start"
  /\ calls[c].stage \in {"ok", "failed"}
  /\ Show(calls[c].room, "connected")
  /\ Done(c)
  /\ UNCHANGED <<typed, check, auth, backend, disturbed>>

Started(c) ==
  /\ calls[c].kind = "start"
  /\ calls[c].stage = "ok"
  /\ Show(calls[c].room, "connected")
  /\ Done(c)
  /\ UNCHANGED <<typed, check, auth, backend, disturbed>>

StartFails(c) ==
  /\ calls[c].kind = "start"
  /\ calls[c].stage = "failed"
  /\ ShowNothing
  /\ Done(c)
  /\ UNCHANGED <<typed, check, auth, backend, disturbed>>

(* A 401: the response interceptor calls markExpired, then connect() fails. *)
StartExpired(c) ==
  /\ calls[c].kind = "start"
  /\ calls[c].stage = "expired"
  /\ auth' = "expired"
  /\ typed' = None
  /\ ShowNothing
  /\ Done(c)
  /\ UNCHANGED <<check, backend, disturbed>>

(* Faulty variant: only a good answer resets the store. *)
StoppedIfOk(c) ==
  /\ calls[c].kind = "stop"
  /\ IF calls[c].stage = "ok" THEN ShowNothing
                              ELSE UNCHANGED <<current, status, sockets>>
  /\ calls[c].stage \in {"ok", "failed"}
  /\ Done(c)
  /\ UNCHANGED <<typed, check, auth, backend, disturbed>>

(* disconnect() resets the store whether the request succeeded or not.     *)
Stopped(c) ==
  /\ calls[c].kind = "stop"
  /\ calls[c].stage \in {"ok", "failed"}
  /\ ShowNothing
  /\ Done(c)
  /\ UNCHANGED <<typed, check, auth, backend, disturbed>>

(* The request or its answer is lost.                                      *)
CallLost(c) ==
  /\ calls[c].kind \in {"start", "stop"}
  /\ calls[c].stage \in {"sent", "ok"}
  /\ calls' = [calls EXCEPT ![c].stage = "failed"]
  /\ UNCHANGED <<page, sockets, check, auth, backend, disturbed>>

-----------------------------------------------------------------------------
(* The backend *)

(* The bridge closes the sockets registered with it.                       *)
EndSockets ==
  sock' = [b \in Bridges |-> [sock[b] EXCEPT !.dom =
             IF @ = "open" /\ room[b] = live THEN "ended" ELSE @]]

Stage(c, stage) == calls' = [calls EXCEPT ![c].stage = stage]

(* start_room_route closes the previous room, then connects.               *)
ServeStart(c) ==
  /\ calls[c].kind = "start"
  /\ calls[c].stage = "sent"
  /\ EndSockets
  /\ live' = None
  /\ Stage(c, "serving")
  /\ UNCHANGED <<page, banner, bridge, room, check, auth, login, disturbed>>

ServeStartOk(c) ==
  /\ calls[c].kind = "start"
  /\ calls[c].stage = "serving"
  /\ live' = calls[c].room
  /\ Stage(c, "ok")
  /\ UNCHANGED <<page, sockets, check, auth, login, disturbed>>

ServeStartFails(c) ==
  /\ calls[c].kind = "start"
  /\ calls[c].stage = "serving"
  /\ Stage(c, "failed")
  /\ UNCHANGED <<page, sockets, check, auth, backend, disturbed>>

(* The start meets a rejected login: handle_auth_expired, then a 401.      *)
ServeStartExpired(c) ==
  /\ calls[c].kind = "start"
  /\ calls[c].stage = "serving"
  /\ login' = "expired"
  /\ EndSockets
  /\ live' = None
  /\ Stage(c, "expired")
  /\ UNCHANGED <<page, banner, bridge, room, check, auth, disturbed>>

ServeStop(c) ==
  /\ calls[c].kind = "stop"
  /\ calls[c].stage = "sent"
  /\ EndSockets
  /\ live' = None
  /\ Stage(c, "ok")
  /\ UNCHANGED <<page, banner, bridge, room, check, auth, login, disturbed>>

(* Another request of the backend finds the login rejected.                *)
LoginExpires ==
  /\ login = "authenticated"
  /\ login' = "expired"
  /\ EndSockets
  /\ live' = None
  /\ disturbed' = TRUE
  /\ UNCHANGED <<page, banner, bridge, room, calls, check, auth>>

(* A second page stops the room.                                           *)
OtherPageStops ==
  /\ live # None
  /\ EndSockets
  /\ live' = None
  /\ disturbed' = TRUE
  /\ UNCHANGED <<page, banner, bridge, room, calls, check, auth, login>>

-----------------------------------------------------------------------------
(* The login status of the page.  Of several requests for it the last is   *)
(* followed.                                                               *)

ServeCheck ==
  /\ check = "sent"
  /\ check' = login
  /\ UNCHANGED <<page, sockets, calls, auth, backend, disturbed>>

(* fetchStatus; markExpired and resetAfterAuthExpired run once.            *)
CheckSaysExpired ==
  /\ check = "expired"
  /\ check' = "none"
  /\ IF auth = "expired" THEN UNCHANGED <<page, sockets, auth>>
     ELSE /\ auth' = "expired"
          /\ typed' = None
          /\ ShowNothing
  /\ UNCHANGED <<calls, backend, disturbed>>

CheckSaysAuthenticated ==
  /\ check = "authenticated"
  /\ check' = "none"
  /\ auth' = "authenticated"
  /\ UNCHANGED <<page, sockets, calls, backend, disturbed>>

CheckLost ==
  /\ check # "none"
  /\ check' = "none"
  /\ UNCHANGED <<page, sockets, calls, auth, backend, disturbed>>

(* The login page: AuthFlow, up to the fetchStatus that follows success.   *)
LogsIn ==
  /\ auth = "expired"
  /\ login' = "authenticated"
  /\ auth' = "authenticated"
  /\ UNCHANGED <<page, sockets, calls, check, live, disturbed>>

-----------------------------------------------------------------------------
Init ==
  /\ typed = None
  /\ current = None
  /\ status = "disconnected"
  /\ banner = FALSE
  /\ bridge = None
  /\ sock = [b \in Bridges |-> Gone]
  /\ room = [b \in Bridges |-> None]
  /\ calls = [c \in Calls |-> NoCall]
  /\ check = "none"
  /\ auth = "authenticated"
  /\ login = "authenticated"
  /\ live = None
  /\ disturbed = FALSE

User ==
  \/ \E n \in Inputs : Type(n)
  \/ \E c \in Calls :
       \/ onBlur(c) \/ onConnect(c) \/ onConnectResolved(c) \/ onDisconnect(c)
       \/ \E r \in QuickRooms : connectQuickRoom(c, r)
  \/ LogsIn

Reply(c) ==
  \/ Resolved(c) \/ ResolvedForStart(c) \/ ResolveFails(c)
  \/ Started(c) \/ StartFails(c) \/ StartExpired(c) \/ Stopped(c)

Serve(c) ==
  \/ ServeStart(c) \/ ServeStartOk(c) \/ ServeStartFails(c)
  \/ ServeStartExpired(c) \/ ServeStop(c)

Socket(b) == SocketOpens(b) \/ SocketCloses(b) \/ TimerFires(b)

Check == ServeCheck \/ CheckSaysExpired \/ CheckSaysAuthenticated

Faults ==
  \/ \E b \in Bridges : SocketLost(b)
  \/ \E c \in Calls : CallLost(c)
  \/ CheckLost

Next ==
  \/ User
  \/ \E c \in Calls : Reply(c) \/ Serve(c)
  \/ \E b \in Bridges : Socket(b)
  \/ Check
  \/ Faults
  \/ LoginExpires
  \/ OtherPageStops

Spec == Init /\ [][Next]_vars

(* Sockets, timers and requests make progress; users and other pages need  *)
(* not.  A login check that is repeated for ever is not lost for ever.     *)
FairSpec ==
  /\ Spec
  /\ \A c \in Calls : WF_vars(Reply(c) \/ Serve(c))
  /\ \A b \in Bridges : WF_vars(Socket(b))
  /\ SF_vars(ServeCheck)
  /\ SF_vars(CheckSaysExpired)

-----------------------------------------------------------------------------
SocketState ==
  [dom : {"none", "connecting", "open", "refused", "ended", "closing"},
   retries : 0..MaxRetries, timer : BOOLEAN]

(* Type invariant of the page and its backend. *)
TypeOK ==
  /\ typed \in Numbers \cup {None}
  /\ current \in Rooms \cup {None}
  /\ status \in {"disconnected", "connecting", "connected"}
  /\ banner \in BOOLEAN
  /\ bridge \in Bridges \cup {None}
  /\ sock \in [Bridges -> SocketState]
  /\ room \in [Bridges -> Rooms \cup {None}]
  /\ calls \in [Calls -> [kind : {"none", "resolve", "resolve_start", "start", "stop"},
                          room : Rooms \cup {None},
                          stage : {"none", "sent", "serving", "ok", "failed", "expired"}]]
  /\ check \in {"none", "sent", "authenticated", "expired"}
  /\ auth \in {"authenticated", "expired"}
  /\ login \in {"authenticated", "expired"}
  /\ live \in Rooms \cup {None}
  /\ disturbed \in BOOLEAN

(* "No zombie reconnect": a BridgeWS that App.vue has let go of has no     *)
(* open socket and no retry timer, whatever was under way when it closed.  *)
NoZombieSocket ==
  \A b \in Bridges \ {bridge} :
    sock[b].dom \in {"none", "closing"} /\ ~sock[b].timer

(* Once every start has been answered, a page that shows a room connected  *)
(* listens to that room, in whatever order resolves, starts and stops were *)
(* answered, and a page that shows none has no socket.                     *)
SocketFollowsRoom ==
  (\A c \in InFlight : calls[c].kind # "start") =>
    IF status = "connected" THEN bridge # None /\ room[bridge] = current
                            ELSE bridge = None

(* A user who waits for answers, on a page alone with its backend, sees a  *)
(* room "connected" only while the backend runs that room.                 *)
ShownRoomIsLive ==
  status = "connected" /\ ~disturbed /\ InFlight = {} => live = current

(* A lost room socket shows the banner, and is retried until the budget is *)
(* spent.                                                                  *)
OutageIsHandled ==
  bridge # None /\ sock[bridge].dom = "none" =>
    /\ banner
    /\ sock[bridge].timer \/ sock[bridge].retries = MaxRetries

(* Disconnecting closes the sockets, also when the request fails.          *)
DisconnectClosesSockets ==
  (\E c \in Calls : calls[c].kind = "stop") ~> (bridge = None)

(* When the login expires and the room is torn down, the page learns of it *)
(* through its closed socket and returns to the login page.                *)
ExpiryReachesPage ==
  (login = "expired" /\ live = None /\ bridge # None) ~>
    \/ auth = "expired" \/ bridge = None
    \/ login = "authenticated" \/ live # None
    \/ sock[bridge] = [dom |-> "none", retries |-> MaxRetries, timer |-> FALSE]

(* "Make sure the input has been resolved before we start": the room that  *)
(* is started is the one in the input.                                     *)
StartsTypedRoom ==
  [][(\E c \in Calls : onConnectResolved(c)) => current = Real(typed)]_vars
=============================================================================
