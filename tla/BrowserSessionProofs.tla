------------------------ MODULE BrowserSessionProofs ------------------------
(***************************************************************************)
(* The sockets of a page, for any rooms, any number of requests and        *)
(* sockets and any retry budget.                                           *)
(***************************************************************************)
EXTENDS BrowserSession, TLAPS

(* What a BridgeWS that was let go of looks like.                          *)
Quiet(s) == s.dom \in {"none", "closing"} /\ s.timer = FALSE

(* A lost socket of the page is on its way back, or its budget is spent.   *)
Handled(s, shown) ==
  s.dom = "none" => shown = TRUE /\ (s.timer = TRUE \/ s.retries = MaxRetries)

IInv ==
  /\ sock \in [Bridges -> SocketState]
  /\ banner \in BOOLEAN
  /\ \A b \in Bridges \ {bridge} : Quiet(sock[b])
  /\ bridge \in Bridges => Handled(sock[bridge], banner)
  /\ bridge \in Bridges \cup {None}

socketVars == <<banner, bridge, sock>>

LEMMA GoneQuiet == Gone \in SocketState /\ Quiet(Gone)
  BY BrowserAssumption DEF Gone, SocketState, Quiet

Doms == {"none", "connecting", "open", "refused", "ended", "closing"}

LEMMA SetDom ==
  ASSUME NEW s \in SocketState, NEW d \in Doms
  PROVE  /\ [s EXCEPT !.dom = d] \in SocketState
         /\ [s EXCEPT !.dom = d].dom = d
         /\ [s EXCEPT !.dom = d].timer = s.timer
         /\ [s EXCEPT !.dom = d].retries = s.retries
  BY DEF SocketState, Doms

LEMMA InitIInv == Init => IInv
<1> SUFFICES ASSUME Init PROVE IInv  OBVIOUS
<1>1. Gone \in SocketState /\ Quiet(Gone)
  BY GoneQuiet
<1>2. banner \in BOOLEAN
  BY Zenon DEF Init
<1> QED  BY <1>1, <1>2, BrowserAssumption DEF Init, IInv

LEMMA StutterKeeps == IInv /\ UNCHANGED socketVars => IInv'
  BY DEF IInv, socketVars

(* close() makes any BridgeWS quiet.                                       *)
LEMMA CloseQuiets ==
  ASSUME NEW s \in SocketState PROVE Close(s) \in SocketState /\ Quiet(Close(s))
<1>1. CASE s.dom = "none"
  <2>1. Close(s) = [dom |-> "none", retries |-> 0, timer |-> FALSE]
    BY <1>1 DEF Close, Gone
  <2> QED  BY <2>1, GoneQuiet DEF Gone
<1>2. CASE s.dom # "none"
  <2>1. Close(s) = [Gone EXCEPT !.dom = "closing"]
    BY <1>2 DEF Close
  <2>2. Gone \in SocketState /\ "closing" \in Doms /\ Gone.timer = FALSE
    BY GoneQuiet DEF Doms, Quiet
  <2>3. /\ [Gone EXCEPT !.dom = "closing"] \in SocketState
        /\ [Gone EXCEPT !.dom = "closing"].dom = "closing"
        /\ [Gone EXCEPT !.dom = "closing"].timer = Gone.timer
    BY <2>2, SetDom, Zenon
  <2> QED  BY <2>1, <2>2, <2>3, Zenon DEF Quiet
<1> QED  BY <1>1, <1>2

LEMMA WatchKeeps ==
  ASSUME IInv, NEW i, NEW st, Watch(i, st) PROVE IInv'
<1>1. CASE UNCHANGED sockets
  BY <1>1, StutterKeeps DEF sockets, socketVars
<1>2. CASE WatchCloses
  <2>1. bridge' = None /\ banner' \in BOOLEAN
    BY <1>2, Zenon DEF WatchCloses
  <2>2. CASE bridge = None
    BY <1>2, <2>1, <2>2, BrowserAssumption DEF WatchCloses, IInv
  <2>3. CASE bridge \in Bridges
    <3>1. sock' = [sock EXCEPT ![bridge] = Close(sock[bridge])]
      BY <1>2, <2>3, BrowserAssumption DEF WatchCloses
    <3> QED  BY <2>1, <2>3, <3>1, CloseQuiets, BrowserAssumption DEF IInv
  <2> QED  BY <2>2, <2>3 DEF IInv
<1>3. CASE WatchOpens(i)
  <2> DEFINE new == [Gone EXCEPT !.dom = "connecting"]
  <2>1. new \in SocketState /\ new.dom = "connecting"
    <3>1. "connecting" \in Doms
      BY DEF Doms
    <3> QED  BY <3>1, GoneQuiet, SetDom, Zenon
  <2> HIDE DEF new
  <2>2. PICK b \in Bridges :
          /\ sock' = [o \in Bridges |-> IF o = b THEN new
                        ELSE IF o = bridge THEN Close(sock[o]) ELSE sock[o]]
          /\ bridge' = b
          /\ banner' = banner
    BY <1>3 DEF WatchOpens, Fresh, new
  <2> QED  BY <2>1, <2>2, CloseQuiets DEF IInv, Handled
<1> QED  BY <1>1, <1>2, <1>3 DEF Watch

LEMMA EndKeeps ==
  ASSUME IInv, EndSockets, UNCHANGED <<banner, bridge>> PROVE IInv'
  BY DEF IInv, EndSockets, SocketState, Quiet, Handled

(* onclose: a BridgeWS the page still holds goes on or gives up, another   *)
(* one ends.                                                               *)
LEMMA CloseEventKeeps ==
  ASSUME IInv, NEW b \in Bridges, onclose(b), UNCHANGED bridge PROVE IInv'
<1> DEFINE t == scheduleReconnect(b)
<1>1. sock' = [sock EXCEPT ![b] = t] /\ sock[b] \in SocketState
  BY DEF onclose, IInv
<1>2. CASE b # bridge
  <2>1. t = [sock[b] EXCEPT !.dom = "none"] /\ UNCHANGED banner
    BY <1>2 DEF onclose, scheduleReconnect, IsClosed
  <2>2. t \in SocketState /\ Quiet(t)
    <3>1. "none" \in Doms
      BY DEF Doms
    <3> HIDE DEF t
    <3>2. t \in SocketState /\ t.dom = "none" /\ t.timer = sock[b].timer
      BY <1>1, <2>1, <3>1, SetDom, Zenon
    <3>3. sock[b].timer = FALSE
      BY <1>2 DEF IInv, Quiet
    <3> QED  BY <3>2, <3>3 DEF Quiet
  <2> HIDE DEF t
  <2> QED  BY <1>1, <1>2, <2>1, <2>2 DEF IInv
<1>3. CASE b = bridge
  <2>1. banner' = TRUE
    BY <1>3, Zenon DEF onclose, IsClosed
  <2>2. t \in SocketState /\ Handled(t, TRUE)
    <3>1. CASE sock[b].retries >= MaxRetries
      <4>1. t = [sock[b] EXCEPT !.dom = "none"]
        BY <1>3, <3>1 DEF scheduleReconnect
      <4>2. sock[b].retries = MaxRetries
        BY <1>1, <3>1, BrowserAssumption DEF SocketState
      <4> HIDE DEF t
      <4>3. "none" \in Doms
        BY DEF Doms
      <4>4. t \in SocketState /\ t.retries = sock[b].retries
        BY <1>1, <4>1, <4>3, SetDom, Zenon
      <4> QED  BY <4>2, <4>4 DEF Handled
    <3>2. CASE ~(sock[b].retries >= MaxRetries)
      <4>1. t = [dom |-> "none", retries |-> sock[b].retries + 1, timer |-> TRUE]
        BY <1>3, <3>2 DEF scheduleReconnect, IsClosed
      <4>2. sock[b].retries + 1 \in 0..MaxRetries
        BY <1>1, <3>2, BrowserAssumption DEF SocketState
      <4> HIDE DEF t
      <4> QED  BY <4>1, <4>2 DEF SocketState, Handled
    <3> QED  BY <3>1, <3>2
  <2> HIDE DEF t
  <2> QED  BY <1>1, <1>3, <2>1, <2>2 DEF IInv
<1> QED  BY <1>2, <1>3

LEMMA SocketKeeps ==
  ASSUME IInv, NEW b \in Bridges, Socket(b) \/ SocketLost(b) PROVE IInv'
<1>1. CASE SocketOpens(b)
  <2> DEFINE t == [dom |-> IF live = room[b] THEN "open" ELSE "refused",
                   retries |-> 0, timer |-> FALSE]
  <2>1. t \in SocketState /\ t.dom # "none"
    BY BrowserAssumption DEF SocketState
  <2>2. b = bridge /\ sock' = [sock EXCEPT ![b] = t] /\ UNCHANGED <<banner, bridge>>
    BY <1>1 DEF SocketOpens, IInv, Quiet
  <2> HIDE DEF t
  <2> QED  BY <2>1, <2>2 DEF IInv, Handled
<1>2. CASE TimerFires(b)
  <2> DEFINE t == [sock[b] EXCEPT !.timer = FALSE, !.dom = "connecting"]
  <2>1. sock[b] \in SocketState
    BY DEF IInv
  <2>2. t \in SocketState /\ t.dom = "connecting"
    BY <2>1 DEF SocketState
  <2>3. b = bridge
    BY <1>2 DEF TimerFires, IInv, Quiet
  <2>4. sock' = [sock EXCEPT ![b] = t] /\ UNCHANGED <<banner, bridge>>
    BY <1>2 DEF TimerFires
  <2> HIDE DEF t
  <2> QED  BY <2>2, <2>3, <2>4 DEF IInv, Handled
<1>3. CASE SocketCloses(b) \/ SocketLost(b)
  BY <1>3, CloseEventKeeps DEF SocketCloses, SocketLost
<1> QED  BY <1>1, <1>2, <1>3 DEF Socket

(* Every step of the page, the backend and the faults keeps the sockets in *)
(* order: only the watcher, a closing bridge and the socket's own events   *)
(* touch them.                                                             *)
LEMMA NextIInv == IInv /\ [Next]_vars => IInv'
<1> SUFFICES ASSUME IInv, [Next]_vars PROVE IInv'
  OBVIOUS
<1>1. CASE UNCHANGED vars
  BY <1>1, StutterKeeps DEF vars, sockets, socketVars
<1>2. CASE User
  <2>1. ASSUME NEW n \in Inputs, Type(n) PROVE IInv'
    BY <2>1, StutterKeeps DEF Type, sockets, socketVars
  <2>2. ASSUME NEW c \in Calls, onBlur(c) \/ onConnect(c) \/ onDisconnect(c) PROVE IInv'
    BY <2>2, StutterKeeps DEF onBlur, onConnect, onDisconnect, sockets, socketVars
  <2>3. ASSUME NEW c \in Calls, onConnectResolved(c) PROVE IInv'
    BY <2>3, WatchKeeps DEF onConnectResolved, Show
  <2>4. ASSUME NEW c \in Calls, NEW r \in QuickRooms, connectQuickRoom(c, r) PROVE IInv'
    BY <2>4, WatchKeeps DEF connectQuickRoom, Show
  <2>5. CASE LogsIn
    BY <2>5, StutterKeeps DEF LogsIn, sockets, socketVars
  <2> QED  BY <1>2, <2>1, <2>2, <2>3, <2>4, <2>5 DEF User
<1>3. ASSUME NEW c \in Calls, Reply(c) PROVE IInv'
  <2>1. CASE Resolved(c)
    BY <2>1, WatchKeeps DEF Resolved, Show
  <2>2. CASE ResolvedForStart(c)
    BY <2>2, WatchKeeps DEF ResolvedForStart
  <2>3. CASE ResolveFails(c)
    BY <2>3, StutterKeeps DEF ResolveFails, sockets, socketVars
  <2>4. CASE Started(c)
    BY <2>4, WatchKeeps DEF Started, Show
  <2>5. CASE StartFails(c) \/ StartExpired(c) \/ Stopped(c)
    BY <2>5, WatchKeeps DEF StartFails, StartExpired, Stopped, ShowNothing, Show
  <2> QED  BY <1>3, <2>1, <2>2, <2>3, <2>4, <2>5 DEF Reply
<1>4. ASSUME NEW c \in Calls, Serve(c) PROVE IInv'
  <2>1. CASE ServeStart(c) \/ ServeStartExpired(c) \/ ServeStop(c)
    BY <2>1, EndKeeps DEF ServeStart, ServeStartExpired, ServeStop
  <2>2. CASE ServeStartOk(c) \/ ServeStartFails(c)
    BY <2>2, StutterKeeps DEF ServeStartOk, ServeStartFails, sockets, socketVars
  <2> QED  BY <1>4, <2>1, <2>2 DEF Serve
<1>5. ASSUME NEW b \in Bridges, Socket(b) PROVE IInv'
  BY <1>5, SocketKeeps
<1>6. CASE Check
  <2>1. CASE ServeCheck \/ CheckSaysAuthenticated
    BY <2>1, StutterKeeps DEF ServeCheck, CheckSaysAuthenticated, sockets, socketVars
  <2>2. CASE CheckSaysExpired
    <3>1. UNCHANGED sockets \/ Watch(None, "disconnected")
      BY <2>2 DEF CheckSaysExpired, ShowNothing, Show
    <3> QED  BY <3>1, WatchKeeps, StutterKeeps DEF sockets, socketVars
  <2> QED  BY <1>6, <2>1, <2>2 DEF Check
<1>7. CASE Faults
  <2>1. ASSUME NEW b \in Bridges, SocketLost(b) PROVE IInv'
    BY <2>1, SocketKeeps
  <2>2. ASSUME NEW c \in Calls, CallLost(c) PROVE IInv'
    BY <2>2, StutterKeeps DEF CallLost, sockets, socketVars
  <2>3. CASE CheckLost
    BY <2>3, StutterKeeps DEF CheckLost, sockets, socketVars
  <2> QED  BY <1>7, <2>1, <2>2, <2>3 DEF Faults
<1>8. CASE LoginExpires \/ OtherPageStops
  BY <1>8, EndKeeps DEF LoginExpires, OtherPageStops
<1> QED  BY <1>1, <1>2, <1>3, <1>4, <1>5, <1>6, <1>7, <1>8 DEF Next

(* A BridgeWS that App.vue has let go of never holds an open socket or a   *)
(* pending retry timer, for any number of rooms, requests and sockets.     *)
THEOREM NoZombieCorrect == Spec => []NoZombieSocket
<1>1. IInv => NoZombieSocket
  BY DEF IInv, Quiet, NoZombieSocket
<1> QED  BY <1>1, InitIInv, NextIInv, PTL DEF Spec

(* A lost room socket always shows the banner and is retried until its     *)
(* budget is spent, for any retry budget.                                  *)
THEOREM OutageCorrect == Spec => []OutageIsHandled
<1>1. IInv => OutageIsHandled
  <2> SUFFICES ASSUME IInv, bridge # None, sock[bridge].dom = "none"
               PROVE  /\ banner
                      /\ sock[bridge].timer \/ sock[bridge].retries = MaxRetries
    BY DEF OutageIsHandled
  <2>1. bridge \in Bridges
    BY DEF IInv
  <2>2. Handled(sock[bridge], banner)
    BY <2>1 DEF IInv
  <2> QED  BY <2>2, Zenon DEF Handled
<1> QED  BY <1>1, InitIInv, NextIInv, PTL DEF Spec

-----------------------------------------------------------------------------
(* The room that is shown and the room that is listened to.                *)

CallRecords ==
  [kind : {"none", "resolve", "resolve_start", "start", "stop"},
   room : Rooms \cup {None},
   stage : {"none", "sent", "serving", "ok", "failed", "expired"}]

PageType ==
  /\ typed \in Numbers \cup {None}
  /\ current \in Rooms \cup {None}
  /\ status \in {"disconnected", "connecting", "connected"}
  /\ room \in [Bridges -> Rooms \cup {None}]
  /\ calls \in [Calls -> CallRecords]
  /\ \A c \in Calls :
       calls[c].kind \in {"resolve", "resolve_start", "start"} => calls[c].room \in Rooms

StartFor(r) == \E c \in Calls : calls[c].kind = "start" /\ calls[c].room = r

(* A page that listens to another room than it shows has a start of that   *)
(* other room in flight, whose answer will set it right.                   *)
FollowInv ==
  /\ status = "disconnected" => bridge = None
  /\ status = "connected" => bridge # None /\ current # None
  /\ bridge # None =>
       (status = "connected" /\ room[bridge] = current) \/ StartFor(room[bridge])

PageInv == PageType /\ FollowInv

LEMMA RealRoom ==
  /\ \A n \in Numbers : Real(n) \in Rooms
  /\ \A r \in Rooms : Real(r) = r
  /\ Real(None) = None
BY BrowserAssumption DEF Real, Numbers

(* What one run of the watcher makes of the socket.                        *)
LEMMA WatchOutcome ==
  ASSUME IInv, PageInv, NEW i \in Rooms \cup {None}, NEW st, Watch(i, st)
  PROVE  /\ room' \in [Bridges -> Rooms \cup {None}]
         /\ \/ i = current /\ st = status /\ bridge' = bridge /\ room' = room
            \/ i = None /\ bridge' = None
            \/ /\ i # None /\ st = "connected"
               /\ bridge' # None /\ room'[bridge'] = i
            \/ /\ i # None
               /\ st # "connected" \/ (current = i /\ bridge # None)
               /\ bridge' = bridge /\ room' = room
<1>1. room \in [Bridges -> Rooms \cup {None}]
  BY DEF PageInv, PageType
<1>2. CASE /\ UNCHANGED sockets
           /\ \/ i = current /\ st = status
              \/ /\ i # None
                 /\ st # "connected" \/ (current = i /\ bridge # None)
  <2>1. bridge' = bridge /\ room' = room
    BY <1>2 DEF sockets
  <2> QED  BY <1>1, <1>2, <2>1
<1>3. CASE i = None /\ WatchCloses
  BY <1>3 DEF WatchCloses
<1>4. CASE i # None /\ st = "connected" /\ WatchOpens(i)
  <2>1. PICK b \in Bridges : bridge' = b
                             /\ room' = [o \in Bridges |-> IF o = b THEN i ELSE None]
    BY <1>4 DEF WatchOpens, Fresh
  <2> QED  BY <1>4, <2>1, BrowserAssumption
<1> QED  BY <1>2, <1>3, <1>4 DEF Watch

(* A request changes no start in flight and may add one.                   *)
StartsKept ==
  \A c \in Calls : calls[c].kind = "start" =>
    calls'[c].kind = "start" /\ calls'[c].room = calls[c].room

LEMMA StartStays == ASSUME StartsKept, NEW r, StartFor(r) PROVE StartFor(r)'
BY DEF StartsKept, StartFor

(* Steps that leave the page and its sockets alone.                        *)
LEMMA PageStays ==
  ASSUME PageInv, StartsKept, PageType', UNCHANGED <<current, status, bridge, room>>
  PROVE  PageInv'
BY StartStays DEF PageInv, FollowInv

(* ShowNothing: whatever was shown, nothing is listened to.                *)
LEMMA NothingFollows ==
  ASSUME IInv, PageInv, ShowNothing, PageType' PROVE PageInv'
<1>1. current' = None /\ status' = "disconnected" /\ Watch(None, "disconnected")
  BY DEF ShowNothing, Show
<1>2. bridge' = None
  BY <1>1, WatchOutcome DEF PageInv, FollowInv
<1> QED  BY <1>1, <1>2 DEF PageInv, FollowInv

LEMMA ResolvedFollows ==
  ASSUME IInv, PageInv, NEW r \in Rooms, Show(r, status), StartsKept, PageType'
  PROVE  PageInv'
<1>1. current' = r /\ status' = status /\ Watch(r, status) /\ r # None
  BY BrowserAssumption DEF Show, Numbers
<1>2. CASE bridge' # None /\ room'[bridge'] = r /\ status = "connected"
  BY <1>1, <1>2 DEF PageInv, FollowInv
<1>3. CASE bridge' = bridge /\ room' = room /\ (r = current \/ status # "connected")
  BY <1>1, <1>3, StartStays DEF PageInv, FollowInv
<1> QED  BY <1>1, <1>2, <1>3, WatchOutcome

LEMMA ResolvedForStartFollows ==
  ASSUME IInv, PageInv, NEW r \in Rooms, Watch(r, status), current' = r,
         status' = "connecting", StartsKept, StartFor(r)', PageType'
  PROVE  PageInv'
<1>1. r # None
  BY BrowserAssumption DEF Numbers
<1>2. CASE bridge' # None /\ room'[bridge'] = r
  BY <1>2 DEF PageInv, FollowInv
<1>3. CASE bridge' = bridge /\ room' = room /\ (r = current \/ status # "connected")
  BY <1>3, StartStays DEF PageInv, FollowInv
<1> QED  BY <1>1, <1>2, <1>3, WatchOutcome

LEMMA StartSentFollows ==
  ASSUME IInv, PageInv, NEW r \in Rooms, status = "disconnected",
         Show(r, "connecting"), PageType'
  PROVE  PageInv'
<1>1. current' = r /\ status' = "connecting" /\ Watch(r, "connecting") /\ r # None
  BY BrowserAssumption DEF Show, Numbers
<1>2. bridge' = None
  BY <1>1, WatchOutcome DEF PageInv, FollowInv
<1> QED  BY <1>1, <1>2 DEF PageInv, FollowInv

(* The answer of a start: the page listens to its room, or to the room of  *)
(* another start that is still in flight.                                  *)
LEMMA StartedFollows ==
  ASSUME IInv, PageInv, NEW c \in Calls, Started(c), PageType' PROVE PageInv'
<1> DEFINE r == calls[c].room
<1>1. r \in Rooms /\ r # None
  BY BrowserAssumption DEF Started, PageInv, PageType, Numbers
<1>2. current' = r /\ status' = "connected" /\ Watch(r, "connected")
  BY DEF Started, Show
<1>3. ASSUME NEW q, q # r, StartFor(q) PROVE StartFor(q)'
  <2>1. PICK d \in Calls : calls[d].kind = "start" /\ calls[d].room = q
    BY <1>3 DEF StartFor
  <2>2. calls'[d] = calls[d]
    BY <1>3, <2>1 DEF Started, Done, PageInv, PageType
  <2> QED  BY <2>1, <2>2 DEF StartFor
<1> HIDE DEF r
<1>4. CASE bridge' # None /\ room'[bridge'] = r
  BY <1>1, <1>2, <1>4 DEF PageInv, FollowInv
<1>5. CASE bridge' = bridge /\ room' = room /\ r = current /\ bridge # None
  BY <1>1, <1>2, <1>3, <1>5 DEF PageInv, FollowInv
<1>6. CASE bridge' = bridge /\ room' = room /\ r = current /\ "connected" = status
  BY <1>1, <1>2, <1>3, <1>6 DEF PageInv, FollowInv
<1> QED  BY <1>1, <1>2, <1>4, <1>5, <1>6, WatchOutcome

-----------------------------------------------------------------------------
(* The types of the page.                                                  *)

LEMMA CallEnds ==
  ASSUME PageType, NEW c \in Calls, Done(c)
  PROVE  /\ calls' \in [Calls -> CallRecords]
         /\ \A d \in Calls : calls'[d].kind \in {"resolve", "resolve_start", "start"}
                               => calls'[d].room \in Rooms
         /\ calls[c].kind # "start" => StartsKept
<1>1. NoCall \in CallRecords /\ NoCall.kind = "none"
  BY DEF NoCall, CallRecords
<1>2. calls' = [calls EXCEPT ![c] = NoCall]
  BY DEF Done
<1> QED  BY <1>1, <1>2 DEF PageType, StartsKept

LEMMA CallStages ==
  ASSUME PageType, NEW c \in Calls,
         NEW st \in {"serving", "ok", "failed", "expired"},
         calls' = [calls EXCEPT ![c].stage = st]
  PROVE  /\ calls' \in [Calls -> CallRecords]
         /\ \A d \in Calls : calls'[d].kind = calls[d].kind /\ calls'[d].room = calls[d].room
         /\ StartsKept
<1>1. [calls[c] EXCEPT !.stage = st] \in CallRecords
  BY DEF PageType, CallRecords
<1>2. /\ [calls[c] EXCEPT !.stage = st].kind = calls[c].kind
      /\ [calls[c] EXCEPT !.stage = st].room = calls[c].room
  BY DEF PageType, CallRecords
<1>3. \A d \in Calls : calls'[d].kind = calls[d].kind /\ calls'[d].room = calls[d].room
  BY <1>2 DEF PageType
<1> QED  BY <1>1, <1>3 DEF PageType, StartsKept

LEMMA CallSent ==
  ASSUME PageType, NEW c \in Calls, calls[c].kind # "start",
         NEW kind \in {"resolve", "resolve_start", "start", "stop"},
         NEW n, n \in Numbers \/ (n = None /\ kind = "stop"),
         calls' = [calls EXCEPT ![c] = Request(kind, n)]
  PROVE  /\ calls' \in [Calls -> CallRecords]
         /\ \A d \in Calls : calls'[d].kind \in {"resolve", "resolve_start", "start"}
                               => calls'[d].room \in Rooms
         /\ StartsKept
         /\ calls'[c] = Request(kind, n)
<1>1. /\ Request(kind, n) \in CallRecords
      /\ Request(kind, n).kind = kind
      /\ kind # "stop" => Request(kind, n).room \in Rooms
  BY RealRoom DEF Request, CallRecords
<1> HIDE DEF Request
<1> QED  BY <1>1 DEF PageType, StartsKept

(* The steps of the user.                                                  *)
LEMMA UserFollows == ASSUME IInv, PageInv, User PROVE PageInv'
<1>0. PageType
  BY DEF PageInv
<1>1. ASSUME NEW n \in Inputs, Type(n) PROVE PageInv'
  <2>1. PageType' /\ StartsKept
    BY <1>0, <1>1, BrowserAssumption DEF Type, PageType, StartsKept, sockets
  <2> QED  BY <1>1, <2>1, PageStays DEF Type, sockets
<1>2. ASSUME NEW c \in Calls, NEW kind \in {"resolve", "resolve_start", "stop"}, NEW n,
             n \in Numbers \/ (n = None /\ kind = "stop"),
             Send(c, Request(kind, n)), UNCHANGED <<page, sockets>>
      PROVE  PageInv'
  <2>1. calls' = [calls EXCEPT ![c] = Request(kind, n)] /\ calls[c].kind # "start"
    BY <1>2 DEF Send, Free, InFlight
  <2>2. /\ calls' \in [Calls -> CallRecords] /\ StartsKept
        /\ \A d \in Calls : calls'[d].kind \in {"resolve", "resolve_start", "start"}
                              => calls'[d].room \in Rooms
    BY <1>0, <1>2, <2>1, CallSent
  <2>3. PageType'
    BY <1>0, <1>2, <2>2 DEF PageType, page, sockets
  <2> QED  BY <1>2, <2>2, <2>3, PageStays DEF page, sockets
<1>3. ASSUME NEW c \in Calls, onBlur(c) \/ onConnect(c) PROVE PageInv'
  <2>1. typed \in Numbers
    BY <1>0, <1>3 DEF onBlur, onConnect, PageType
  <2> QED  BY <1>2, <1>3, <2>1 DEF onBlur, onConnect
<1>4. ASSUME NEW c \in Calls, onDisconnect(c) PROVE PageInv'
  BY <1>2, <1>4 DEF onDisconnect
<1>5. ASSUME NEW c \in Calls, NEW r \in Rooms, CanSubmit,
             Send(c, Request("start", r)), Show(r, "connecting"), UNCHANGED typed
      PROVE  PageInv'
  <2>1. calls' = [calls EXCEPT ![c] = Request("start", r)] /\ calls[c].kind # "start"
    BY <1>5 DEF Send, Free, InFlight
  <2>2. /\ calls' \in [Calls -> CallRecords]
        /\ \A d \in Calls : calls'[d].kind \in {"resolve", "resolve_start", "start"}
                              => calls'[d].room \in Rooms
    BY <1>0, <2>1, CallSent DEF Numbers
  <2>3. Watch(r, "connecting") /\ current' = r /\ status' = "connecting"
    BY <1>5 DEF Show
  <2>4. room' \in [Bridges -> Rooms \cup {None}]
    BY <2>3, WatchOutcome
  <2>5. PageType'
    BY <1>0, <1>5, <2>2, <2>3, <2>4 DEF PageType
  <2> QED  BY <1>5, <2>5, StartSentFollows DEF CanSubmit
<1>6. ASSUME NEW c \in Calls, onConnectResolved(c) PROVE PageInv'
  <2>1. current \in Rooms
    BY <1>0, <1>6 DEF onConnectResolved, PageType
  <2> QED  BY <1>5, <1>6, <2>1 DEF onConnectResolved
<1>7. ASSUME NEW c \in Calls, NEW r \in QuickRooms, connectQuickRoom(c, r) PROVE PageInv'
  BY <1>5, <1>7, BrowserAssumption DEF connectQuickRoom
<1>8. CASE LogsIn
  <2>1. PageType' /\ StartsKept
    BY <1>0, <1>8 DEF LogsIn, PageType, StartsKept, page, sockets
  <2> QED  BY <1>8, <2>1, PageStays DEF LogsIn, page, sockets
<1> QED  BY <1>1, <1>3, <1>4, <1>6, <1>7, <1>8 DEF User

(* The answers.                                                            *)
LEMMA ReplyFollows ==
  ASSUME IInv, PageInv, NEW c \in Calls, Reply(c) PROVE PageInv'
<1>0. /\ PageType
      /\ calls[c].kind \in {"resolve", "resolve_start", "start"} => calls[c].room \in Rooms
  BY DEF PageInv, PageType
<1>1. ASSUME NEW i \in Rooms \cup {None}, NEW st \in {"disconnected", "connected", status},
             Show(i, st), Done(c), typed' \in {typed, None, current'}
      PROVE  PageType'
  <2>1. Watch(i, st) /\ current' = i /\ status' = st
    BY <1>1 DEF Show
  <2>2. room' \in [Bridges -> Rooms \cup {None}]
    BY <2>1, WatchOutcome
  <2>3. typed' \in Numbers \cup {None} /\ status' \in {"disconnected", "connecting", "connected"}
    BY <1>0, <1>1, <2>1 DEF PageType, Numbers
  <2>4. /\ calls' \in [Calls -> CallRecords]
        /\ \A d \in Calls : calls'[d].kind \in {"resolve", "resolve_start", "start"}
                              => calls'[d].room \in Rooms
    BY <1>0, <1>1, CallEnds
  <2> QED  BY <1>1, <2>1, <2>2, <2>3, <2>4 DEF PageType
<1>2. CASE Resolved(c)
  <2>1. PageType'
    BY <1>0, <1>1, <1>2 DEF Resolved
  <2> QED  BY <1>0, <1>2, <2>1, CallEnds, ResolvedFollows DEF Resolved
<1>3. CASE ResolvedForStart(c)
  <2>0. PICK r \in Rooms : r = calls[c].room
    BY <1>0, <1>3 DEF ResolvedForStart
  <2>1. /\ r \in Rooms /\ current' = r /\ Watch(r, status) /\ status' = "connecting"
        /\ calls' = [calls EXCEPT ![c] = Request("start", r)] /\ typed' = typed
        /\ calls[c].kind # "start"
    BY <1>3, <2>0 DEF ResolvedForStart
  <2>2. /\ calls' \in [Calls -> CallRecords] /\ StartsKept
        /\ \A d \in Calls : calls'[d].kind \in {"resolve", "resolve_start", "start"}
                              => calls'[d].room \in Rooms
        /\ calls'[c] = Request("start", r)
    BY <1>0, <2>1, CallSent DEF Numbers
  <2>3. StartFor(r)'
    BY <2>1, <2>2, RealRoom DEF StartFor, Request
  <2>4. room' \in [Bridges -> Rooms \cup {None}]
    BY <2>1, WatchOutcome
  <2>5. PageType'
    BY <1>0, <2>1, <2>2, <2>4 DEF PageType
  <2> QED  BY <2>1, <2>2, <2>3, <2>5, ResolvedForStartFollows
<1>4. CASE ResolveFails(c)
  <2>1. PageType' /\ StartsKept
    BY <1>0, <1>4, CallEnds DEF ResolveFails, PageType, page, sockets
  <2> QED  BY <1>4, <2>1, PageStays DEF ResolveFails, page, sockets
<1>5. CASE Started(c)
  <2>1. PageType'
    BY <1>0, <1>1, <1>5 DEF Started
  <2> QED  BY <1>5, <2>1, StartedFollows
<1>6. CASE StartFails(c) \/ StartExpired(c) \/ Stopped(c)
  <2>1. ShowNothing /\ Done(c) /\ typed' \in {typed, None}
    BY <1>6 DEF StartFails, StartExpired, Stopped
  <2>2. PageType'
    BY <1>1, <2>1 DEF ShowNothing
  <2> QED  BY <2>1, <2>2, NothingFollows
<1> QED  BY <1>2, <1>3, <1>4, <1>5, <1>6 DEF Reply

LEMMA ServeFollows ==
  ASSUME IInv, PageInv, NEW c \in Calls, Serve(c) \/ CallLost(c) PROVE PageInv'
<1>1. PageType /\ UNCHANGED <<page, bridge, room>>
  BY DEF PageInv, Serve, ServeStart, ServeStartOk, ServeStartFails, ServeStartExpired,
     ServeStop, CallLost, sockets
<1>2. PICK st \in {"serving", "ok", "failed", "expired"} :
        calls' = [calls EXCEPT ![c].stage = st]
  BY DEF Serve, ServeStart, ServeStartOk, ServeStartFails, ServeStartExpired,
     ServeStop, CallLost, Stage
<1>3. /\ calls' \in [Calls -> CallRecords] /\ StartsKept
      /\ \A d \in Calls : calls'[d].kind = calls[d].kind /\ calls'[d].room = calls[d].room
  BY <1>1, <1>2, CallStages
<1>4. PageType'
  BY <1>1, <1>3 DEF PageType, page
<1> QED  BY <1>1, <1>3, <1>4, PageStays DEF page

LEMMA CheckFollows ==
  ASSUME IInv, PageInv, Check PROVE PageInv'
<1>1. PageType /\ UNCHANGED calls /\ StartsKept
  BY DEF PageInv, Check, ServeCheck, CheckSaysExpired, CheckSaysAuthenticated, StartsKept
<1>2. CASE UNCHANGED <<page, sockets>>
  BY <1>1, <1>2, PageStays DEF PageType, page, sockets
<1>3. CASE ShowNothing /\ typed' = None
  <2>1. current' = None /\ status' = "disconnected" /\ Watch(None, "disconnected")
    BY <1>3 DEF ShowNothing, Show
  <2>2. room' \in [Bridges -> Rooms \cup {None}]
    BY <2>1, WatchOutcome
  <2>3. PageType'
    BY <1>1, <1>3, <2>1, <2>2 DEF PageType
  <2> QED  BY <1>3, <2>3, NothingFollows
<1> QED  BY <1>2, <1>3 DEF Check, ServeCheck, CheckSaysExpired, CheckSaysAuthenticated

(* Steps of sockets, other pages and the login.                            *)
LEMMA RestFollows ==
  ASSUME PageInv, UNCHANGED <<page, bridge, room, calls>> PROVE PageInv'
<1>1. PageType' /\ StartsKept
  BY DEF PageInv, PageType, StartsKept, page
<1> QED  BY <1>1, PageStays DEF page

LEMMA NextPageInv == IInv /\ PageInv /\ [Next]_vars => PageInv'
<1> SUFFICES ASSUME IInv, PageInv, [Next]_vars PROVE PageInv'
  OBVIOUS
<1>1. ASSUME NEW b \in Bridges, Socket(b) \/ SocketLost(b) PROVE PageInv'
  BY <1>1, RestFollows DEF Socket, SocketOpens, SocketCloses, TimerFires, SocketLost
<1>2. CASE LoginExpires \/ OtherPageStops \/ CheckLost \/ UNCHANGED vars
  BY <1>2, RestFollows DEF LoginExpires, OtherPageStops, CheckLost, vars, sockets
<1> QED  BY <1>1, <1>2, UserFollows, ReplyFollows, ServeFollows, CheckFollows
         DEF Next, Faults

LEMMA InitPageInv == Init => PageInv
<1> SUFFICES ASSUME Init PROVE PageInv
  OBVIOUS
<1>1. NoCall \in CallRecords /\ NoCall.kind = "none"
  BY DEF NoCall, CallRecords
<1> QED  BY <1>1 DEF Init, PageInv, PageType, FollowInv

(* For any number of requests in flight, answered in any order: once no    *)
(* start is in flight, the page listens to the room it shows as connected, *)
(* and to none if it shows none.                                           *)
THEOREM SocketCorrect == Spec => []SocketFollowsRoom
<1>1. IInv /\ PageInv => SocketFollowsRoom
  BY DEF PageInv, PageType, FollowInv, StartFor, SocketFollowsRoom, InFlight
<1> QED  BY <1>1, InitIInv, NextIInv, InitPageInv, NextPageInv, PTL DEF Spec

-----------------------------------------------------------------------------
(* The room that is shown and the room the backend runs, while the page is *)
(* undisturbed.                                                            *)

(* Two requests in flight at once: one of them resolves the other's room.  *)
Harmless(x, y) ==
  /\ x.kind # "stop" /\ y.kind # "stop"
  /\ x.kind = "resolve" \/ y.kind = "resolve"
  /\ x.room = y.room

Overlaps == \A c, d \in Calls :
  c # d /\ calls[c].kind # "none" /\ calls[d].kind # "none"
    => Harmless(calls[c], calls[d])

(* A page that waits for a start shows no room as connected, what else it  *)
(* waits for is about the room it shows, and a start that was answered     *)
(* with success finds its room running.                                    *)
Errand ==
  /\ Overlaps
  /\ \A c \in Calls : calls[c].kind \in {"start", "resolve_start"} => status # "connected"
  /\ status = "connected" =>
       \A c \in Calls : calls[c].kind = "resolve" => calls[c].room = current
  /\ status = "connected" /\ (\A c \in Calls : calls[c].kind # "stop") => live = current
  /\ \A c \in Calls : calls[c].kind = "start" /\ calls[c].stage = "ok"
                        => live = calls[c].room

LiveInv == disturbed \in BOOLEAN /\ (disturbed = FALSE => Errand)

LEMMA ErrandStays ==
  ASSUME Errand, UNCHANGED <<current, status, calls, live>> PROVE Errand'
BY DEF Errand, Overlaps, Harmless

(* A request is answered and the page is not connected afterwards.         *)
LEMMA ErrandAnswered ==
  ASSUME PageType, Errand, NEW c \in Calls, Done(c), status' # "connected", live' = live
  PROVE  Errand'
<1>1. /\ calls'[c].kind = "none"
      /\ \A d \in Calls \ {c} : calls'[d] = calls[d]
  BY DEF Done, NoCall, PageType
<1> QED  BY <1>1 DEF Errand, Overlaps, Harmless

(* A resolve is answered: a connected page shows the room already.         *)
LEMMA ErrandResolved ==
  ASSUME PageType, Errand, NEW c \in Calls, Done(c), status' = status, live' = live,
         calls[c].kind \in {"resolve", "resolve_start"},
         status = "connected" => current' = current
  PROVE  Errand'
<1>1. /\ calls'[c].kind = "none"
      /\ \A d \in Calls \ {c} : calls'[d] = calls[d]
  BY DEF Done, NoCall, PageType
<1>2. (\A d \in Calls : calls'[d].kind # "stop") => (\A d \in Calls : calls[d].kind # "stop")
  BY <1>1
<1> QED  BY <1>1, <1>2 DEF Errand, Overlaps, Harmless

(* A start is answered with success: its room is the one that runs.        *)
LEMMA ErrandStarted ==
  ASSUME PageType, Errand, NEW c \in Calls, Done(c), calls[c].kind = "start",
         calls[c].stage = "ok", live' = live, current' = calls[c].room
  PROVE  Errand'
<1>1. /\ calls'[c].kind = "none"
      /\ \A d \in Calls \ {c} : calls'[d] = calls[d]
  BY DEF Done, NoCall, PageType
<1>2. live = calls[c].room
  BY DEF Errand
<1>3. \A d \in Calls \ {c} : calls[d].kind # "none"
        => calls[d].kind = "resolve" /\ calls[d].room = calls[c].room
  BY DEF Errand, Overlaps, Harmless
<1>4. \A d \in Calls : calls'[d].kind # "none" 
        => calls'[d].kind = "resolve" /\ calls'[d].room = calls[c].room
  BY <1>1, <1>3
<1> QED  BY <1>1, <1>2, <1>4 DEF Errand, Overlaps, Harmless

(* A request takes the place of c, on a page that is not connected, or a   *)
(* stop is the only request.                                               *)
LEMMA ErrandSent ==
  ASSUME PageType, NEW c \in Calls, NEW request,
         calls' = [calls EXCEPT ![c] = request], request.stage = "sent", live' = live,
         Overlaps, 
         \A d \in Calls \ {c} : calls[d].kind # "none" => Harmless(calls[d], request),
         \A d \in Calls \ {c} : calls[d].kind = "start" /\ calls[d].stage = "ok"
                                  => live = calls[d].room,
         \/ status' # "connected"
         \/ request.kind = "stop"
  PROVE  Errand'
<1>1. /\ calls'[c] = request
      /\ \A d \in Calls \ {c} : calls'[d] = calls[d]
  BY DEF PageType
<1>2. Overlaps'
  BY <1>1 DEF Overlaps, Harmless
<1>3. CASE request.kind = "stop"
  <2>1. \A d \in Calls \ {c} : calls'[d].kind = "none"
    BY <1>1, <1>3 DEF Harmless
  <2> QED  BY <1>1, <1>2, <1>3, <2>1 DEF Errand
<1> QED  BY <1>1, <1>2, <1>3 DEF Errand

(* Send leaves the page undisturbed only where the request is harmless.    *)
LEMMA SendHarmless ==
  ASSUME LiveInv, PageType, FollowInv, NEW c \in Calls, NEW request, Send(c, request),
         disturbed' = FALSE, request.stage = "sent", live' = live,
         status' # "connected" \/ request.kind = "stop"
  PROVE  Errand'
<1>1. c \in Free /\ calls' = [calls EXCEPT ![c] = request]
  BY DEF Send
<1>2. (InFlight = {} /\ current = None) \/ (disturbed = FALSE /\ SameErrand(request))
  BY Zenon DEF Send, LiveInv
<1>3. CASE InFlight = {}
  <2>1. \A d \in Calls : calls[d].kind = "none"
    BY <1>3 DEF InFlight
  <2> QED  BY <1>1, <2>1, ErrandSent DEF Overlaps
<1>4. CASE disturbed = FALSE /\ SameErrand(request)
  <2>1. Errand
    BY <1>4 DEF LiveInv
  <2>2. \A d \in Calls \ {c} : calls[d].kind # "none" => Harmless(calls[d], request)
    BY <1>4 DEF SameErrand, InFlight, Harmless
  <2> QED  BY <1>1, <2>1, <2>2, ErrandSent DEF Errand
<1> QED  BY <1>2, <1>3, <1>4

(* The backend moves a start or a stop on.                                 *)
LEMMA ErrandServed ==
  ASSUME PageType, Errand, NEW c \in Calls, calls[c].kind \in {"start", "stop"},
         NEW st \in {"serving", "ok", "failed", "expired"},
         calls' = [calls EXCEPT ![c].stage = st], UNCHANGED <<current, status>>,
         calls[c].kind = "start" /\ st = "ok" => live' = calls[c].room
  PROVE  Errand'
<1>1. /\ calls'[c].kind = calls[c].kind /\ calls'[c].room = calls[c].room
      /\ calls'[c].stage = st
      /\ \A d \in Calls \ {c} : calls'[d] = calls[d]
  BY DEF PageType, CallRecords
<1>2. \A d \in Calls : calls'[d].kind = calls[d].kind /\ calls'[d].room = calls[d].room
  BY <1>1
<1>3. Overlaps'
  BY <1>2 DEF Errand, Overlaps, Harmless
<1>4. \A d \in Calls \ {c} : calls[d].kind # "start"
  BY DEF Errand, Overlaps, Harmless
<1> QED  BY <1>1, <1>2, <1>3, <1>4 DEF Errand

(* Steps that only change the stage of a request, its answer or the like   *)
(* keep the history flag.                                                  *)
LEMMA LiveKept ==
  ASSUME LiveInv, disturbed' = disturbed, Errand => Errand' PROVE LiveInv'
BY DEF LiveInv

LEMMA LiveUnchanged ==
  ASSUME LiveInv, UNCHANGED <<current, status, calls, live, disturbed>> PROVE LiveInv'
BY LiveKept, ErrandStays

LEMMA SendKeepsLive ==
  ASSUME LiveInv, PageInv, NEW c \in Calls, NEW kind, NEW n,
         Send(c, Request(kind, n)), live' = live,
         status' # "connected" \/ kind = "stop"
  PROVE  LiveInv'
<1>1. Request(kind, n).stage = "sent" /\ Request(kind, n).kind = kind
  BY DEF Request
<1> HIDE DEF Request
<1>2. PICK request : request = Request(kind, n)
  OBVIOUS
<1>3. disturbed' \in BOOLEAN
  BY Zenon DEF Send, LiveInv
<1>4. ASSUME disturbed' = FALSE PROVE Errand'
  BY <1>1, <1>2, <1>4, SendHarmless DEF PageInv
<1> QED  BY <1>3, <1>4 DEF LiveInv

LEMMA UserKeepsLive == ASSUME IInv, PageInv, LiveInv, User PROVE LiveInv'
<1>1. ASSUME NEW n \in Inputs, Type(n) PROVE LiveInv'
  BY <1>1, LiveUnchanged DEF Type, backend
<1>2. ASSUME NEW c \in Calls, onBlur(c) \/ onConnect(c) PROVE LiveInv'
  <2>1. status' # "connected" /\ live' = live
    BY <1>2 DEF onBlur, onConnect, CanSubmit, page, backend
  <2> QED  BY <1>2, <2>1, SendKeepsLive DEF onBlur, onConnect
<1>3. ASSUME NEW c \in Calls, onConnectResolved(c) PROVE LiveInv'
  <2>1. status' # "connected" /\ live' = live
    BY <1>3 DEF onConnectResolved, Show, backend
  <2> QED  BY <1>3, <2>1, SendKeepsLive DEF onConnectResolved
<1>4. ASSUME NEW c \in Calls, NEW r \in QuickRooms, connectQuickRoom(c, r) PROVE LiveInv'
  <2>1. status' # "connected" /\ live' = live
    BY <1>4 DEF connectQuickRoom, Show, backend
  <2> QED  BY <1>4, <2>1, SendKeepsLive DEF connectQuickRoom
<1>5. ASSUME NEW c \in Calls, onDisconnect(c) PROVE LiveInv'
  BY <1>5, SendKeepsLive DEF onDisconnect, backend
<1>6. CASE LogsIn
  BY <1>6, LiveUnchanged DEF LogsIn, page
<1> QED  BY <1>1, <1>2, <1>3, <1>4, <1>5, <1>6 DEF User

LEMMA ReplyKeepsLive ==
  ASSUME PageInv, LiveInv, NEW c \in Calls, Reply(c) PROVE LiveInv'
<1>0. PageType /\ disturbed' = disturbed /\ live' = live
  BY DEF PageInv, Reply, Resolved, ResolvedForStart, ResolveFails, Started,
     StartFails, StartExpired, Stopped, backend
<1> SUFFICES ASSUME Errand PROVE Errand'
  BY <1>0, LiveKept
<1>1. CASE Resolved(c)
  <2>1. /\ current' = calls[c].room /\ status' = status
        /\ calls[c].kind = "resolve" /\ Done(c)
    BY <1>1 DEF Resolved, Show
  <2>2. status = "connected" => current' = current
    BY <2>1 DEF Errand
  <2> QED  BY <1>0, <2>1, <2>2, ErrandResolved
<1>2. CASE ResolvedForStart(c)
  <2>0. PICK r \in Rooms : r = calls[c].room
    BY <1>0, <1>2 DEF ResolvedForStart, PageType
  <2>1. /\ calls' = [calls EXCEPT ![c] = Request("start", r)]
        /\ calls[c].kind = "resolve_start" /\ status' = "connecting"
    BY <1>2, <2>0 DEF ResolvedForStart
  <2>2. PICK request : request = Request("start", r)
    OBVIOUS
  <2>3. request.kind = "start" /\ request.room = r /\ request.stage = "sent"
    BY <2>2, RealRoom DEF Request
  <2>4. \A d \in Calls \ {c} : calls[d].kind # "none" => Harmless(calls[d], request)
    BY <2>0, <2>1, <2>3 DEF Errand, Overlaps, Harmless
  <2> QED  BY <1>0, <2>1, <2>2, <2>3, <2>4, ErrandSent DEF Errand
<1>3. CASE ResolveFails(c)
  BY <1>0, <1>3, ErrandResolved DEF ResolveFails, page
<1>4. CASE Started(c)
  BY <1>0, <1>4, ErrandStarted DEF Started, Show
<1>5. CASE StartFails(c) \/ StartExpired(c) \/ Stopped(c)
  <2>1. Done(c) /\ status' = "disconnected"
    BY <1>5 DEF StartFails, StartExpired, Stopped, ShowNothing, Show
  <2> QED  BY <1>0, <2>1, ErrandAnswered
<1> QED  BY <1>1, <1>2, <1>3, <1>4, <1>5 DEF Reply

LEMMA ServeKeepsLive ==
  ASSUME PageInv, LiveInv, NEW c \in Calls, Serve(c) \/ CallLost(c) PROVE LiveInv'
<1>1. /\ PageType /\ disturbed' = disturbed /\ UNCHANGED <<current, status>>
      /\ calls[c].kind \in {"start", "stop"}
  BY DEF PageInv, Serve, ServeStart, ServeStartOk, ServeStartFails, ServeStartExpired,
     ServeStop, CallLost, page
<1> SUFFICES ASSUME Errand PROVE Errand'
  BY <1>1, LiveKept
<1>2. CASE ServeStartOk(c)
  BY <1>1, <1>2, ErrandServed DEF ServeStartOk, Stage
<1>3. CASE ServeStop(c)
  BY <1>1, <1>3, ErrandServed DEF ServeStop, Stage
<1>4. CASE ServeStart(c) \/ ServeStartFails(c) \/ ServeStartExpired(c) \/ CallLost(c)
  <2>1. PICK st \in {"serving", "failed", "expired"} : calls' = [calls EXCEPT ![c].stage = st]
    BY <1>4 DEF ServeStart, ServeStartFails, ServeStartExpired, CallLost, Stage
  <2> QED  BY <1>1, <2>1, ErrandServed
<1> QED  BY <1>2, <1>3, <1>4 DEF Serve

LEMMA CheckKeepsLive == ASSUME LiveInv, Check PROVE LiveInv'
<1>1. UNCHANGED <<calls, live, disturbed>>
  BY DEF Check, ServeCheck, CheckSaysExpired, CheckSaysAuthenticated, backend
<1>2. CASE UNCHANGED page
  BY <1>1, <1>2, LiveUnchanged DEF page
<1>3. CASE status' = "disconnected"
  <2>1. Errand => Errand'
    BY <1>1, <1>3 DEF Errand, Overlaps, Harmless
  <2> QED  BY <1>1, <2>1, LiveKept
<1> QED  BY <1>2, <1>3 DEF Check, ServeCheck, CheckSaysExpired, CheckSaysAuthenticated,
     ShowNothing, Show

LEMMA NextLiveInv == IInv /\ PageInv /\ LiveInv /\ [Next]_vars => LiveInv'
<1> SUFFICES ASSUME IInv, PageInv, LiveInv, [Next]_vars PROVE LiveInv'
  OBVIOUS
<1>1. ASSUME NEW b \in Bridges, Socket(b) \/ SocketLost(b) PROVE LiveInv'
  BY <1>1, LiveUnchanged DEF Socket, SocketOpens, SocketCloses, TimerFires, SocketLost,
     page, backend
<1>2. CASE LoginExpires \/ OtherPageStops
  BY <1>2, Zenon DEF LoginExpires, OtherPageStops, LiveInv
<1>3. CASE CheckLost \/ UNCHANGED vars
  BY <1>3, LiveUnchanged DEF CheckLost, vars, page, backend
<1> QED  BY <1>1, <1>2, <1>3, UserKeepsLive, ReplyKeepsLive, ServeKeepsLive, CheckKeepsLive
         DEF Next, Faults

LEMMA InitLiveInv == Init => LiveInv
<1> SUFFICES ASSUME Init PROVE LiveInv
  OBVIOUS
<1>1. \A c \in Calls : calls[c].kind = "none"
  BY DEF Init, NoCall
<1> QED  BY <1>1 DEF Init, LiveInv, Errand, Overlaps

(* For any number of requests and rooms: a user who waits for answers, on  *)
(* a page alone with its backend, sees a room as connected only while the  *)
(* backend runs that room.                                                 *)
THEOREM ShownCorrect == Spec => []ShownRoomIsLive
<1>1. LiveInv => ShownRoomIsLive
  BY DEF LiveInv, Errand, ShownRoomIsLive, InFlight
<1> QED  BY <1>1, InitIInv, NextIInv, InitPageInv, NextPageInv, InitLiveInv, NextLiveInv,
         PTL DEF Spec

=============================================================================
