---------------------------- MODULE DanmakuClient ----------------------------
(***************************************************************************)
(* One room's upstream connection: DanmakuClient in bilibili/danmaku_ws.py *)
(* without its message buffer (module MessageBuffer).  Three activities    *)
(* interleave at their awaits: the caller of start(), the caller of stop() *)
(* and the connect-loop task; Bilibili's server decides what each await    *)
(* yields.                                                                 *)
(*                                                                         *)
(* A RoomSession makes one client per connect() and calls stop() only      *)
(* after start() returned True, so the client has one life.  Time is       *)
(* reduced to what it decides: the start() deadline, a timed-out auth      *)
(* exchange, a stale heartbeat acknowledgement.                            *)
(***************************************************************************)
EXTENDS Integers, FiniteSets

CONSTANTS
  Endpoints,            \* number of ws_urls returned by get_danmu_info
  ReconnectMaxAttempts  \* _reconnect_max_attempts

ASSUME ClientAssumption ==
  /\ Endpoints \in Nat \ {0}
  /\ ReconnectMaxAttempts \in Nat \ {0}

VARIABLES
  running,   \* self.running
  fatal,     \* self._fatal_error is not None
  ws,        \* self.ws is not None
  starter,   \* where the caller of start() is
  stopper,   \* where the stop() in progress is
  conn,      \* where the _connect_loop task is
  attempts,  \* local of _connect_loop
  cursor,    \* endpoint_cursor % len(ws_urls)
  sock,      \* the socket that the local ws of _connect_loop denotes
  orphans,   \* open sockets that no variable denotes any more
  ack,       \* last_ack_box against _watchdog_timeout: "fresh" or "stale"
  queueTask, \* the _process_queue task is alive
  tried      \* endpoints tried since start() or the last successful auth

vars == <<running, fatal, ws, starter, stopper, conn, attempts, cursor,
          sock, orphans, ack, queueTask, tried>>

lifecycle == <<running, starter, stopper, queueTask>>
loopLocals == <<attempts, cursor, tried>>

OpenSockets == orphans + IF sock = "open" THEN 1 ELSE 0

-----------------------------------------------------------------------------
(* start() *)

(* The caller awaits get_danmu_info. *)
Start ==
  /\ starter = "idle"
  /\ starter' = "fetching_info"
  /\ UNCHANGED <<running, fatal, ws, stopper, conn, loopLocals, sock, orphans,
                 ack, queueTask>>

(* No danmu_info, no token, no usable endpoint, or AuthExpiredError.       *)
StartInfoFails ==
  /\ starter = "fetching_info"
  /\ starter' = "false"
  /\ UNCHANGED <<running, fatal, ws, stopper, conn, loopLocals, sock, orphans,
                 ack, queueTask>>

(* danmu_info is usable; the caller awaits _fetch_uid, which never fails.  *)
StartInfoOk ==
  /\ starter = "fetching_info"
  /\ starter' = "fetching_uid"
  /\ UNCHANGED <<running, fatal, ws, stopper, conn, loopLocals, sock, orphans,
                 ack, queueTask>>

(* The state is reset, both tasks are created, polling begins.             *)
StartTasks ==
  /\ starter = "fetching_uid"
  /\ starter' = "polling"
  /\ running' = TRUE
  /\ fatal' = FALSE
  /\ ws' = FALSE
  /\ queueTask' = TRUE
  /\ conn' = "loop"
  /\ attempts' = 0
  /\ cursor' = 0
  /\ tried' = {}
  /\ UNCHANGED <<stopper, sock, orphans, ack>>

(* One poll, every 50 ms: a fatal error is looked at first, then self.ws.  *)
PollSeesSocket ==
  /\ starter = "polling"
  /\ ~fatal
  /\ ws
  /\ starter' = "true"
  /\ UNCHANGED <<running, fatal, ws, stopper, conn, loopLocals, sock, orphans,
                 ack, queueTask>>

(* stop() up to its first await: running off, every live task cancelled.   *)
StopBegins ==
  /\ running' = FALSE
  /\ stopper' = "gathering"

(* A poll sees the fatal error, or the deadline has passed when the caller *)
(* wakes up (self.ws is then not looked at again): start() calls stop().   *)
PollGivesUp ==
  /\ starter = "polling"
  /\ starter' = "stopping"
  /\ StopBegins
  /\ UNCHANGED <<fatal, ws, conn, loopLocals, sock, orphans, ack, queueTask>>

(* RoomSession.disconnect calls stop() on a started client.                *)
Stop ==
  /\ starter = "true"
  /\ stopper = "idle"
  /\ StopBegins
  /\ UNCHANGED <<fatal, ws, starter, conn, loopLocals, sock, orphans, ack,
                 queueTask>>

-----------------------------------------------------------------------------
(* stop() *)

Cancelled == stopper = "gathering"

(* CancelledError reaches _process_queue, wherever it awaits.              *)
CancelQueueTask ==
  /\ Cancelled
  /\ queueTask
  /\ queueTask' = FALSE
  /\ UNCHANGED <<running, fatal, ws, starter, stopper, conn, loopLocals, sock,
                 orphans, ack>>

(* Faulty variant: the auth exchange swallows the cancellation. *)
CancelOutsideAuth ==
  /\ Cancelled
  /\ conn \notin {"none", "done", "authenticating"}
  /\ conn' = "done"
  /\ UNCHANGED <<lifecycle, fatal, ws, loopLocals, sock, orphans, ack>>

(* CancelledError reaches _connect_loop (and, in a session, its three      *)
(* tasks).  Nothing in the loop handles it, so its local ws is gone; the   *)
(* socket is still denoted by self.ws if a session was running.            *)
CancelConnectLoop ==
  /\ Cancelled
  /\ conn \notin {"none", "done"}
  /\ conn' = "done"
  /\ IF sock = "open" /\ ~ws
     THEN orphans' = orphans + 1 /\ sock' = "none"
     ELSE UNCHANGED <<orphans, sock>>
  /\ UNCHANGED <<lifecycle, fatal, ws, loopLocals, ack>>

(* Faulty variant: stop() does not wait for the cancelled tasks. *)
StopWithoutGather ==
  /\ Cancelled
  /\ stopper' = "stopped"
  /\ sock' = IF ws THEN "none" ELSE sock
  /\ ws' = FALSE
  /\ starter' = IF starter = "stopping" THEN "false" ELSE starter
  /\ UNCHANGED <<running, fatal, conn, loopLocals, orphans, ack, queueTask>>

(* All tasks are gone: close self.ws if there is one, forget it and the    *)
(* tasks, clear the queue.                                                 *)
StopCompletes ==
  /\ Cancelled
  /\ conn = "done"
  /\ ~queueTask
  /\ stopper' = "stopped"
  /\ sock' = IF ws THEN "none" ELSE sock
  /\ ws' = FALSE
  /\ starter' = IF starter = "stopping" THEN "false" ELSE starter
  /\ UNCHANGED <<running, fatal, conn, loopLocals, orphans, ack, queueTask>>

-----------------------------------------------------------------------------
(* _connect_loop *)

(* Faulty variant: the endpoint index is not advanced. *)
ConnectsToSame ==
  /\ conn = "loop"
  /\ running
  /\ attempts < ReconnectMaxAttempts
  /\ conn' = "connecting"
  /\ tried' = tried \cup {cursor}
  /\ UNCHANGED <<lifecycle, fatal, ws, attempts, cursor, sock, orphans, ack>>

(* The while condition, then websockets.connect to the next endpoint.      *)
LoopConnects ==
  /\ conn = "loop"
  /\ running
  /\ attempts < ReconnectMaxAttempts
  /\ conn' = "connecting"
  /\ tried' = tried \cup {cursor}
  /\ cursor' = (cursor + 1) % Endpoints
  /\ UNCHANGED <<lifecycle, fatal, ws, attempts, sock, orphans, ack>>

(* The attempts are used up: the task logs an error and ends.              *)
LoopGivesUp ==
  /\ conn = "loop"
  /\ running
  /\ attempts >= ReconnectMaxAttempts
  /\ conn' = "done"
  /\ UNCHANGED <<lifecycle, fatal, ws, loopLocals, sock, orphans, ack>>

(* Another attempt is counted and its backoff slept.                       *)
BackOff ==
  /\ attempts' = attempts + 1
  /\ conn' = "backoff"

ConnectFails ==
  /\ conn = "connecting"
  /\ running
  /\ BackOff
  /\ UNCHANGED <<lifecycle, fatal, ws, cursor, tried, sock, orphans, ack>>

(* Connected: _send_auth sends AUTH and awaits the reply.                  *)
ConnectSucceeds ==
  /\ conn = "connecting"
  /\ running
  /\ conn' = "authenticating"
  /\ sock' = "open"
  /\ UNCHANGED <<lifecycle, fatal, ws, loopLocals, orphans, ack>>

(* AUTH_RSP with code 0: the session's tasks are started.                  *)
AuthAccepted ==
  /\ conn = "authenticating"
  /\ running
  /\ conn' = "session"
  /\ ws' = TRUE
  /\ attempts' = 0
  /\ ack' = "fresh"
  /\ tried' = {}
  /\ UNCHANGED <<lifecycle, fatal, cursor, sock, orphans>>

(* Faulty variant: a rejection is retried like a lost connection. *)
RejectionRetried ==
  /\ conn = "authenticating"
  /\ running
  /\ fatal' = TRUE
  /\ sock' = "none"
  /\ BackOff
  /\ UNCHANGED <<lifecycle, ws, cursor, tried, orphans, ack>>

(* AUTH_RSP with another code: fatal, the socket is closed, the task ends. *)
AuthRejected ==
  /\ conn = "authenticating"
  /\ running
  /\ fatal' = TRUE
  /\ sock' = "none"
  /\ conn' = "done"
  /\ UNCHANGED <<lifecycle, ws, loopLocals, orphans, ack>>

(* Faulty variant: the socket of a failed auth exchange is not closed. *)
AuthFailsOpen ==
  /\ conn = "authenticating"
  /\ running
  /\ sock' = "none"
  /\ orphans' = orphans + 1
  /\ BackOff
  /\ UNCHANGED <<lifecycle, fatal, ws, cursor, tried, ack>>

(* Timeout, closed connection or no AUTH_RSP in the first frame.           *)
AuthFails ==
  /\ conn = "authenticating"
  /\ running
  /\ sock' = "none"
  /\ BackOff
  /\ UNCHANGED <<lifecycle, fatal, ws, cursor, tried, orphans, ack>>

BackoffEnds ==
  /\ conn = "backoff"
  /\ running
  /\ conn' = "loop"
  /\ UNCHANGED <<lifecycle, fatal, ws, loopLocals, sock, orphans, ack>>

-----------------------------------------------------------------------------
(* A session: _heartbeat, _listen and _watchdog share the socket. *)

(* More than _watchdog_timeout has passed since the last HEARTBEAT_RSP.    *)
AckGoesStale ==
  /\ conn = "session"
  /\ running
  /\ sock = "open"
  /\ ack = "fresh"
  /\ ack' = "stale"
  /\ UNCHANGED <<lifecycle, fatal, ws, conn, loopLocals, sock, orphans>>

(* _listen receives a HEARTBEAT_RSP, perhaps after the timeout but before  *)
(* the watchdog's next look.                                               *)
AckArrives ==
  /\ conn = "session"
  /\ running
  /\ sock = "open"
  /\ ack = "stale"
  /\ ack' = "fresh"
  /\ UNCHANGED <<lifecycle, fatal, ws, conn, loopLocals, sock, orphans>>

(* Faulty variant: the age of the acknowledgement compared the wrong way.  *)
WatchdogInverted ==
  /\ conn = "session"
  /\ running
  /\ sock = "open"
  /\ ack = "fresh"
  /\ sock' = "closed"
  /\ UNCHANGED <<lifecycle, fatal, ws, conn, loopLocals, orphans, ack>>

(* The watchdog finds the acknowledgement stale and closes the socket.     *)
WatchdogCloses ==
  /\ conn = "session"
  /\ running
  /\ sock = "open"
  /\ ack = "stale"
  /\ sock' = "closed"
  /\ UNCHANGED <<lifecycle, fatal, ws, conn, loopLocals, orphans, ack>>

(* The peer closes: _listen's recv or _heartbeat's send fails.             *)
PeerCloses ==
  /\ conn = "session"
  /\ running
  /\ sock = "open"
  /\ sock' = "closed"
  /\ UNCHANGED <<lifecycle, fatal, ws, conn, loopLocals, orphans, ack>>

(* The first task of the session has ended and the others are cancelled.   *)
SessionEnds ==
  /\ conn = "session"
  /\ running
  /\ sock = "closed"
  /\ ws' = FALSE
  /\ sock' = "none"
  /\ BackOff
  /\ UNCHANGED <<lifecycle, fatal, cursor, tried, orphans, ack>>

-----------------------------------------------------------------------------
Init ==
  /\ running = FALSE
  /\ fatal = FALSE
  /\ ws = FALSE
  /\ starter = "idle"
  /\ stopper = "idle"
  /\ conn = "none"
  /\ attempts = 0
  /\ cursor = 0
  /\ sock = "none"
  /\ orphans = 0
  /\ ack = "fresh"
  /\ queueTask = FALSE
  /\ tried = {}

StartSteps == StartInfoFails \/ StartInfoOk \/ StartTasks \/ PollSeesSocket \/ PollGivesUp
StopSteps == CancelQueueTask \/ CancelConnectLoop \/ StopCompletes
LoopSteps ==
  \/ LoopConnects \/ LoopGivesUp
  \/ ConnectFails \/ ConnectSucceeds
  \/ AuthAccepted \/ AuthRejected \/ AuthFails
  \/ BackoffEnds \/ SessionEnds

(* A client that failed to start, or was stopped, is discarded.            *)
Discarded ==
  /\ starter = "false" \/ stopper = "stopped"
  /\ UNCHANGED vars

Next ==
  \/ Start \/ StartSteps
  \/ Stop \/ StopSteps
  \/ LoopSteps
  \/ AckGoesStale \/ AckArrives \/ WatchdogCloses \/ PeerCloses
  \/ Discarded

Spec == Init /\ [][Next]_vars

(* Every await of start(), stop() and the loop is bounded by a timeout or  *)
(* is a sleep, and the event loop resumes what is ready.  The watchdog     *)
(* looks every half second.  Nothing is assumed of the server.             *)
FairSpec ==
  /\ Spec
  /\ WF_vars(StartSteps)
  /\ WF_vars(StopSteps)
  /\ WF_vars(LoopSteps)
  /\ WF_vars(WatchdogCloses)

-----------------------------------------------------------------------------
(* Properties. *)

(* Type invariant of the client's fields and of the three activities.      *)
TypeOK ==
  /\ running \in BOOLEAN
  /\ fatal \in BOOLEAN
  /\ ws \in BOOLEAN
  /\ starter \in {"idle", "fetching_info", "fetching_uid", "polling",
                  "stopping", "true", "false"}
  /\ stopper \in {"idle", "gathering", "stopped"}
  /\ conn \in {"none", "loop", "connecting", "authenticating", "session",
               "backoff", "done"}
  /\ attempts \in 0..ReconnectMaxAttempts
  /\ cursor \in 0..(Endpoints - 1)
  /\ sock \in {"none", "open", "closed"}
  /\ orphans \in Nat
  /\ ack \in {"fresh", "stale"}
  /\ queueTask \in BOOLEAN
  /\ tried \in SUBSET (0..(Endpoints - 1))

(* "multiple upstream sockets are never opened in parallel": through every *)
(* reconnect and cancellation at most one socket is open.                  *)
OneSocket == OpenSockets <= 1

(* self.ws is what stop() closes: it is set exactly while the loop is in a *)
(* session, or a cancelled session waits for stop() to close it.           *)
WsFollowsSession ==
  /\ conn = "session" => ws
  /\ ws => conn = "session" \/ Cancelled

(* Once stop() has returned, nothing of the client runs or can start       *)
(* again, and wherever the cancellation met the connect loop, the socket   *)
(* that self.ws or the loop still denotes is closed.  What stop() cannot   *)
(* close is the socket of an auth exchange under way, an orphan.           *)
StopLeavesNothing ==
  stopper = "stopped" =>
    /\ ~running /\ ~ws /\ ~queueTask /\ conn = "done"
    /\ sock # "open" /\ orphans <= 1

(* The loop does not give up before it has tried every endpoint since the  *)
(* last good session, as long as there are fewer endpoints than attempts.  *)
GivesUpAfterTryingAll ==
  (conn = "done" /\ running /\ ~fatal /\ Endpoints < ReconnectMaxAttempts)
    => tried = 0..(Endpoints - 1)

(* A rejected token is never retried: no connection is made after it.      *)
NoRetryAfterRejection ==
  [][fatal => OpenSockets' <= OpenSockets /\ conn' = conn]_vars

(* start() always returns, and stop() always completes, also when start()  *)
(* itself calls it.                                                        *)
StartAndStopReturn ==
  /\ starter = "fetching_info" ~> starter \in {"true", "false"}
  /\ stopper = "gathering" ~> stopper = "stopped"

(* A session that is lost, or whose server has gone silent, does not last: *)
(* a live session follows, unless the attempts are used up, the token is   *)
(* rejected or the client is stopped.                                      *)
SessionIsRecovered ==
  (running /\ (conn = "backoff" \/ (conn = "session" /\ ack = "stale")))
    ~> ((conn = "session" /\ ack = "fresh") \/ conn = "done" \/ ~running)

(* danmaku_ws.py:26 and :274 say of stop(): "cancel + close + clear" and   *)
(* "Cancel all tasks, close the ws, clear the queue".                      *)
StopClosesSocket == stopper = "stopped" => OpenSockets = 0

=============================================================================
