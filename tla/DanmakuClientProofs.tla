------------------------ MODULE DanmakuClientProofs ------------------------
(***************************************************************************)
(* Proofs about DanmakuClient, for every number of endpoints and every     *)
(* reconnect budget.                                                       *)
(***************************************************************************)
EXTENDS DanmakuClient, TLAPS

(* The loop's socket by where the loop is; what is orphaned is orphaned    *)
(* once, by the cancellation that ends the loop.                           *)
SocketInv ==
  /\ conn = "authenticating" => sock = "open"
  /\ conn = "session" => sock # "none"
  /\ conn \in {"none", "loop", "connecting", "backoff"} => sock = "none"
  /\ conn = "done" /\ sock # "none" => ws = TRUE
  /\ orphans # 0 => orphans = 1 /\ conn = "done" /\ sock = "none"

(* Who may be where together: a stop() is under way only after start() has *)
(* made the tasks, and nothing starts afterwards.                          *)
LifeInv ==
  /\ conn = "none" => starter \in {"idle", "fetching_info", "fetching_uid", "false"}
  /\ starter \in {"idle", "fetching_info", "fetching_uid"}
       => conn = "none" /\ stopper = "idle" /\ fatal = FALSE
  /\ stopper = "idle" => starter # "stopping"
  /\ stopper = "gathering" => starter \in {"stopping", "true"}
  /\ stopper = "stopped" =>
       /\ starter \in {"true", "false"} /\ conn = "done"
       /\ queueTask = FALSE /\ ws = FALSE
  /\ stopper # "idle" => running = FALSE /\ conn # "none"
  /\ conn \notin {"none", "done"} => running = TRUE \/ stopper = "gathering"
  /\ conn = "session" => ws = TRUE
  /\ ws = TRUE => conn = "session" \/ stopper = "gathering"
  /\ fatal = TRUE => conn = "done"

(* An attempt under way is one the budget allows.                          *)
BudgetInv ==
  conn \in {"connecting", "authenticating", "session"}
    => attempts < ReconnectMaxAttempts

(* TypeOK in two parts: the Boolean fields, and the rest.                  *)
BooleanFields ==
  /\ running \in BOOLEAN /\ fatal \in BOOLEAN
  /\ ws \in BOOLEAN /\ queueTask \in BOOLEAN

OtherFields ==
  /\ starter \in {"idle", "fetching_info", "fetching_uid", "polling",
                  "stopping", "true", "false"}
  /\ stopper \in {"idle", "gathering", "stopped"}
  /\ conn \in {"none", "loop", "connecting", "authenticating", "session",
               "backoff", "done"}
  /\ attempts \in 0..ReconnectMaxAttempts
  /\ cursor \in 0..(Endpoints - 1)
  /\ sock \in {"none", "open", "closed"}
  /\ orphans \in Nat
  /\ ack \in {"fresh", "stale"}
  /\ tried \in SUBSET (0..(Endpoints - 1))

IInv == BooleanFields /\ OtherFields /\ SocketInv /\ LifeInv /\ BudgetInv

LEMMA InitIInv == Init => IInv
<1> SUFFICES ASSUME Init PROVE IInv  OBVIOUS
<1>1. BooleanFields  BY Zenon DEF Init, BooleanFields
<1>2. OtherFields /\ SocketInv /\ BudgetInv
  BY ClientAssumption DEF Init, OtherFields, SocketInv, BudgetInv
<1>3. LifeInv  BY DEF Init, LifeInv
<1> QED  BY <1>1, <1>2, <1>3 DEF IInv

LEMMA NextCursor ==
  ASSUME NEW c \in 0..(Endpoints - 1)
  PROVE  (c + 1) % Endpoints = IF c + 1 = Endpoints THEN 0 ELSE c + 1
  BY ClientAssumption, Z3

LEMMA NextBooleans == IInv /\ [Next]_vars => BooleanFields'
<1> SUFFICES ASSUME BooleanFields, [Next]_vars PROVE BooleanFields'
  BY DEF IInv
<1>1. CASE UNCHANGED vars \/ Discarded
  BY <1>1, Zenon DEF vars, Discarded, BooleanFields
<1>2. CASE Start \/ StartSteps \/ Stop
  BY <1>2, Zenon DEF BooleanFields, StartSteps, Start, loopLocals,
     StartInfoFails, StartInfoOk, StartTasks, PollSeesSocket, PollGivesUp,
     StopBegins, Stop
<1>3. CASE StopSteps
  BY <1>3, Zenon DEF BooleanFields, StopSteps, CancelQueueTask, loopLocals,
     CancelConnectLoop, lifecycle, StopCompletes
<1>4. CASE LoopSteps
  BY <1>4, Zenon DEF BooleanFields, LoopSteps, LoopConnects, lifecycle,
     LoopGivesUp, loopLocals, ConnectFails, BackOff, ConnectSucceeds,
     AuthAccepted, AuthRejected, AuthFails, BackoffEnds, SessionEnds
<1>5. CASE AckGoesStale \/ AckArrives \/ WatchdogCloses \/ PeerCloses
  BY <1>5, Zenon DEF BooleanFields, AckGoesStale, lifecycle, loopLocals,
     AckArrives, WatchdogCloses, PeerCloses
<1> QED  BY <1>1, <1>2, <1>3, <1>4, <1>5 DEF Next

LEMMA NextIInv == IInv /\ [Next]_vars => IInv'
<1> SUFFICES ASSUME IInv, [Next]_vars
             PROVE  (OtherFields /\ SocketInv /\ LifeInv /\ BudgetInv)'
  BY NextBooleans DEF IInv
<1> USE ClientAssumption
    DEF IInv, BooleanFields, OtherFields, SocketInv, LifeInv, BudgetInv
<1>1. CASE UNCHANGED vars \/ Discarded  BY <1>1 DEF vars, Discarded
<1>2. CASE Start  BY <1>2, SMTT(30) DEF Start, loopLocals
<1>3. CASE StartInfoFails  BY <1>3 DEF StartInfoFails, loopLocals
<1>4. CASE StartInfoOk  BY <1>4 DEF StartInfoOk, loopLocals
<1>5. CASE StartTasks  BY <1>5 DEF StartTasks
<1>6. CASE PollSeesSocket  BY <1>6 DEF PollSeesSocket, loopLocals
<1>7. CASE PollGivesUp  BY <1>7 DEF PollGivesUp, StopBegins, loopLocals
<1>8. CASE Stop  BY <1>8 DEF Stop, StopBegins, loopLocals
<1>9. CASE CancelQueueTask  BY <1>9 DEF CancelQueueTask, Cancelled, loopLocals
<1>10. CASE CancelConnectLoop
  BY <1>10 DEF CancelConnectLoop, Cancelled, lifecycle, loopLocals
<1>11. CASE StopCompletes  BY <1>11 DEF StopCompletes, Cancelled, loopLocals
<1>12. CASE LoopConnects  BY <1>12, NextCursor DEF LoopConnects, lifecycle
<1>13. CASE LoopGivesUp  BY <1>13 DEF LoopGivesUp, lifecycle, loopLocals
<1>14. CASE ConnectFails  BY <1>14 DEF ConnectFails, BackOff, lifecycle
<1>15. CASE ConnectSucceeds  BY <1>15 DEF ConnectSucceeds, lifecycle, loopLocals
<1>16. CASE AuthAccepted  BY <1>16 DEF AuthAccepted, lifecycle
<1>17. CASE AuthRejected  BY <1>17 DEF AuthRejected, lifecycle, loopLocals
<1>18. CASE AuthFails  BY <1>18 DEF AuthFails, BackOff, lifecycle
<1>19. CASE BackoffEnds  BY <1>19 DEF BackoffEnds, lifecycle, loopLocals
<1>20. CASE SessionEnds  BY <1>20 DEF SessionEnds, BackOff, lifecycle
<1>21. CASE AckGoesStale  BY <1>21 DEF AckGoesStale, lifecycle, loopLocals
<1>22. CASE AckArrives  BY <1>22 DEF AckArrives, lifecycle, loopLocals
<1>23. CASE WatchdogCloses  BY <1>23 DEF WatchdogCloses, lifecycle, loopLocals
<1>24. CASE PeerCloses  BY <1>24 DEF PeerCloses, lifecycle, loopLocals
<1> QED
  BY <1>1, <1>2, <1>3, <1>4, <1>5, <1>6, <1>7, <1>8, <1>9, <1>10, <1>11, <1>12,
     <1>13, <1>14, <1>15, <1>16, <1>17, <1>18, <1>19, <1>20, <1>21, <1>22,
     <1>23, <1>24
  DEF Next, StartSteps, StopSteps, LoopSteps

LEMMA Inductive == Spec => []IInv
  BY InitIInv, NextIInv, PTL DEF Spec

(* The fields of the client and the places of its activities keep their    *)
(* types; attempts never exceeds the budget.                               *)
THEOREM TypeCorrect == Spec => []TypeOK
<1>1. IInv => TypeOK  BY Zenon DEF IInv, BooleanFields, OtherFields, TypeOK
<1> QED  BY <1>1, Inductive, PTL

(* At most one upstream socket is open, whatever attempt, loss or          *)
(* cancellation came before.                                               *)
THEOREM OneSocketCorrect == Spec => []OneSocket
<1>1. IInv => OneSocket
  BY DEF IInv, OtherFields, SocketInv, OneSocket, OpenSockets
<1> QED  BY <1>1, Inductive, PTL

(* self.ws is set exactly while there is a session for stop() to close.    *)
THEOREM WsCorrect == Spec => []WsFollowsSession
<1>1. IInv => WsFollowsSession
  BY Zenon DEF IInv, BooleanFields, LifeInv, WsFollowsSession, Cancelled
<1> QED  BY <1>1, Inductive, PTL

(* stop() leaves no task, no self.ws and no socket behind but the orphan   *)
(* of a cancelled auth exchange.                                           *)
THEOREM StopCorrect == Spec => []StopLeavesNothing
<1>1. IInv => StopLeavesNothing
  <2> SUFFICES ASSUME IInv, stopper = "stopped"
               PROVE  /\ running = FALSE /\ ws = FALSE /\ queueTask = FALSE
                      /\ conn = "done" /\ sock # "open" /\ orphans <= 1
    BY Zenon DEF StopLeavesNothing
  <2>1. running = FALSE /\ ws = FALSE /\ queueTask = FALSE /\ conn = "done"
    BY Zenon DEF IInv, LifeInv
  <2>2. sock # "open" /\ orphans <= 1
    BY <2>1 DEF IInv, OtherFields, SocketInv
  <2> QED  BY <2>1, <2>2
<1> QED  BY <1>1, Inductive, PTL

(* After a rejected token no step opens a socket or moves the loop.        *)
LEMMA NoRetryStep ==
  IInv /\ [Next]_vars => [fatal => OpenSockets' <= OpenSockets /\ conn' = conn]_vars
<1> SUFFICES ASSUME IInv, Next, fatal = TRUE
             PROVE  orphans' = orphans /\ sock' \in {sock, "none"} /\ conn' = conn
  <2>1. CASE UNCHANGED vars  BY <2>1
  <2>2. CASE ~UNCHANGED vars /\ fatal = TRUE
    BY <2>2 DEF IInv, OtherFields, OpenSockets
  <2> QED  BY <2>1, <2>2, Zenon DEF IInv, BooleanFields
<1>1. /\ conn = "done" /\ starter \notin {"idle", "fetching_info", "fetching_uid"}
      /\ orphans \in Nat
  BY DEF IInv, LifeInv, OtherFields
<1>2. CASE Start \/ StartSteps \/ Stop
  BY <1>1, <1>2 DEF Start, StartSteps, StartInfoFails, StartInfoOk, StartTasks,
     PollSeesSocket, PollGivesUp, Stop, StopBegins
<1>3. CASE StopSteps \/ Discarded
  BY <1>1, <1>3 DEF StopSteps, CancelQueueTask, CancelConnectLoop, StopCompletes,
     Discarded, vars
<1>4. ~LoopSteps /\ ~(AckGoesStale \/ AckArrives \/ WatchdogCloses \/ PeerCloses)
  BY <1>1 DEF LoopSteps, LoopConnects, LoopGivesUp, ConnectFails, ConnectSucceeds,
     AuthAccepted, AuthRejected, AuthFails, BackoffEnds, SessionEnds,
     AckGoesStale, AckArrives, WatchdogCloses, PeerCloses
<1> QED  BY <1>2, <1>3, <1>4 DEF Next

(* A rejected token is never retried.                                      *)
THEOREM NoRetryCorrect == Spec => NoRetryAfterRejection
  BY Inductive, NoRetryStep, PTL DEF Spec, NoRetryAfterRejection

-----------------------------------------------------------------------------
(* How many connections ago endpoint e was tried, when the endpoints are   *)
(* taken in turn and c is the next one.                                    *)
Ago(e, c) == IF e < c THEN c - 1 - e ELSE c - 1 - e + Endpoints

(* The connections since the last good session: every attempt but the one  *)
(* that only counted the end of that session.                              *)
Connections ==
  IF conn \in {"connecting", "authenticating", "session"}
  THEN attempts ELSE attempts - 1

(* The endpoints of the last connections are among those tried.            *)
TriedInv ==
  /\ conn # "none" =>
       \A e \in 0..(Endpoints - 1) : Ago(e, cursor) < Connections => e \in tried
  /\ (conn = "done" /\ running = TRUE /\ fatal = FALSE)
       => attempts = ReconnectMaxAttempts

LEMMA InitTried == Init => TriedInv
  BY DEF Init, TriedInv

LEMMA NextTried == IInv /\ TriedInv /\ [Next]_vars => TriedInv'
<1> SUFFICES ASSUME IInv, TriedInv, [Next]_vars PROVE TriedInv'  OBVIOUS
<1> USE ClientAssumption DEF IInv, OtherFields, Connections, Ago
<1>1. CASE UNCHANGED vars \/ Discarded
  BY <1>1 DEF vars, Discarded, TriedInv
<1>2. CASE Start \/ StartSteps \/ Stop
  BY <1>2 DEF Start, StartSteps, StartInfoFails, StartInfoOk, StartTasks, LifeInv,
     PollSeesSocket, PollGivesUp, Stop, StopBegins, TriedInv, loopLocals
<1>3. CASE CancelQueueTask \/ StopCompletes
  BY <1>3 DEF CancelQueueTask, StopCompletes, TriedInv, loopLocals
<1>4. CASE CancelConnectLoop
  BY <1>4 DEF CancelConnectLoop, Cancelled, LifeInv, TriedInv, loopLocals, lifecycle
<1>5. CASE LoopConnects
  <2>1. cursor' = IF cursor + 1 = Endpoints THEN 0 ELSE cursor + 1
    BY <1>5, NextCursor DEF LoopConnects
  <2>2. \A e \in 0..(Endpoints - 1) : e # cursor => Ago(e, cursor') = Ago(e, cursor) + 1
    BY <2>1
  <2> QED  BY <1>5, <2>1, <2>2 DEF LoopConnects, TriedInv, lifecycle
<1>6. CASE LoopGivesUp
  BY <1>6 DEF LoopGivesUp, TriedInv, loopLocals, lifecycle
<1>7. CASE ConnectFails \/ AuthFails
  BY <1>7 DEF ConnectFails, AuthFails, BackOff, TriedInv, lifecycle
<1>8. CASE ConnectSucceeds \/ BackoffEnds
  BY <1>8 DEF ConnectSucceeds, BackoffEnds, TriedInv, loopLocals, lifecycle
<1>9. CASE AuthAccepted
  BY <1>9 DEF AuthAccepted, TriedInv, lifecycle
<1>10. CASE AuthRejected
  BY <1>10 DEF AuthRejected, TriedInv, loopLocals, lifecycle
<1>11. CASE SessionEnds
  BY <1>11 DEF SessionEnds, BackOff, TriedInv, lifecycle
<1>12. CASE AckGoesStale \/ AckArrives \/ WatchdogCloses \/ PeerCloses
  BY <1>12 DEF AckGoesStale, AckArrives, WatchdogCloses, PeerCloses, TriedInv,
     loopLocals, lifecycle
<1> QED
  BY <1>1, <1>2, <1>3, <1>4, <1>5, <1>6, <1>7, <1>8, <1>9, <1>10, <1>11, <1>12
  DEF Next, StopSteps, LoopSteps

(* The budget is not spent before every endpoint had its turn.             *)
THEOREM GivesUpCorrect == Spec => []GivesUpAfterTryingAll
<1>1. IInv /\ TriedInv => GivesUpAfterTryingAll
  <2> SUFFICES ASSUME IInv, TriedInv, conn = "done", running, ~fatal,
                      Endpoints < ReconnectMaxAttempts
               PROVE  tried = 0..(Endpoints - 1)
    BY DEF GivesUpAfterTryingAll
  <2>1. running = TRUE /\ fatal = FALSE
    BY Zenon DEF IInv, BooleanFields
  <2>2. attempts = ReconnectMaxAttempts
    BY <2>1 DEF TriedInv
  <2>3. attempts - 1 >= Endpoints
    BY <2>2, ClientAssumption
  <2>4. \A e \in 0..(Endpoints - 1) : Ago(e, cursor) < Endpoints
    BY ClientAssumption DEF IInv, OtherFields, Ago
  <2>5. \A e \in 0..(Endpoints - 1) : Ago(e, cursor) \in Int
    BY ClientAssumption DEF IInv, OtherFields, Ago
  <2>6. attempts \in Int /\ tried \subseteq 0..(Endpoints - 1)
    BY DEF IInv, OtherFields
  <2>7. Connections = attempts - 1
    BY DEF Connections
  <2>8. ASSUME NEW e \in 0..(Endpoints - 1) PROVE e \in tried
    <3>1. Ago(e, cursor) < Connections
      BY <2>3, <2>4, <2>5, <2>6, <2>7, ClientAssumption
    <3> QED  BY <3>1 DEF TriedInv
  <2> QED  BY <2>6, <2>8
<1> QED  BY <1>1, Inductive, InitTried, NextTried, PTL DEF Spec

=============================================================================
