---------------------------- MODULE MessageBuffer ----------------------------
(***************************************************************************)
(* The bounded priority buffer between the live-room socket and the        *)
(* dispatcher: PriorityMessageBuffer (bilibili/message_buffer.py) together *)
(* with its only producer, DanmakuClient._enqueue / _record_drop, and its  *)
(* only consumer, DanmakuClient._process_queue (bilibili/danmaku_ws.py).   *)
(*                                                                         *)
(* All of it runs on one asyncio event loop, so a step is what happens     *)
(* between two awaits.  Payloads are reduced to the raw command and the    *)
(* arrival number; a raw command is the tuple of its ":"-separated parts   *)
(* (a message whose cmd is not a string is the empty tuple).               *)
(***************************************************************************)
EXTENDS Integers, Sequences

CONSTANTS
  MaxSize,    \* _queue_maxsize, the number of slots
  RawCommands,\* the raw commands the socket may deliver
  MaxMsgs     \* bound: messages per start() of the client

ASSUME BufferAssumption ==
  /\ MaxSize \in Nat \ {0}
  /\ MaxMsgs \in Nat
  /\ \A c \in RawCommands : c \in Seq(STRING)

VARIABLES
  queues,     \* self._queues: one FIFO lane per priority
  size,       \* self._size
  notEmpty,   \* self._not_empty.is_set()
  consumer,   \* where the _process_queue task is
  running,    \* DanmakuClient.running
  received,   \* messages handed to _enqueue since start()
  enqueued,   \* metrics.enqueued_messages
  processed,  \* metrics.processed_messages
  dropped,    \* metrics.dropped_by_priority
  peak        \* metrics.queue_peak

vars == <<queues, size, notEmpty, consumer, running,
          received, enqueued, processed, dropped, peak>>

metrics == <<received, enqueued, processed, dropped, peak>>

-----------------------------------------------------------------------------
(* Classification. *)

CRITICAL == 0
NORMAL   == 1
LOW      == 2
Priority == {CRITICAL, NORMAL, LOW}

CriticalCommands ==
  {"DANMU_MSG", "SUPER_CHAT_MESSAGE", "SUPER_CHAT_MESSAGE_JPN",
   "SUPER_CHAT_MESSAGE_DELETE", "ROOM_BLOCK_MSG", "WARNING", "CUT_OFF"}

NormalCommands ==
  {"GUARD_BUY", "SEND_GIFT", "ROOM_ADMIN_ENTRANCE", "ROOM_ADMINS",
   "LIVE", "PREPARING"}

command_name(raw) == IF raw = <<>> THEN "<unknown>" ELSE Head(raw)

classify_message(raw) ==
  CASE command_name(raw) \in CriticalCommands -> CRITICAL
    [] command_name(raw) \in NormalCommands   -> NORMAL
    [] OTHER                                  -> LOW

BufferedMessage == [priority : Priority, enqueued_at : Nat]

-----------------------------------------------------------------------------
(* The buffer. *)

NonEmptyLanes == {p \in Priority : queues[p] # <<>>}

(* Faulty variant: lanes walked from the least important one. *)
LastLane == CHOOSE p \in NonEmptyLanes : \A q \in NonEmptyLanes : p >= q

(* The most important lane that holds a message: the order in which get    *)
(* walks self._queues.                                                     *)
FirstLane == CHOOSE p \in NonEmptyLanes : \A q \in NonEmptyLanes : p <= q

(* The lanes put_nowait may evict from, and the one it takes first.        *)
VictimLanes(p) == {v \in NonEmptyLanes : v > p}

(* Faulty variant: the eviction loop walks the lanes in the wrong order. *)
NearestVictimLane(p) ==
  CHOOSE v \in VictimLanes(p) : \A w \in VictimLanes(p) : w >= v

VictimLane(p)  == CHOOSE v \in VictimLanes(p) : \A w \in VictimLanes(p) : w <= v

(* Faulty variant: the flag is set without waking the waiter. *)
SetFlagOnly == notEmpty' = TRUE /\ UNCHANGED consumer

(* asyncio.Event.set(): a consumer parked in wait() becomes runnable.      *)
SetNotEmpty ==
  /\ notEmpty' = TRUE
  /\ consumer' = IF consumer = "waiting" THEN "woken" ELSE consumer

Larger(a, b) == IF a >= b THEN a ELSE b

Buffered(raw) == [priority |-> classify_message(raw), enqueued_at |-> received + 1]

(* put_nowait with a free slot. *)
EnqueueFree(raw) ==
  LET m == Buffered(raw) IN
  /\ size < MaxSize
  /\ queues' = [queues EXCEPT ![m.priority] = Append(@, m)]
  /\ size' = size + 1
  /\ SetNotEmpty
  /\ enqueued' = enqueued + 1
  /\ peak' = Larger(peak, size')
  /\ UNCHANGED dropped

(* Faulty variants: the eviction does not give its slot back, or is not    *)
(* reported to _record_drop.                                               *)
EvictingWithoutSlot(raw) ==
  LET m == Buffered(raw)
      v == VictimLane(m.priority)
  IN
  /\ size >= MaxSize
  /\ VictimLanes(m.priority) # {}
  /\ queues' = [queues EXCEPT ![v] = Tail(@),
                              ![m.priority] = Append(@, m)]
  /\ size' = size + 1
  /\ SetNotEmpty
  /\ enqueued' = enqueued + 1
  /\ peak' = Larger(peak, size')
  /\ dropped' = [dropped EXCEPT ![v] = @ + 1]

EvictingUncounted(raw) ==
  LET m == Buffered(raw)
      v == VictimLane(m.priority)
  IN
  /\ size >= MaxSize
  /\ VictimLanes(m.priority) # {}
  /\ queues' = [queues EXCEPT ![v] = Tail(@),
                              ![m.priority] = Append(@, m)]
  /\ SetNotEmpty
  /\ enqueued' = enqueued + 1
  /\ UNCHANGED <<size, peak, dropped>>

(* put_nowait on a full buffer: the oldest message of the least important  *)
(* non-empty lane makes room, if that lane is less important than m.       *)
EnqueueEvicting(raw) ==
  LET m == Buffered(raw)
      v == VictimLane(m.priority)
  IN
  /\ size >= MaxSize
  /\ VictimLanes(m.priority) # {}
  /\ queues' = [queues EXCEPT ![v] = Tail(@),
                              ![m.priority] = Append(@, m)]
  /\ size' = (size - 1) + 1
  /\ SetNotEmpty
  /\ enqueued' = enqueued + 1
  /\ peak' = Larger(peak, size')
  /\ dropped' = [dropped EXCEPT ![v] = @ + 1]

(* put_nowait on a full buffer with nothing less important: m is rejected. *)
EnqueueRejected(raw) ==
  LET m == Buffered(raw) IN
  /\ size >= MaxSize
  /\ VictimLanes(m.priority) = {}
  /\ dropped' = [dropped EXCEPT ![m.priority] = @ + 1]
  /\ UNCHANGED <<queues, size, notEmpty, consumer, enqueued, peak>>

(* DanmakuClient._enqueue, called by _listen for every decoded message.    *)
Enqueue(raw) ==
  /\ running
  /\ received < MaxMsgs
  /\ received' = received + 1
  /\ \/ EnqueueFree(raw)
     \/ EnqueueEvicting(raw)
     \/ EnqueueRejected(raw)
  /\ UNCHANGED <<running, processed>>

-----------------------------------------------------------------------------
(* The consumer task.  It runs when it has just been created ("created"),  *)
(* when the event woke it, or when on_message returned ("dispatching").    *)

Runnable == running /\ consumer \in {"created", "woken", "dispatching"}

(* get() on an empty buffer parks the task in Event.wait(). *)
GetWaits ==
  /\ Runnable
  /\ size = 0
  /\ notEmpty' = FALSE
  /\ consumer' = "waiting"
  /\ UNCHANGED <<queues, size, running, metrics>>

(* get() pops the oldest message of the first non-empty lane; the task     *)
(* counts it and awaits on_message.  With no lane to pop from, get raises  *)
(* RuntimeError("buffer size invariant violated") and the task dies.       *)
GetDispatches ==
  /\ Runnable
  /\ size # 0
  /\ IF NonEmptyLanes = {}
     THEN /\ consumer' = "failed"
          /\ UNCHANGED <<queues, size, notEmpty, processed>>
     ELSE /\ queues' = [queues EXCEPT ![FirstLane] = Tail(@)]
          /\ size' = size - 1
          /\ notEmpty' = IF size' = 0 THEN FALSE ELSE notEmpty
          /\ processed' = processed + 1
          /\ consumer' = "dispatching"
  /\ UNCHANGED <<running, received, enqueued, dropped, peak>>

-----------------------------------------------------------------------------
(* Lifecycle, as far as the buffer is concerned. *)

(* start(): fresh metrics, a fresh buffer and a new consumer task. *)
Start ==
  /\ ~running
  /\ consumer = "none"
  /\ running' = TRUE
  /\ queues' = [p \in Priority |-> <<>>]
  /\ size' = 0
  /\ notEmpty' = FALSE
  /\ consumer' = "created"
  /\ received' = 0
  /\ enqueued' = 0
  /\ processed' = 0
  /\ dropped' = [p \in Priority |-> 0]
  /\ peak' = 0

(* stop(), up to its first await: running is off and every task cancelled, *)
(* so neither the listener nor the consumer takes another message.         *)
StopRequested ==
  /\ running
  /\ running' = FALSE
  /\ UNCHANGED <<queues, size, notEmpty, consumer, metrics>>

(* stop(), after the cancelled tasks are gone: msg_queue.clear(). *)
StopClears ==
  /\ ~running
  /\ consumer # "none"
  /\ consumer' = "none"
  /\ queues' = [p \in Priority |-> <<>>]
  /\ size' = 0
  /\ notEmpty' = FALSE
  /\ UNCHANGED <<running, metrics>>

Init ==
  /\ queues = [p \in Priority |-> <<>>]
  /\ size = 0
  /\ notEmpty = FALSE
  /\ consumer = "none"
  /\ running = FALSE
  /\ received = 0
  /\ enqueued = 0
  /\ processed = 0
  /\ dropped = [p \in Priority |-> 0]
  /\ peak = 0

Next ==
  \/ Start
  \/ \E raw \in RawCommands : Enqueue(raw)
  \/ GetWaits
  \/ GetDispatches
  \/ StopRequested
  \/ StopClears

Spec == Init /\ [][Next]_vars

(* The event loop runs every runnable task, and on_message returns (the    *)
(* bridge only takes a lock and puts without blocking).                    *)
FairSpec == Spec /\ WF_vars(GetWaits) /\ WF_vars(GetDispatches)

-----------------------------------------------------------------------------
(* Properties. *)

Consumers == {"none", "created", "waiting", "woken", "dispatching", "failed"}

(* Type invariant of the buffer, the client's metrics and the task states. *)
TypeOK ==
  /\ queues \in [Priority -> Seq(BufferedMessage)]
  /\ size \in Nat
  /\ notEmpty \in BOOLEAN
  /\ consumer \in Consumers
  /\ running \in BOOLEAN
  /\ received \in Nat
  /\ enqueued \in Nat
  /\ processed \in Nat
  /\ dropped \in [Priority -> Nat]
  /\ peak \in Nat

DepthOf(lanes) ==
  Len(lanes[CRITICAL]) + Len(lanes[NORMAL]) + Len(lanes[LOW])

Depth == DepthOf(queues)

TotalDropped == dropped[CRITICAL] + dropped[NORMAL] + dropped[LOW]

(* The hand-kept counter _size agrees with the lanes and never exceeds the *)
(* configured bound, whatever mix of evictions, pops and clears happened.  *)
SizeMatchesLanes == size = Depth /\ size <= MaxSize

(* get() never reaches its RuntimeError("buffer size invariant violated"). *)
GetNeverFails == consumer # "failed"

(* No lost wakeup: a consumer parked in Event.wait() has nothing to take,  *)
(* and a woken one finds a message.                                        *)
NoLostWakeup ==
  /\ consumer = "waiting" => size = 0 /\ ~notEmpty
  /\ consumer = "woken" => size > 0

(* The metrics of metrics_snapshot account for every message handed to     *)
(* _enqueue since start(): dispatched, still buffered, or counted dropped; *)
(* evicted messages were counted as enqueued too, rejected ones were not.  *)
MetricsAccountForAll ==
  running =>
    /\ received = processed + size + TotalDropped
    /\ size <= peak
    /\ peak <= enqueued

(* Load shedding never touches a message while a less important one is     *)
(* buffered; in particular chat and paid messages are only lost when every *)
(* slot holds one.                                                         *)
ShedsLeastImportant ==
  [][\A p \in Priority :
       dropped'[p] > dropped[p] =>
         /\ size = MaxSize
         /\ \A q \in Priority : q > p => queues[q] = <<>>]_vars

(* What the buffer holds, whatever the lane: the abstract queue's content.  *)
Held == UNION {{queues[p][i] : i \in DOMAIN queues[p]} : p \in Priority}

Queue == INSTANCE PriorityQueue WITH
           Capacity  <- MaxSize,
           Classes   <- Priority,
           held      <- Held,
           arrived   <- received,
           delivered <- processed,
           open      <- running

(* Lanes, counter, event and task together implement the promised priority *)
(* queue: best-first, oldest-first delivery and worst-first, oldest-first  *)
(* eviction with a bound on what is held.                                  *)
ImplementsQueue == Queue!QSpec

(* A buffered message does not stay buffered: it is dispatched, evicted or *)
(* cleared by stop().                                                      *)
BufferedIsConsumed ==
  \A n \in 1..MaxMsgs :
    (\E p \in Priority : \E i \in DOMAIN queues[p] :
        queues[p][i].enqueued_at = n)
      ~> (\/ ~running
          \/ \A p \in Priority : \A i \in DOMAIN queues[p] :
               queues[p][i].enqueued_at # n)

=============================================================================
