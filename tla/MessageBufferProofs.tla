------------------------- MODULE MessageBufferProofs -------------------------
(***************************************************************************)
(* Safety of the live-message buffer for every capacity, every set of raw  *)
(* commands and every number of messages.                                  *)
(***************************************************************************)
EXTENDS MessageBuffer, FiniteSetTheorems, TLAPS

(* The inductive invariant: the counter agrees with the lanes, which keeps *)
(* get() away from its RuntimeError, which keeps the task states honest.   *)
IInv ==
  /\ TypeOK
  /\ SizeMatchesLanes
  /\ GetNeverFails
  /\ NoLostWakeup
  /\ MetricsAccountForAll

(* Every message is classified into one of the three priorities.           *)
LEMMA ClassifyType ==
  ASSUME NEW raw
  PROVE  classify_message(raw) \in Priority
BY DEF classify_message, Priority, CRITICAL, NORMAL, LOW

(* What _enqueue buffers is a well-formed BufferedMessage.                  *)
LEMMA BufferedType ==
  ASSUME TypeOK, NEW raw
  PROVE  /\ Buffered(raw) \in BufferedMessage
         /\ Buffered(raw).priority \in Priority
BY ClassifyType DEF TypeOK, Buffered, BufferedMessage

(* A lane chosen for eviction exists, is less important than the newcomer  *)
(* and is the least important one that holds anything.                     *)
LEMMA VictimLaneProperties ==
  ASSUME NEW p \in Priority, VictimLanes(p) # {}
  PROVE  /\ VictimLane(p) \in Priority
         /\ VictimLane(p) > p
         /\ queues[VictimLane(p)] # <<>>
         /\ \A q \in Priority : q > VictimLane(p) => queues[q] = <<>>
<1>1. \E v \in VictimLanes(p) : \A w \in VictimLanes(p) : w <= v
  BY DEF VictimLanes, NonEmptyLanes, Priority, CRITICAL, NORMAL, LOW
<1>2. /\ VictimLane(p) \in VictimLanes(p)
      /\ \A w \in VictimLanes(p) : w <= VictimLane(p)
  BY <1>1 DEF VictimLane
<1>3. /\ VictimLane(p) \in Priority
      /\ VictimLane(p) > p
      /\ queues[VictimLane(p)] # <<>>
  BY <1>2 DEF VictimLanes, NonEmptyLanes
<1>4. ASSUME NEW q \in Priority, q > VictimLane(p), queues[q] # <<>>
      PROVE  FALSE
  <2>1. q > p
    BY <1>3, <1>4 DEF Priority, CRITICAL, NORMAL, LOW
  <2>2. q \in VictimLanes(p)
    BY <2>1, <1>4 DEF VictimLanes, NonEmptyLanes
  <2>3. QED
    BY <2>2, <1>2, <1>3, <1>4 DEF Priority, CRITICAL, NORMAL, LOW
<1>5. QED
  BY <1>3, <1>4

(* The lane get() pops from exists and holds something.                     *)
LEMMA FirstLaneProperties ==
  ASSUME NonEmptyLanes # {}
  PROVE  FirstLane \in Priority /\ queues[FirstLane] # <<>>
<1>1. \E p \in NonEmptyLanes : \A q \in NonEmptyLanes : p <= q
  BY DEF NonEmptyLanes, Priority, CRITICAL, NORMAL, LOW
<1>2. FirstLane \in NonEmptyLanes
  BY <1>1 DEF FirstLane
<1>3. QED
  BY <1>2 DEF NonEmptyLanes

(* Appending to one lane makes the buffer one message deeper.               *)
LEMMA AppendDepth ==
  ASSUME NEW f \in [Priority -> Seq(BufferedMessage)], NEW p \in Priority,
         NEW m \in BufferedMessage,
         NEW g, g = [f EXCEPT ![p] = Append(@, m)]
  PROVE  /\ g \in [Priority -> Seq(BufferedMessage)]
         /\ DepthOf(g) = DepthOf(f) + 1
<1>1. \A q \in Priority : f[q] \in Seq(BufferedMessage)
  OBVIOUS
<1>2. /\ Append(f[p], m) \in Seq(BufferedMessage)
      /\ Len(Append(f[p], m)) = Len(f[p]) + 1
  BY <1>1
<1>3. /\ g[p] = Append(f[p], m)
      /\ \A q \in Priority : q # p => g[q] = f[q]
  OBVIOUS
<1>4. g \in [Priority -> Seq(BufferedMessage)]
  BY <1>2
<1>5. \A q \in Priority : Len(f[q]) \in Nat
  BY <1>1
<1>6. /\ Len(g[p]) = Len(f[p]) + 1
      /\ \A q \in Priority : q # p => Len(g[q]) = Len(f[q])
  BY <1>2, <1>3
<1>7. DepthOf(g) = DepthOf(f) + 1
  <2> DEFINE a == Len(f[0])  b == Len(f[1])  c == Len(f[2])
             A == Len(g[0])  B == Len(g[1])  C == Len(g[2])
  <2>1. /\ a \in Nat /\ b \in Nat /\ c \in Nat
        /\ \/ A = a + 1 /\ B = b /\ C = c
           \/ A = a /\ B = b + 1 /\ C = c
           \/ A = a /\ B = b /\ C = c + 1
    BY <1>5, <1>6 DEF Priority, CRITICAL, NORMAL, LOW
  <2>2. DepthOf(f) = a + b + c /\ DepthOf(g) = A + B + C
    BY DEF DepthOf, CRITICAL, NORMAL, LOW
  <2> HIDE DEF a, b, c, A, B, C
  <2>3. QED
    BY <2>1, <2>2
<1>8. QED
  BY <1>4, <1>7

(* Popping from a non-empty lane makes the buffer one message shallower.    *)
LEMMA PopDepth ==
  ASSUME NEW f \in [Priority -> Seq(BufferedMessage)], NEW p \in Priority,
         f[p] # <<>>,
         NEW g, g = [f EXCEPT ![p] = Tail(@)]
  PROVE  /\ g \in [Priority -> Seq(BufferedMessage)]
         /\ DepthOf(g) = DepthOf(f) - 1
<1>1. \A q \in Priority : f[q] \in Seq(BufferedMessage)
  OBVIOUS
<1>2. /\ Tail(f[p]) \in Seq(BufferedMessage)
      /\ Len(Tail(f[p])) = Len(f[p]) - 1
  BY <1>1
<1>3. /\ g[p] = Tail(f[p])
      /\ \A q \in Priority : q # p => g[q] = f[q]
  OBVIOUS
<1>4. g \in [Priority -> Seq(BufferedMessage)]
  BY <1>2
<1>5. \A q \in Priority : Len(f[q]) \in Nat
  BY <1>1
<1>6. /\ Len(g[p]) = Len(f[p]) - 1
      /\ \A q \in Priority : q # p => Len(g[q]) = Len(f[q])
  BY <1>2, <1>3
<1>7. DepthOf(g) = DepthOf(f) - 1
  <2> DEFINE a == Len(f[0])  b == Len(f[1])  c == Len(f[2])
             A == Len(g[0])  B == Len(g[1])  C == Len(g[2])
  <2>1. /\ a \in Nat /\ b \in Nat /\ c \in Nat
        /\ \/ A = a - 1 /\ B = b /\ C = c
           \/ A = a /\ B = b - 1 /\ C = c
           \/ A = a /\ B = b /\ C = c - 1
    BY <1>5, <1>6 DEF Priority, CRITICAL, NORMAL, LOW
  <2>2. DepthOf(f) = a + b + c /\ DepthOf(g) = A + B + C
    BY DEF DepthOf, CRITICAL, NORMAL, LOW
  <2> HIDE DEF a, b, c, A, B, C
  <2>3. QED
    BY <2>1, <2>2
<1>8. QED
  BY <1>4, <1>7

(* The depth of well-typed lanes is a natural number.                       *)
LEMMA DepthType ==
  ASSUME NEW f \in [Priority -> Seq(BufferedMessage)]
  PROVE  DepthOf(f) \in Nat
<1>1. \A q \in Priority : Len(f[q]) \in Nat
  OBVIOUS
<1>2. QED
  BY <1>1 DEF DepthOf, Priority, CRITICAL, NORMAL, LOW

(* The same fact about a step that changes the lanes.                       *)
LEMMA AppendStep ==
  ASSUME TypeOK, NEW p \in Priority, NEW m \in BufferedMessage,
         queues' = [queues EXCEPT ![p] = Append(@, m)]
  PROVE  /\ queues' \in [Priority -> Seq(BufferedMessage)]
         /\ Depth' = Depth + 1
<1>1. queues \in [Priority -> Seq(BufferedMessage)]
  BY DEF TypeOK
<1>2. \A g : g = [queues EXCEPT ![p] = Append(@, m)] =>
               /\ g \in [Priority -> Seq(BufferedMessage)]
               /\ DepthOf(g) = DepthOf(queues) + 1
  BY <1>1, AppendDepth
<1>3. QED
  BY <1>2 DEF Depth

(* Evicting from one lane and appending to another keeps the depth.         *)
LEMMA EvictStep ==
  ASSUME TypeOK, NEW p \in Priority, NEW v \in Priority, v # p,
         queues[v] # <<>>, NEW m \in BufferedMessage,
         queues' = [queues EXCEPT ![v] = Tail(@), ![p] = Append(@, m)]
  PROVE  /\ queues' \in [Priority -> Seq(BufferedMessage)]
         /\ Depth' = Depth
<1> DEFINE h == [queues EXCEPT ![v] = Tail(@)]
<1>1. queues \in [Priority -> Seq(BufferedMessage)]
  BY DEF TypeOK
<1>2. queues' = [h EXCEPT ![p] = Append(@, m)]
  BY <1>1
<1>3. /\ h \in [Priority -> Seq(BufferedMessage)]
      /\ DepthOf(h) = DepthOf(queues) - 1
  BY <1>1, PopDepth
<1> HIDE DEF h
<1>4. \A g : g = [h EXCEPT ![p] = Append(@, m)] =>
               /\ g \in [Priority -> Seq(BufferedMessage)]
               /\ DepthOf(g) = DepthOf(h) + 1
  BY <1>3, AppendDepth
<1>5. DepthOf(queues) \in Nat
  BY <1>1, DepthType
<1>6. queues' \in [Priority -> Seq(BufferedMessage)] /\ Depth' = DepthOf(h) + 1
  BY <1>2, <1>4 DEF Depth
<1>7. Depth' = Depth
  <2> DEFINE dh == DepthOf(h)
  <2>1. Depth \in Nat /\ dh = Depth - 1 /\ Depth' = dh + 1
    BY <1>3, <1>5, <1>6 DEF Depth
  <2> HIDE DEF dh
  <2>2. QED
    BY <2>1
<1>8. QED
  BY <1>6, <1>7

(* Counting one more drop of some priority adds one to the total.           *)
LEMMA DropCounted ==
  ASSUME TypeOK, NEW p \in Priority,
         dropped' = [dropped EXCEPT ![p] = @ + 1]
  PROVE  /\ dropped' \in [Priority -> Nat]
         /\ TotalDropped' = TotalDropped + 1
<1>1. \A q \in Priority : dropped[q] \in Nat
  BY DEF TypeOK
<1>2. \A q \in Priority :
        dropped'[q] = IF q = p THEN dropped[q] + 1 ELSE dropped[q]
  BY DEF TypeOK
<1>3. dropped' \in [Priority -> Nat]
  BY <1>1 DEF TypeOK
<1>4. TotalDropped' = TotalDropped + 1
  BY <1>1, <1>2 DEF TotalDropped, Priority, CRITICAL, NORMAL, LOW
<1>5. QED
  BY <1>3, <1>4

(* An empty buffer has depth zero.                                          *)
LEMMA EmptyDepth ==
  ASSUME queues = [p \in Priority |-> <<>>]
  PROVE  /\ queues \in [Priority -> Seq(BufferedMessage)]
         /\ Depth = 0
BY DEF Depth, DepthOf, Priority, CRITICAL, NORMAL, LOW

(* The invariant holds of a client that was never started.                  *)
LEMMA InitIInv == Init => IInv
<1> SUFFICES ASSUME Init PROVE IInv
  OBVIOUS
<1>1. /\ queues \in [Priority -> Seq(BufferedMessage)]
      /\ Depth = 0
  BY EmptyDepth DEF Init
<1>2. TypeOK
  BY <1>1 DEF Init, TypeOK, Consumers
<1>3. SizeMatchesLanes
  BY <1>1, BufferAssumption DEF Init, SizeMatchesLanes
<1>4. GetNeverFails /\ NoLostWakeup /\ MetricsAccountForAll
  BY DEF Init, GetNeverFails, NoLostWakeup, MetricsAccountForAll
<1>5. QED
  BY <1>2, <1>3, <1>4 DEF IInv

(* Each of the three outcomes of _enqueue keeps the invariant.              *)
LEMMA EnqueueFreeIInv ==
  ASSUME IInv, NEW raw \in RawCommands, running, UNCHANGED <<running, processed>>,
         received' = received + 1, EnqueueFree(raw)
  PROVE  IInv'
<1> DEFINE m == Buffered(raw)
<1> USE DEF IInv
<1>1. m \in BufferedMessage /\ m.priority \in Priority
  BY BufferedType
<1>2. /\ queues' \in [Priority -> Seq(BufferedMessage)]
      /\ Depth' = Depth + 1
  <2> HIDE DEF m
  <2>1. queues' = [queues EXCEPT ![m.priority] = Append(@, m)]
    BY DEF EnqueueFree, m
  <2>2. QED
    BY <1>1, <2>1, AppendStep
<1>3. TypeOK'
  BY <1>2 DEF TypeOK, EnqueueFree, SetNotEmpty, Larger, Consumers
<1>4. SizeMatchesLanes'
  BY <1>2, BufferAssumption DEF TypeOK, SizeMatchesLanes, EnqueueFree
<1>5. GetNeverFails' /\ NoLostWakeup'
  BY DEF TypeOK, GetNeverFails, NoLostWakeup, EnqueueFree, SetNotEmpty
<1>6. MetricsAccountForAll'
  <2>1. TotalDropped' = TotalDropped /\ TotalDropped \in Nat
    BY DEF TotalDropped, EnqueueFree, TypeOK, Priority, CRITICAL, NORMAL, LOW
  <2>2. QED
    BY <2>1 DEF MetricsAccountForAll, EnqueueFree, Larger, TypeOK
<1>7. QED
  BY <1>3, <1>4, <1>5, <1>6

LEMMA EnqueueEvictingIInv ==
  ASSUME IInv, NEW raw \in RawCommands, running, UNCHANGED <<running, processed>>,
         received' = received + 1, EnqueueEvicting(raw)
  PROVE  IInv'
<1> DEFINE m == Buffered(raw)
           v == VictimLane(m.priority)
<1> USE DEF IInv
<1>1. m \in BufferedMessage /\ m.priority \in Priority
  BY BufferedType
<1>2. v \in Priority /\ v # m.priority /\ queues[v] # <<>>
  <2>1. VictimLanes(m.priority) # {}
    BY DEF EnqueueEvicting
  <2> HIDE DEF m
  <2>2. v > m.priority /\ v \in Priority /\ queues[v] # <<>>
    BY <1>1, <2>1, VictimLaneProperties
  <2>3. QED
    BY <2>2, <1>1 DEF Priority, CRITICAL, NORMAL, LOW
<1>3. /\ queues' = [queues EXCEPT ![v] = Tail(@), ![m.priority] = Append(@, m)]
      /\ dropped' = [dropped EXCEPT ![v] = @ + 1]
  BY DEF EnqueueEvicting
<1> HIDE DEF m, v
<1>4. /\ queues' \in [Priority -> Seq(BufferedMessage)]
      /\ Depth' = Depth
  BY <1>1, <1>2, <1>3, EvictStep
<1>5. /\ dropped' \in [Priority -> Nat]
      /\ TotalDropped' = TotalDropped + 1
  BY <1>2, <1>3, DropCounted
<1>6. TypeOK'
  <2>1. size' = size /\ size \in Nat
    BY DEF TypeOK, EnqueueEvicting
  <2>2. notEmpty' \in BOOLEAN /\ consumer' \in Consumers
    BY DEF TypeOK, EnqueueEvicting, SetNotEmpty, Consumers
  <2>3. enqueued' \in Nat /\ peak' \in Nat
    BY <2>1 DEF TypeOK, EnqueueEvicting, Larger
  <2>4. QED
    BY <1>4, <1>5, <2>1, <2>2, <2>3 DEF TypeOK
<1>7. SizeMatchesLanes'
  BY <1>4 DEF TypeOK, SizeMatchesLanes, EnqueueEvicting
<1>8. GetNeverFails' /\ NoLostWakeup'
  BY BufferAssumption DEF TypeOK, GetNeverFails, NoLostWakeup, EnqueueEvicting, SetNotEmpty
<1>9. MetricsAccountForAll'
  <2>1. TotalDropped \in Nat
    BY DEF TotalDropped, TypeOK, Priority, CRITICAL, NORMAL, LOW
  <2>2. QED
    BY <2>1, <1>5 DEF MetricsAccountForAll, EnqueueEvicting, Larger, TypeOK
<1>10. QED
  BY <1>6, <1>7, <1>8, <1>9

LEMMA EnqueueRejectedIInv ==
  ASSUME IInv, NEW raw \in RawCommands, running, UNCHANGED <<running, processed>>,
         received' = received + 1, EnqueueRejected(raw)
  PROVE  IInv'
<1> USE DEF IInv
<1>1. Buffered(raw).priority \in Priority
  BY BufferedType
<1>2. /\ dropped' \in [Priority -> Nat]
      /\ TotalDropped' = TotalDropped + 1
  BY <1>1, DropCounted DEF EnqueueRejected
<1>3. TypeOK'
  BY <1>2 DEF TypeOK, EnqueueRejected
<1>4. SizeMatchesLanes' /\ GetNeverFails' /\ NoLostWakeup'
  BY DEF SizeMatchesLanes, Depth, GetNeverFails, NoLostWakeup, EnqueueRejected
<1>5. MetricsAccountForAll'
  <2>1. TotalDropped \in Nat
    BY DEF TotalDropped, TypeOK, Priority, CRITICAL, NORMAL, LOW
  <2>2. QED
    BY <2>1, <1>2 DEF MetricsAccountForAll, EnqueueRejected, TypeOK
<1>6. QED
  BY <1>3, <1>4, <1>5

(* Dispatching keeps the invariant: the size counter being right, get()     *)
(* finds a lane to pop from.                                                *)
LEMMA GetDispatchesIInv ==
  ASSUME IInv, GetDispatches
  PROVE  IInv'
<1> USE DEF IInv
<1>1. NonEmptyLanes # {}
  <2>1. SUFFICES ASSUME NonEmptyLanes = {} PROVE FALSE
    OBVIOUS
  <2>2. \A p \in Priority : Len(queues[p]) = 0
    BY <2>1 DEF NonEmptyLanes
  <2>3. Depth = 0
    <3>1. /\ Len(queues[CRITICAL]) = 0
          /\ Len(queues[NORMAL]) = 0
          /\ Len(queues[LOW]) = 0
      BY <2>2 DEF Priority
    <3>2. QED
      BY <3>1 DEF Depth, DepthOf
  <2>4. QED
    BY <2>3 DEF SizeMatchesLanes, GetDispatches
<1>2. FirstLane \in Priority /\ queues[FirstLane] # <<>>
  BY <1>1, FirstLaneProperties
<1>3. /\ queues' = [queues EXCEPT ![FirstLane] = Tail(@)]
      /\ size' = size - 1
      /\ notEmpty' = IF size' = 0 THEN FALSE ELSE notEmpty
      /\ processed' = processed + 1
      /\ consumer' = "dispatching"
  BY <1>1 DEF GetDispatches
<1>4. /\ queues' \in [Priority -> Seq(BufferedMessage)]
      /\ Depth' = Depth - 1
  BY <1>2, <1>3, PopDepth DEF TypeOK, Depth
<1>5. size \in Nat /\ size # 0
  BY DEF GetDispatches, TypeOK
<1>6. TypeOK'
  <2>1. notEmpty' \in BOOLEAN
    BY <1>3, Zenon DEF TypeOK
  <2>2. size' \in Nat /\ processed' \in Nat
    BY <1>3, <1>5 DEF TypeOK
  <2>3. QED
    BY <1>3, <1>4, <2>1, <2>2 DEF TypeOK, GetDispatches, Consumers
<1>7. SizeMatchesLanes'
  BY <1>3, <1>4, <1>5, BufferAssumption DEF SizeMatchesLanes
<1>8. GetNeverFails' /\ NoLostWakeup'
  BY <1>3 DEF GetNeverFails, NoLostWakeup
<1>9. MetricsAccountForAll'
  <2>1. TotalDropped' = TotalDropped /\ TotalDropped \in Nat
    BY DEF TotalDropped, GetDispatches, TypeOK, Priority, CRITICAL, NORMAL, LOW
  <2>2. QED
    BY <2>1, <1>3, <1>5 DEF MetricsAccountForAll, GetDispatches, TypeOK
<1>10. QED
  BY <1>6, <1>7, <1>8, <1>9

(* Emptying the buffer, in start() and at the end of stop(), keeps it.      *)
LEMMA EmptyingIInv ==
  ASSUME IInv, Start \/ StopClears
  PROVE  IInv'
<1> USE DEF IInv
<1>1. queues' = [p \in Priority |-> <<>>]
  BY DEF Start, StopClears
<1>2. /\ queues' \in [Priority -> Seq(BufferedMessage)]
      /\ Depth' = 0
  BY <1>1 DEF Depth, DepthOf, Priority, CRITICAL, NORMAL, LOW
<1>3. TypeOK'
  <2>1. CASE Start
    BY <2>1, <1>2 DEF TypeOK, Start, Consumers
  <2>2. CASE StopClears
    BY <2>2, <1>2 DEF TypeOK, StopClears, Consumers, metrics
  <2>3. QED
    BY <2>1, <2>2
<1>4. SizeMatchesLanes'
  BY <1>2, BufferAssumption DEF SizeMatchesLanes, Start, StopClears
<1>5. GetNeverFails' /\ NoLostWakeup'
  BY DEF GetNeverFails, NoLostWakeup, Start, StopClears
<1>6. MetricsAccountForAll'
  <2>1. CASE Start
    <3>1. TotalDropped' = 0
      BY <2>1 DEF TotalDropped, Priority, CRITICAL, NORMAL, LOW, Start
    <3>2. QED
      BY <2>1, <3>1 DEF MetricsAccountForAll, Start
  <2>2. CASE StopClears
    BY <2>2 DEF MetricsAccountForAll, StopClears
  <2>3. QED
    BY <2>1, <2>2
<1>7. QED
  BY <1>3, <1>4, <1>5, <1>6

(* Every step of the client keeps the invariant.                            *)
LEMMA NextIInv == IInv /\ [Next]_vars => IInv'
<1> SUFFICES ASSUME IInv, [Next]_vars PROVE IInv'
  OBVIOUS
<1>1. CASE Start \/ StopClears
  BY <1>1, EmptyingIInv
<1>2. ASSUME NEW raw \in RawCommands, Enqueue(raw) PROVE IInv'
  BY <1>2, EnqueueFreeIInv, EnqueueEvictingIInv, EnqueueRejectedIInv DEF Enqueue
<1>3. CASE GetWaits
  <2>1. TypeOK'
    BY <1>3 DEF IInv, TypeOK, GetWaits, Consumers, metrics
  <2>2. SizeMatchesLanes'
    BY <1>3 DEF IInv, SizeMatchesLanes, Depth, GetWaits
  <2>3. GetNeverFails' /\ NoLostWakeup'
    BY <1>3 DEF GetNeverFails, NoLostWakeup, GetWaits
  <2>4. MetricsAccountForAll'
    BY <1>3 DEF IInv, MetricsAccountForAll, TotalDropped, GetWaits, metrics
  <2>5. QED
    BY <2>1, <2>2, <2>3, <2>4 DEF IInv
<1>4. CASE GetDispatches
  BY <1>4, GetDispatchesIInv
<1>5. CASE StopRequested
  <2>1. TypeOK'
    BY <1>5 DEF IInv, TypeOK, StopRequested, metrics
  <2>2. SizeMatchesLanes' /\ GetNeverFails' /\ NoLostWakeup'
    BY <1>5 DEF IInv, SizeMatchesLanes, Depth, GetNeverFails, NoLostWakeup, StopRequested
  <2>3. MetricsAccountForAll'
    BY <1>5 DEF MetricsAccountForAll, StopRequested
  <2>4. QED
    BY <2>1, <2>2, <2>3 DEF IInv
<1>6. CASE UNCHANGED vars
  BY <1>6 DEF IInv, TypeOK, SizeMatchesLanes, Depth, GetNeverFails, NoLostWakeup,
              MetricsAccountForAll, TotalDropped, vars
<1>7. QED
  BY <1>1, <1>2, <1>3, <1>4, <1>5, <1>6 DEF Next

(* The inductive invariant holds in every reachable state.                  *)
THEOREM Invariance == Spec => []IInv
BY InitIInv, NextIInv, PTL DEF Spec

(* Types of the buffer, the metrics and the task states, for every capacity.*)
THEOREM TypeCorrect == Spec => []TypeOK
BY Invariance, PTL DEF IInv

(* _size always equals the number of buffered messages and never exceeds    *)
(* maxsize, and so get() cannot reach its RuntimeError.                     *)
THEOREM SizeCorrect == Spec => [](SizeMatchesLanes /\ GetNeverFails)
BY Invariance, PTL DEF IInv

(* The consumer never sleeps on a non-empty buffer.                         *)
THEOREM WakeupCorrect == Spec => []NoLostWakeup
BY Invariance, PTL DEF IInv

(* The published metrics account for every received message.                *)
THEOREM MetricsCorrect == Spec => []MetricsAccountForAll
BY Invariance, PTL DEF IInv

(* Overload never sheds a message while a less important one is buffered.   *)
THEOREM SheddingCorrect == Spec => ShedsLeastImportant
<1> DEFINE A == \A p \in Priority :
                  dropped'[p] > dropped[p] =>
                    /\ size = MaxSize
                    /\ \A q \in Priority : q > p => queues[q] = <<>>
<1>1. ASSUME IInv, [Next]_vars PROVE [A]_vars
  <2> SUFFICES ASSUME NEW p \in Priority, dropped'[p] > dropped[p], Next
               PROVE  /\ size = MaxSize
                      /\ \A q \in Priority : q > p => queues[q] = <<>>
    BY <1>1 DEF vars
  <2>1. PICK raw \in RawCommands : Enqueue(raw)
    <3>1. dropped' # dropped
      BY <1>1 DEF IInv, TypeOK
    <3>2. ~Start
      BY <1>1 DEF Start, IInv, TypeOK
    <3>3. QED
      BY <3>1, <3>2 DEF Next, GetWaits, GetDispatches, StopRequested, StopClears, metrics
  <2>2. Buffered(raw).priority \in Priority
    BY <1>1, BufferedType DEF IInv
  <2>3. CASE EnqueueEvicting(raw)
    <3> DEFINE v == VictimLane(Buffered(raw).priority)
    <3>1. /\ v \in Priority
          /\ \A q \in Priority : q > v => queues[q] = <<>>
      BY <2>2, <2>3, VictimLaneProperties DEF EnqueueEvicting
    <3>2. dropped' = [dropped EXCEPT ![v] = @ + 1] /\ size >= MaxSize
      BY <2>3 DEF EnqueueEvicting
    <3> HIDE DEF v
    <3>3. p = v
      BY <3>1, <3>2, <1>1 DEF IInv, TypeOK
    <3>4. QED
      BY <3>1, <3>2, <3>3, <1>1, BufferAssumption DEF IInv, TypeOK, SizeMatchesLanes
  <2>4. CASE EnqueueRejected(raw)
    <3>1. p = Buffered(raw).priority
      BY <2>2, <2>4, <1>1 DEF EnqueueRejected, IInv, TypeOK
    <3>2. \A q \in Priority : q > p => queues[q] = <<>>
      BY <2>4, <3>1 DEF EnqueueRejected, VictimLanes, NonEmptyLanes
    <3>3. size = MaxSize
      BY <2>4, <1>1, BufferAssumption DEF EnqueueRejected, IInv, TypeOK, SizeMatchesLanes
    <3>4. QED
      BY <3>2, <3>3
  <2>5. CASE EnqueueFree(raw)
    BY <2>5, <1>1 DEF EnqueueFree, IInv, TypeOK
  <2>6. QED
    BY <2>1, <2>3, <2>4, <2>5 DEF Enqueue
<1>2. QED
  BY <1>1, Invariance, PTL DEF Spec, ShedsLeastImportant

-----------------------------------------------------------------------------
(* The buffer implements the abstract priority queue.                      *)

HeldOf(f) == UNION {{f[p][i] : i \in DOMAIN f[p]} : p \in Priority}

(* Every lane holds messages of its own priority in order of arrival, none *)
(* after the n-th.                                                         *)
Ordered(f, n) ==
  /\ f \in [Priority -> Seq(BufferedMessage)]
  /\ \A p \in Priority : \A i \in DOMAIN f[p] :
       f[p][i].priority = p /\ f[p][i].enqueued_at <= n
  /\ \A p \in Priority : \A i, j \in DOMAIN f[p] :
       i < j => f[p][i].enqueued_at < f[p][j].enqueued_at

LEMMA HeldIs ==
  ASSUME NEW f, NEW m
  PROVE  m \in HeldOf(f) <=> \E p \in Priority : \E i \in DOMAIN f[p] : m = f[p][i]
<1>1. m \in HeldOf(f) <=> \E p \in Priority : m \in {f[p][i] : i \in DOMAIN f[p]}
  BY DEF HeldOf
<1> QED  BY <1>1

LEMMA OrderedTimes ==
  ASSUME NEW f, NEW n, Ordered(f, n)
  PROVE  \A q \in Priority : \A i \in DOMAIN f[q] :
           f[q][i] \in BufferedMessage /\ f[q][i].enqueued_at \in Nat
<1>1. ASSUME NEW q \in Priority, NEW i \in DOMAIN f[q] PROVE f[q][i] \in BufferedMessage
  <2>1. f[q] \in Seq(BufferedMessage)
    BY DEF Ordered
  <2> QED  BY <1>1, <2>1
<1>2. \A m \in BufferedMessage : m.enqueued_at \in Nat
  BY DEF BufferedMessage
<1> QED  BY <1>1, <1>2

LEMMA AppendHeld ==
  ASSUME NEW f, NEW n \in Nat, Ordered(f, n), NEW p \in Priority,
         NEW m \in BufferedMessage, m.priority = p, m.enqueued_at = n + 1,
         NEW g \in [Priority -> Seq(BufferedMessage)],
         g[p] = Append(f[p], m), \A q \in Priority \ {p} : g[q] = f[q]
  PROVE  /\ Ordered(g, n + 1)
         /\ HeldOf(g) = HeldOf(f) \cup {m}
         /\ m \notin HeldOf(f)
<1>1. f[p] \in Seq(BufferedMessage) /\ g \in [Priority -> Seq(BufferedMessage)]
  BY DEF Ordered
<1>2. g[p] = Append(f[p], m) /\ \A q \in Priority \ {p} : g[q] = f[q]
  OBVIOUS
<1>3. /\ DOMAIN g[p] = DOMAIN f[p] \cup {Len(f[p]) + 1}
      /\ g[p][Len(f[p]) + 1] = m
      /\ \A i \in DOMAIN f[p] : g[p][i] = f[p][i] /\ i <= Len(f[p]) /\ i \in Nat
      /\ Len(f[p]) \in Nat
  BY <1>1, <1>2
<1>4. \A q \in Priority : \A i \in DOMAIN f[q] :
        f[q][i].enqueued_at \in Nat /\ f[q][i].enqueued_at <= n
  BY OrderedTimes DEF Ordered
<1>5. Ordered(g, n + 1)
  <2>1. \A q \in Priority : \A i \in DOMAIN g[q] :
          g[q][i].priority = q /\ g[q][i].enqueued_at <= n + 1
    <3> SUFFICES ASSUME NEW q \in Priority, NEW i \in DOMAIN g[q]
                 PROVE  g[q][i].priority = q /\ g[q][i].enqueued_at <= n + 1
      OBVIOUS
    <3>1. CASE q # p
      BY <1>2, <1>4, <3>1 DEF Ordered
    <3>2. CASE q = p /\ i \in DOMAIN f[p]
      BY <1>3, <1>4, <3>2 DEF Ordered
    <3>3. CASE q = p /\ i = Len(f[p]) + 1
      BY <1>3, <3>3
    <3> QED  BY <1>3, <3>1, <3>2, <3>3
  <2>2. \A q \in Priority : \A i, j \in DOMAIN g[q] :
          i < j => g[q][i].enqueued_at < g[q][j].enqueued_at
    <3> SUFFICES ASSUME NEW q \in Priority, NEW i \in DOMAIN g[q], NEW j \in DOMAIN g[q], i < j
                 PROVE  g[q][i].enqueued_at < g[q][j].enqueued_at
      OBVIOUS
    <3>1. CASE q # p
      BY <1>2, <3>1 DEF Ordered
    <3>2. CASE q = p /\ j \in DOMAIN f[p] /\ i \in DOMAIN f[p]
      BY <1>3, <3>2 DEF Ordered
    <3>3. CASE q = p /\ j = Len(f[p]) + 1 /\ i \in DOMAIN f[p]
      <4>1. g[q][j].enqueued_at = n + 1 /\ g[q][i] = f[p][i]
        BY <1>3, <3>3
      <4> QED  BY <1>4, <3>3, <4>1
    <3>4. i \in DOMAIN f[p] \/ q # p
      BY <1>3
    <3> QED  BY <1>3, <3>1, <3>2, <3>3, <3>4
  <2> QED  BY <1>1, <2>1, <2>2 DEF Ordered
<1>6. ASSUME NEW x, x \in HeldOf(g) PROVE x \in HeldOf(f) \/ x = m
  <2>1. PICK q \in Priority : \E i \in DOMAIN g[q] : x = g[q][i]
    BY <1>6, HeldIs
  <2>2. PICK i \in DOMAIN g[q] : x = g[q][i]
    BY <2>1
  <2>3. CASE q # p
    BY <1>2, <2>2, <2>3, HeldIs
  <2>4. CASE q = p
    BY <1>3, <2>2, <2>4, HeldIs
  <2> QED  BY <2>3, <2>4
<1>7. ASSUME NEW x, x \in HeldOf(f) PROVE x \in HeldOf(g)
  <2>1. PICK q \in Priority : \E i \in DOMAIN f[q] : x = f[q][i]
    BY <1>7, HeldIs
  <2>2. PICK i \in DOMAIN f[q] : x = f[q][i]
    BY <2>1
  <2>3. i \in DOMAIN g[q] /\ g[q][i] = x
    BY <1>2, <1>3, <2>2
  <2> QED  BY <2>3, HeldIs
<1>8. m \in HeldOf(g)
  BY <1>3, HeldIs
<1>9. ASSUME m \in HeldOf(f) PROVE FALSE
  <2>1. PICK q \in Priority : \E i \in DOMAIN f[q] : m = f[q][i]
    BY <1>9, HeldIs
  <2> QED  BY <1>4, <2>1
<1> QED  BY <1>5, <1>6, <1>7, <1>8, <1>9

LEMMA PopHeld ==
  ASSUME NEW f, NEW n \in Nat, Ordered(f, n), NEW p \in Priority, f[p] # <<>>,
         NEW g \in [Priority -> Seq(BufferedMessage)],
         g[p] = Tail(f[p]), \A q \in Priority \ {p} : g[q] = f[q]
  PROVE  /\ Ordered(g, n)
         /\ HeldOf(g) = HeldOf(f) \ {f[p][1]}
         /\ f[p][1] \in HeldOf(f)
         /\ 1 \in DOMAIN f[p]
<1>1. f[p] \in Seq(BufferedMessage) /\ g \in [Priority -> Seq(BufferedMessage)]
  BY DEF Ordered
<1>2. g[p] = Tail(f[p]) /\ \A q \in Priority \ {p} : g[q] = f[q]
  OBVIOUS
<1>3. /\ Len(f[p]) \in Nat /\ Len(f[p]) >= 1 /\ DOMAIN f[p] = 1..Len(f[p])
      /\ DOMAIN g[p] = 1..(Len(f[p]) - 1)
      /\ \A i \in DOMAIN g[p] : g[p][i] = f[p][i + 1]
  BY <1>1, <1>2
<1>3a. \A i \in DOMAIN g[p] :
        i \in Nat /\ i + 1 \in DOMAIN f[p] /\ g[p][i] = f[p][i + 1] /\ 1 < i + 1
  BY <1>3
<1>4. \A q \in Priority : \A i \in DOMAIN f[q] : f[q][i].enqueued_at \in Nat
  BY OrderedTimes
<1>5. Ordered(g, n)
  <2>1. \A q \in Priority : \A i \in DOMAIN g[q] :
          g[q][i].priority = q /\ g[q][i].enqueued_at <= n
    <3> SUFFICES ASSUME NEW q \in Priority, NEW i \in DOMAIN g[q]
                 PROVE  g[q][i].priority = q /\ g[q][i].enqueued_at <= n
      OBVIOUS
    <3>1. CASE q # p
      BY <1>2, <3>1 DEF Ordered
    <3>2. CASE q = p
      <4>1. i + 1 \in DOMAIN f[p] /\ g[q][i] = f[p][i + 1]
        BY <1>3a, <3>2
      <4> QED  BY <3>2, <4>1 DEF Ordered
    <3> QED  BY <3>1, <3>2
  <2>2. \A q \in Priority : \A i, j \in DOMAIN g[q] :
          i < j => g[q][i].enqueued_at < g[q][j].enqueued_at
    <3> SUFFICES ASSUME NEW q \in Priority, NEW i \in DOMAIN g[q], NEW j \in DOMAIN g[q], i < j
                 PROVE  g[q][i].enqueued_at < g[q][j].enqueued_at
      OBVIOUS
    <3>1. CASE q # p
      BY <1>2, <3>1 DEF Ordered
    <3>2. CASE q = p
      <4>1. /\ i + 1 \in DOMAIN f[p] /\ g[q][i] = f[p][i + 1]
            /\ j + 1 \in DOMAIN f[p] /\ g[q][j] = f[p][j + 1]
            /\ i \in Nat /\ j \in Nat
        BY <1>3a, <3>2
      <4>2. i + 1 < j + 1
        BY <4>1
      <4> QED  BY <4>1, <4>2 DEF Ordered
    <3> QED  BY <3>1, <3>2
  <2> QED  BY <1>1, <2>1, <2>2 DEF Ordered
<1>6. 1 \in DOMAIN f[p] /\ f[p][1] \in HeldOf(f)
  BY <1>3, HeldIs
<1>7. ASSUME NEW x, x \in HeldOf(g) PROVE x \in HeldOf(f) /\ x # f[p][1]
  <2>1. PICK q \in Priority : \E i \in DOMAIN g[q] : x = g[q][i]
    BY <1>7, HeldIs
  <2>2. PICK i \in DOMAIN g[q] : x = g[q][i]
    BY <2>1
  <2>3. CASE q # p
    <3>1. i \in DOMAIN f[q] /\ x = f[q][i] /\ x.priority = q /\ f[p][1].priority = p
      BY <1>2, <1>6, <2>2, <2>3 DEF Ordered
    <3> QED  BY <2>3, <3>1, HeldIs
  <2>4. CASE q = p
    <3>1. i + 1 \in DOMAIN f[p] /\ x = f[p][i + 1] /\ 1 < i + 1
      BY <1>3a, <2>2, <2>4
    <3>2. f[p][1].enqueued_at < x.enqueued_at /\ x.enqueued_at \in Nat
      BY <1>4, <1>6, <3>1 DEF Ordered
    <3>3. x # f[p][1]
      BY <3>2
    <3> QED  BY <3>1, <3>3, HeldIs
  <2> QED  BY <2>3, <2>4
<1>8. ASSUME NEW x, x \in HeldOf(f), x # f[p][1] PROVE x \in HeldOf(g)
  <2>1. PICK q \in Priority : \E i \in DOMAIN f[q] : x = f[q][i]
    BY <1>8, HeldIs
  <2>2. PICK i \in DOMAIN f[q] : x = f[q][i]
    BY <2>1
  <2>3. CASE q # p
    BY <1>2, <2>2, <2>3, HeldIs
  <2>4. CASE q = p
    <3>1. i # 1 /\ i \in 1..Len(f[p])
      BY <1>3, <1>8, <2>2, <2>4
    <3>2. i - 1 \in DOMAIN g[p] /\ (i - 1) + 1 = i
      BY <1>3, <3>1
    <3>3. g[p][i - 1] = x
      BY <1>3, <2>2, <2>4, <3>2
    <3> QED  BY <3>2, <3>3, HeldIs
  <2> QED  BY <2>3, <2>4
<1> QED  BY <1>5, <1>6, <1>7, <1>8

(* The front of a lane is the oldest message of its priority.              *)
LEMMA OldestIs ==
  ASSUME NEW f, NEW n, Ordered(f, n), NEW p \in Priority, 1 \in DOMAIN f[p],
         NEW S, S = {m \in HeldOf(f) : m.priority = p}
  PROVE  Queue!Oldest(S) = f[p][1]
<1>1. \A m : m \in S <=> \E i \in DOMAIN f[p] : m = f[p][i]
  <2>1. ASSUME NEW m \in S PROVE \E i \in DOMAIN f[p] : m = f[p][i]
    <3>1. PICK q \in Priority : \E i \in DOMAIN f[q] : m = f[q][i]
      BY <2>1, HeldIs
    <3>2. q = p
      BY <2>1, <3>1 DEF Ordered
    <3> QED  BY <3>1, <3>2
  <2>2. ASSUME NEW i \in DOMAIN f[p] PROVE f[p][i] \in S
    <3>1. f[p][i] \in HeldOf(f)
      BY HeldIs
    <3>2. f[p][i].priority = p
      BY DEF Ordered
    <3> QED  BY <3>1, <3>2
  <2> QED  BY <2>1, <2>2
<1>2. \A i \in DOMAIN f[p] : i \in Nat /\ i >= 1 /\ f[p][i].enqueued_at \in Nat
  <2>1. f[p] \in Seq(BufferedMessage)
    BY DEF Ordered
  <2> QED  BY <2>1, OrderedTimes
<1>3. \A i \in DOMAIN f[p] : i # 1 => f[p][1].enqueued_at < f[p][i].enqueued_at
  BY <1>2 DEF Ordered
<1> DEFINE P(m) == \A x \in S : m.enqueued_at <= x.enqueued_at
<1>4. f[p][1] \in S /\ P(f[p][1])
  BY <1>1, <1>2, <1>3
<1>5. ASSUME NEW m \in S, P(m) PROVE m = f[p][1]
  <2>1. PICK i \in DOMAIN f[p] : m = f[p][i]
    BY <1>1
  <2>2. m.enqueued_at <= f[p][1].enqueued_at
    BY <1>4, <1>5
  <2>3. i = 1
    BY <1>2, <1>3, <2>1, <2>2
  <2> QED  BY <2>1, <2>3
<1>6. Queue!Oldest(S) = CHOOSE m \in S : P(m)
  BY DEF Queue!Oldest
<1> HIDE DEF P
<1> QED  BY <1>4, <1>5, <1>6

LEMMA HeldPriority ==
  ASSUME NEW f, NEW n, Ordered(f, n), NEW m \in HeldOf(f)
  PROVE  /\ m \in BufferedMessage /\ m.priority \in Priority /\ f[m.priority] # <<>>
<1>1. PICK q \in Priority : \E i \in DOMAIN f[q] : m = f[q][i]
  BY HeldIs
<1>2. PICK i \in DOMAIN f[q] : m = f[q][i]
  BY <1>1
<1>3. m \in BufferedMessage /\ m.priority = q
  BY <1>2, OrderedTimes DEF Ordered
<1>4. f[q] # <<>>
  BY <1>2
<1> QED  BY <1>3, <1>4

LEMMA BestIs ==
  ASSUME NEW f, NEW n, Ordered(f, n), NEW p \in Priority, 1 \in DOMAIN f[p],
         \A q \in Priority : q < p => f[q] = <<>>
  PROVE  Queue!Best(HeldOf(f)) = f[p][1]
<1> DEFINE S == {m \in HeldOf(f) : m.priority = p}
           T == {m \in HeldOf(f) : \A x \in HeldOf(f) : m.priority <= x.priority}
<1>1. f[p][1] \in HeldOf(f) /\ f[p][1].priority = p
  BY HeldIs DEF Ordered
<1>2. \A m \in HeldOf(f) : m.priority \in Priority /\ ~(m.priority < p)
  BY HeldPriority
<1>3. S = T
  <2>1. ASSUME NEW m \in S PROVE m \in T
    BY <1>2 DEF Priority, CRITICAL, NORMAL, LOW
  <2>2. ASSUME NEW m \in T PROVE m \in S
    <3>1. m \in HeldOf(f) /\ m.priority <= p /\ m.priority \in Priority /\ ~(m.priority < p)
      BY <1>1, <1>2
    <3>2. m.priority = p
      BY <3>1 DEF Priority, CRITICAL, NORMAL, LOW
    <3> QED  BY <3>1, <3>2
  <2> QED  BY <2>1, <2>2
<1>4. Queue!Best(HeldOf(f)) = Queue!Oldest(T)
  BY DEF Queue!Best
<1>5. PICK U : U = S
  OBVIOUS
<1>6. Queue!Oldest(U) = f[p][1]
  BY <1>5, OldestIs
<1> QED  BY <1>3, <1>4, <1>5, <1>6

LEMMA WorstIs ==
  ASSUME NEW f, NEW n, Ordered(f, n), NEW p \in Priority, 1 \in DOMAIN f[p],
         \A q \in Priority : q > p => f[q] = <<>>
  PROVE  Queue!Worst(HeldOf(f)) = f[p][1]
<1> DEFINE S == {m \in HeldOf(f) : m.priority = p}
           T == {m \in HeldOf(f) : \A x \in HeldOf(f) : m.priority >= x.priority}
<1>1. f[p][1] \in HeldOf(f) /\ f[p][1].priority = p
  BY HeldIs DEF Ordered
<1>2. \A m \in HeldOf(f) : m.priority \in Priority /\ ~(m.priority > p)
  BY HeldPriority
<1>3. S = T
  <2>1. ASSUME NEW m \in S PROVE m \in T
    BY <1>2 DEF Priority, CRITICAL, NORMAL, LOW
  <2>2. ASSUME NEW m \in T PROVE m \in S
    <3>1. m \in HeldOf(f) /\ m.priority >= p /\ m.priority \in Priority /\ ~(m.priority > p)
      BY <1>1, <1>2
    <3>2. m.priority = p
      BY <3>1 DEF Priority, CRITICAL, NORMAL, LOW
    <3> QED  BY <3>1, <3>2
  <2> QED  BY <2>1, <2>2
<1>4. Queue!Worst(HeldOf(f)) = Queue!Oldest(T)
  BY DEF Queue!Worst
<1>5. PICK U : U = S
  OBVIOUS
<1>6. Queue!Oldest(U) = f[p][1]
  BY <1>5, OldestIs
<1> QED  BY <1>3, <1>4, <1>5, <1>6

-----------------------------------------------------------------------------
(* The refinement, step by step.                                           *)

RInv ==
  /\ Ordered(queues, received)
  /\ IsFiniteSet(Held)
  /\ Cardinality(Held) = size

LEMMA HeldOfQueues == Held = HeldOf(queues) /\ Held' = HeldOf(queues')
BY DEF Held, HeldOf

LEMMA NoneHeld ==
  ASSUME NEW f, f = [p \in Priority |-> <<>>]
  PROVE  HeldOf(f) = {} /\ \A n : Ordered(f, n)
<1>1. \A p \in Priority : f[p] = <<>> /\ DOMAIN f[p] = {}
  OBVIOUS
<1>2. f \in [Priority -> Seq(BufferedMessage)]
  OBVIOUS
<1>3. HeldOf(f) = {}
  BY <1>1, HeldIs
<1> QED  BY <1>1, <1>2, <1>3 DEF Ordered

LEMMA RInvEmpty ==
  ASSUME queues' = [p \in Priority |-> <<>>], size' = 0 PROVE RInv' /\ Held' = {}
BY NoneHeld, HeldOfQueues, FS_EmptySet DEF RInv

(* The instance has a Cardinality of its own, with the same definition.    *)
LEMMA SameCardinality == ASSUME NEW S PROVE Queue!Cardinality(S) = Cardinality(S)
BY DEF Cardinality, Queue!Cardinality

LEMMA OfferTaken ==
  ASSUME NEW c, running, received' = received + 1, UNCHANGED <<processed, running>>,
         Cardinality(Held) < MaxSize,
         Held' = Held \cup {[priority |-> c, enqueued_at |-> received + 1]}
  PROVE  Queue!Offer(c)
BY SameCardinality DEF Queue!Offer

LEMMA OfferReplaces ==
  ASSUME NEW c, running, received' = received + 1, UNCHANGED <<processed, running>>,
         Cardinality(Held) = MaxSize, Queue!Worst(Held).priority > c,
         Held' = (Held \ {Queue!Worst(Held)})
                   \cup {[priority |-> c, enqueued_at |-> received + 1]}
  PROVE  Queue!Offer(c)
BY SameCardinality DEF Queue!Offer

LEMMA OfferTurnedAway ==
  ASSUME NEW c, running, received' = received + 1, UNCHANGED <<processed, running>>,
         Cardinality(Held) = MaxSize, Queue!Worst(Held).priority <= c, Held' = Held
  PROVE  Queue!Offer(c)
BY SameCardinality DEF Queue!Offer

(* put_nowait with a free slot is an offer that is taken.                  *)
LEMMA FreeOffers ==
  ASSUME IInv, RInv, NEW raw, running, received' = received + 1,
         EnqueueFree(raw), UNCHANGED <<running, processed>>
  PROVE  RInv' /\ Queue!Offer(classify_message(raw))
<1> DEFINE m == Buffered(raw)  p == classify_message(raw)
<1>1. /\ m \in BufferedMessage /\ p \in Priority /\ received \in Nat /\ size \in Nat
      /\ queues \in [Priority -> Seq(BufferedMessage)] /\ MaxSize \in Nat
  BY BufferedType, ClassifyType, BufferAssumption DEF IInv, TypeOK
<1>2. m.priority = p /\ m.enqueued_at = received + 1
      /\ m = [priority |-> p, enqueued_at |-> received + 1]
  BY DEF Buffered
<1>3. queues' = [queues EXCEPT ![p] = Append(@, m)] /\ size' = size + 1 /\ size < MaxSize
  BY <1>2 DEF EnqueueFree
<1> HIDE DEF m, p
<1>4. /\ queues' \in [Priority -> Seq(BufferedMessage)]
      /\ queues'[p] = Append(queues[p], m)
      /\ \A q \in Priority \ {p} : queues'[q] = queues[q]
  BY <1>1, <1>3
<1>5. PICK f, g, x, k, n : f = queues /\ g = queues' /\ x = m /\ k = p /\ n = received
  OBVIOUS
<1>6. /\ Ordered(g, n + 1)
      /\ HeldOf(g) = HeldOf(f) \cup {x} /\ x \notin HeldOf(f)
  <2>1. /\ Ordered(f, n) /\ n \in Nat /\ k \in Priority /\ x \in BufferedMessage
        /\ x.priority = k /\ x.enqueued_at = n + 1
        /\ g \in [Priority -> Seq(BufferedMessage)]
        /\ g[k] = Append(f[k], x) /\ \A q \in Priority \ {k} : g[q] = f[q]
    BY <1>1, <1>2, <1>4, <1>5 DEF RInv
  <2> QED  BY <2>1, AppendHeld
<1>7. Held' = Held \cup {m} /\ m \notin Held
  BY <1>5, <1>6, HeldOfQueues
<1>8. IsFiniteSet(Held') /\ Cardinality(Held') = size + 1
  BY <1>7, FS_AddElement DEF RInv
<1>9. RInv'
  BY <1>3, <1>5, <1>6, <1>8 DEF RInv
<1>10. Cardinality(Held) < MaxSize
  BY <1>3 DEF RInv
<1>11. Held' = Held \cup {[priority |-> p, enqueued_at |-> received + 1]}
  BY <1>2, <1>7
<1>12. UNCHANGED <<processed, running>>
  OBVIOUS
<1>13. Queue!Offer(p)
  BY <1>10, <1>11, <1>12, OfferTaken
<1> QED  BY <1>9, <1>13 DEF p

(* On a full buffer the front of the least important lane is the worst     *)
(* message, and no message is worse than its lane.                         *)
LEMMA LastLaneIsWorst ==
  ASSUME RInv, NEW p \in Priority, queues[p] # <<>>,
         \A q \in Priority : q > p => queues[q] = <<>>
  PROVE  /\ 1 \in DOMAIN queues[p]
         /\ Queue!Worst(Held) = queues[p][1]
         /\ queues[p][1].priority = p
<1>1. PICK f, n : f = queues /\ n = received
  OBVIOUS
<1>2. Ordered(f, n) /\ f[p] # <<>> /\ \A q \in Priority : q > p => f[q] = <<>>
  BY <1>1 DEF RInv
<1>3. f[p] \in Seq(BufferedMessage) /\ 1 \in DOMAIN f[p]
  BY <1>2 DEF Ordered
<1>4. Queue!Worst(HeldOf(f)) = f[p][1] /\ f[p][1].priority = p
  BY <1>2, <1>3, WorstIs DEF Ordered
<1> QED  BY <1>1, <1>3, <1>4, HeldOfQueues

(* put_nowait that evicts is an offer that replaces the worst message.     *)
LEMMA EvictingOffers ==
  ASSUME IInv, RInv, NEW raw, running, received' = received + 1,
         EnqueueEvicting(raw), UNCHANGED <<running, processed>>
  PROVE  RInv' /\ Queue!Offer(classify_message(raw))
<1> DEFINE m == Buffered(raw)  p == classify_message(raw)  v == VictimLane(p)
<1>1. /\ m \in BufferedMessage /\ p \in Priority /\ received \in Nat /\ size \in Nat
      /\ queues \in [Priority -> Seq(BufferedMessage)] /\ size = MaxSize
  BY BufferedType, ClassifyType, BufferAssumption
     DEF IInv, TypeOK, SizeMatchesLanes, EnqueueEvicting
<1>2. m.priority = p /\ m.enqueued_at = received + 1
      /\ m = [priority |-> p, enqueued_at |-> received + 1]
  BY DEF Buffered
<1>3. /\ queues' = [queues EXCEPT ![v] = Tail(@), ![p] = Append(@, m)]
      /\ size' = (size - 1) + 1 /\ VictimLanes(p) # {}
  BY <1>2 DEF EnqueueEvicting
<1>4. /\ v \in Priority /\ v > p /\ queues[v] # <<>>
      /\ \A q \in Priority : q > v => queues[q] = <<>>
  BY <1>1, <1>3, VictimLaneProperties
<1> HIDE DEF m, p, v
<1>5. v # p
  BY <1>1, <1>4 DEF Priority, CRITICAL, NORMAL, LOW
<1>6. PICK f, h, g, x, k, w, n :
        /\ f = queues /\ g = queues' /\ h = [queues EXCEPT ![v] = Tail(@)]
        /\ x = m /\ k = p /\ w = v /\ n = received
  OBVIOUS
<1>7. f[w] \in Seq(BufferedMessage) /\ Tail(f[w]) \in Seq(BufferedMessage)
  BY <1>1, <1>4, <1>6
<1>8. /\ h \in [Priority -> Seq(BufferedMessage)] /\ h[w] = Tail(f[w])
      /\ \A q \in Priority \ {w} : h[q] = f[q]
  BY <1>1, <1>4, <1>6, <1>7
<1>9. /\ Ordered(h, n) /\ HeldOf(h) = HeldOf(f) \ {f[w][1]} /\ f[w][1] \in HeldOf(f)
  <2>1. Ordered(f, n) /\ n \in Nat /\ w \in Priority /\ f[w] # <<>>
    BY <1>1, <1>4, <1>6 DEF RInv
  <2> QED  BY <1>8, <2>1, PopHeld
<1>10. /\ g \in [Priority -> Seq(BufferedMessage)] /\ g[k] = Append(h[k], x)
       /\ \A q \in Priority \ {k} : g[q] = h[q]
  <2>1. g = [h EXCEPT ![k] = Append(@, x)]
    BY <1>3, <1>5, <1>6, <1>1, <1>4
  <2>2. h[k] \in Seq(BufferedMessage) /\ Append(h[k], x) \in Seq(BufferedMessage)
    BY <1>1, <1>6, <1>8
  <2>3. k \in Priority
    BY <1>1, <1>6
  <2> QED  BY <1>8, <2>1, <2>2, <2>3
<1>11. /\ Ordered(g, n + 1) /\ HeldOf(g) = HeldOf(h) \cup {x} /\ x \notin HeldOf(h)
  <2>1. /\ n \in Nat /\ k \in Priority /\ x \in BufferedMessage
        /\ x.priority = k /\ x.enqueued_at = n + 1
    BY <1>1, <1>2, <1>6
  <2> QED  BY <1>9, <1>10, <2>1, AppendHeld
<1>12. /\ Queue!Worst(Held) = queues[v][1] /\ queues[v][1].priority = v
  BY <1>4, LastLaneIsWorst
<1>13. /\ Held' = (Held \ {Queue!Worst(Held)}) \cup {m}
       /\ Queue!Worst(Held) \in Held /\ m \notin Held \ {Queue!Worst(Held)}
  BY <1>6, <1>9, <1>11, <1>12, HeldOfQueues
<1>14. IsFiniteSet(Held') /\ Cardinality(Held') = (size - 1) + 1
  <2> DEFINE R == Held \ {Queue!Worst(Held)}
  <2>1. IsFiniteSet(R) /\ Cardinality(R) = size - 1
    BY <1>13, FS_RemoveElement DEF RInv
  <2>2. Held' = R \cup {m} /\ m \notin R
    BY <1>13
  <2> HIDE DEF R
  <2> QED  BY <2>1, <2>2, FS_AddElement
<1>15. RInv'
  BY <1>3, <1>6, <1>11, <1>14 DEF RInv
<1>16. Cardinality(Held) = MaxSize /\ Queue!Worst(Held).priority > p
  BY <1>1, <1>4, <1>12 DEF RInv
<1>17. Held' = (Held \ {Queue!Worst(Held)})
                 \cup {[priority |-> p, enqueued_at |-> received + 1]}
  BY <1>2, <1>13
<1>18. UNCHANGED <<processed, running>>
  OBVIOUS
<1>19. Queue!Offer(p)
  BY <1>16, <1>17, <1>18, OfferReplaces
<1> QED  BY <1>15, <1>19 DEF p

(* put_nowait that rejects is an offer that is turned away.                *)
LEMMA RejectedOffers ==
  ASSUME IInv, RInv, NEW raw, running, received' = received + 1,
         EnqueueRejected(raw), UNCHANGED <<running, processed>>
  PROVE  RInv' /\ Queue!Offer(classify_message(raw))
<1> DEFINE p == classify_message(raw)
<1>1. /\ p \in Priority /\ received \in Nat /\ size = MaxSize /\ MaxSize # 0
      /\ queues' = queues /\ size' = size /\ VictimLanes(p) = {}
  BY ClassifyType, BufferAssumption
     DEF IInv, TypeOK, SizeMatchesLanes, EnqueueRejected, Buffered
<1> HIDE DEF p
<1>2. PICK f, n : f = queues /\ n = received
  OBVIOUS
<1>3. Ordered(f, n) /\ n \in Nat
  BY <1>1, <1>2 DEF RInv
<1>4. Ordered(f, n + 1)
  <2>1. \A q \in Priority : \A i \in DOMAIN f[q] : f[q][i].enqueued_at <= n + 1
    <3>1. \A q \in Priority : \A i \in DOMAIN f[q] :
            f[q][i].enqueued_at \in Nat /\ f[q][i].enqueued_at <= n
      BY <1>3, OrderedTimes DEF Ordered
    <3>2. \A t \in Nat : t <= n => t <= n + 1
      BY <1>3
    <3> QED  BY <3>1, <3>2
  <2> QED  BY <1>3, <2>1 DEF Ordered
<1>5. Held' = Held
  BY <1>1, HeldOfQueues
<1>6. RInv'
  BY <1>1, <1>2, <1>4, <1>5 DEF RInv
<1>7. Held # {}
  BY <1>1, FS_EmptySet DEF RInv
<1>8. Queue!Worst(Held).priority <= p
  <2>1. NonEmptyLanes # {}
    <3>1. PICK x : x \in HeldOf(f)
      BY <1>2, <1>7, HeldOfQueues
    <3> QED  BY <1>2, <1>3, <3>1, HeldPriority DEF NonEmptyLanes
  <2>2. PICK w \in NonEmptyLanes : \A q \in NonEmptyLanes : ~(q > w)
    BY <2>1 DEF NonEmptyLanes, Priority, CRITICAL, NORMAL, LOW
  <2>3. /\ w \in Priority /\ queues[w] # <<>>
        /\ \A q \in Priority : q > w => queues[q] = <<>>
    BY <2>2 DEF NonEmptyLanes
  <2>4. Queue!Worst(Held).priority = w
    BY <2>3, LastLaneIsWorst
  <2>5. w <= p
    BY <1>1, <2>2, <2>3 DEF VictimLanes, Priority, CRITICAL, NORMAL, LOW
  <2> QED  BY <2>4, <2>5
<1>9. Cardinality(Held) = MaxSize
  BY <1>1 DEF RInv
<1>10. UNCHANGED <<processed, running>>
  OBVIOUS
<1>11. Queue!Offer(p)
  BY <1>5, <1>8, <1>9, <1>10, OfferTurnedAway
<1> QED  BY <1>6, <1>11 DEF p

(* get() that pops is a delivery of the best message.                      *)
LEMMA FirstLaneIsBest ==
  ASSUME RInv, NonEmptyLanes # {}
  PROVE  /\ FirstLane \in Priority /\ queues[FirstLane] # <<>>
         /\ 1 \in DOMAIN queues[FirstLane]
         /\ Queue!Best(Held) = queues[FirstLane][1]
<1>1. \E p \in NonEmptyLanes : \A q \in NonEmptyLanes : p <= q
  BY DEF NonEmptyLanes, Priority, CRITICAL, NORMAL, LOW
<1>2. FirstLane \in NonEmptyLanes /\ \A q \in NonEmptyLanes : FirstLane <= q
  BY <1>1 DEF FirstLane
<1>3. PICK f, p, n : f = queues /\ p = FirstLane /\ n = received
  OBVIOUS
<1>4. Ordered(f, n) /\ p \in Priority /\ f[p] # <<>>
  BY <1>2, <1>3 DEF RInv, NonEmptyLanes
<1>5. \A q \in Priority : q < p => f[q] = <<>>
  BY <1>2, <1>3, <1>4 DEF NonEmptyLanes, Priority, CRITICAL, NORMAL, LOW
<1>6. f[p] \in Seq(BufferedMessage) /\ 1 \in DOMAIN f[p]
  BY <1>4 DEF Ordered
<1>7. Queue!Best(HeldOf(f)) = f[p][1]
  BY <1>4, <1>5, <1>6, BestIs
<1> QED  BY <1>3, <1>4, <1>6, <1>7, HeldOfQueues

LEMMA Delivered ==
  ASSUME running, Held # {}, Held' = Held \ {Queue!Best(Held)},
         processed' = processed + 1, UNCHANGED <<received, running>>
  PROVE  Queue!Deliver
BY DEF Queue!Deliver

LEMMA DispatchDelivers ==
  ASSUME IInv, RInv, GetDispatches PROVE RInv' /\ Queue!Deliver
<1>1. NonEmptyLanes # {}
  <2>1. size # 0 /\ size = Depth /\ queues \in [Priority -> Seq(BufferedMessage)]
    BY DEF GetDispatches, IInv, SizeMatchesLanes, TypeOK
  <2>2. ASSUME NonEmptyLanes = {} PROVE FALSE
    <3>1. \A p \in Priority : queues[p] = <<>>
      BY <2>2 DEF NonEmptyLanes
    <3>2. queues = [p \in Priority |-> <<>>]
      BY <2>1, <3>1
    <3>3. Depth = 0
      BY <3>2, EmptyDepth
    <3> QED  BY <2>1, <3>3
  <2> QED  BY <2>2
<1>2. /\ FirstLane \in Priority /\ queues[FirstLane] # <<>>
      /\ Queue!Best(Held) = queues[FirstLane][1]
  BY <1>1, FirstLaneIsBest
<1>3. /\ running /\ queues' = [queues EXCEPT ![FirstLane] = Tail(@)] /\ size' = size - 1
      /\ processed' = processed + 1 /\ UNCHANGED <<received, running>>
  BY <1>1, Zenon DEF GetDispatches, Runnable
<1>4. PICK f, g, p, n : f = queues /\ g = queues' /\ p = FirstLane /\ n = received
  OBVIOUS
<1>5. Ordered(f, n) /\ n \in Nat /\ p \in Priority /\ f[p] # <<>>
  BY <1>2, <1>4 DEF RInv, IInv, TypeOK
<1>6. f[p] \in Seq(BufferedMessage) /\ Tail(f[p]) \in Seq(BufferedMessage)
  BY <1>5 DEF Ordered
<1>7. /\ g \in [Priority -> Seq(BufferedMessage)] /\ g[p] = Tail(f[p])
      /\ \A q \in Priority \ {p} : g[q] = f[q]
  BY <1>3, <1>4, <1>5, <1>6 DEF Ordered
<1>8. /\ Ordered(g, n) /\ HeldOf(g) = HeldOf(f) \ {f[p][1]} /\ f[p][1] \in HeldOf(f)
  BY <1>5, <1>7, PopHeld
<1>9. Held' = Held \ {Queue!Best(Held)} /\ Queue!Best(Held) \in Held
  BY <1>2, <1>4, <1>8, HeldOfQueues
<1>10. IsFiniteSet(Held') /\ Cardinality(Held') = size - 1
  BY <1>9, FS_RemoveElement DEF RInv
<1>11. RInv'
  BY <1>3, <1>4, <1>8, <1>10 DEF RInv
<1>12. Queue!Deliver
  BY <1>3, <1>9, Delivered
<1> QED  BY <1>11, <1>12

LEMMA InitQueue == Init => RInv /\ Queue!QInit
<1> SUFFICES ASSUME Init PROVE RInv /\ Queue!QInit
  OBVIOUS
<1>1. queues = [p \in Priority |-> <<>>] /\ size = 0
  BY DEF Init
<1>2. Held = {} /\ Ordered(queues, received)
  BY <1>1, NoneHeld, HeldOfQueues
<1>3. RInv
  BY <1>1, <1>2, FS_EmptySet DEF RInv
<1>4. Queue!QInit
  BY <1>2, Zenon DEF Init, Queue!QInit
<1> QED  BY <1>3, <1>4

(* Every step of the buffer is a step of the queue or changes nothing of   *)
(* it.                                                                     *)
LEMMA NextQueue ==
  IInv /\ RInv /\ [Next]_vars => RInv' /\ [Queue!QNext]_Queue!qvars
<1> SUFFICES ASSUME IInv, RInv, [Next]_vars
             PROVE  RInv' /\ [Queue!QNext]_Queue!qvars
  OBVIOUS
<1>1. ASSUME NEW raw \in RawCommands, Enqueue(raw) PROVE RInv' /\ Queue!QNext
  <2>1. running /\ received' = received + 1 /\ UNCHANGED <<running, processed>>
    BY <1>1 DEF Enqueue
  <2>2. RInv' /\ Queue!Offer(classify_message(raw))
    BY <1>1, <2>1, FreeOffers, EvictingOffers, RejectedOffers DEF Enqueue
  <2> QED  BY <2>2, ClassifyType DEF Queue!QNext
<1>2. CASE GetDispatches
  BY <1>2, DispatchDelivers DEF Queue!QNext
<1>3. CASE UNCHANGED <<queues, size, received, processed, running>>
  <2>1. Held' = Held
    BY <1>3, HeldOfQueues
  <2>2. RInv'
    BY <1>3, <2>1 DEF RInv
  <2>3. UNCHANGED Queue!qvars
    BY <1>3, <2>1 DEF Queue!qvars
  <2> QED  BY <2>2, <2>3
<1>4. CASE Start
  <2>1. RInv' /\ Held' = {}
    BY <1>4, RInvEmpty DEF Start
  <2>2. Queue!Open
    BY <1>4, <2>1, Zenon DEF Start, Queue!Open
  <2> QED  BY <2>1, <2>2 DEF Queue!QNext
<1>5. CASE StopRequested
  <2>1. UNCHANGED <<queues, size, received, processed>>
    BY <1>5 DEF StopRequested, metrics
  <2>2. Held' = Held
    BY <2>1, HeldOfQueues
  <2>3. RInv'
    BY <2>1, <2>2 DEF RInv
  <2>4. Queue!Close
    <3>1. UNCHANGED <<Held, received, processed>>
      BY <2>1, <2>2
    <3> QED  BY <1>5, <3>1, Zenon DEF StopRequested, Queue!Close
  <2> QED  BY <2>3, <2>4 DEF Queue!QNext
<1>6. CASE StopClears
  <2>1. RInv' /\ Held' = {}
    BY <1>6, RInvEmpty DEF StopClears
  <2>2. ~running /\ UNCHANGED <<received, processed, running>>
    BY <1>6 DEF StopClears, metrics
  <2>3. Queue!Clear
    BY <2>1, <2>2, Zenon DEF Queue!Clear
  <2> QED  BY <2>1, <2>3 DEF Queue!QNext
<1>7. CASE GetWaits \/ UNCHANGED vars
  BY <1>3, <1>7 DEF GetWaits, vars, metrics
<1> QED  BY <1>1, <1>2, <1>4, <1>5, <1>6, <1>7 DEF Next

(* For every capacity and every mix of messages the buffer implements the  *)
(* abstract priority queue: best-first and oldest-first delivery,          *)
(* worst-first and oldest-first eviction, and the bound on what is held.   *)
THEOREM RefinesQueue == Spec => ImplementsQueue
BY InitQueue, NextQueue, Invariance, PTL DEF Spec, ImplementsQueue, Queue!QSpec

=============================================================================
