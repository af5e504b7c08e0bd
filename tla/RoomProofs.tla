----------------------------- MODULE RoomProofs ------------------------------
(***************************************************************************)
(* Proofs about the two state machines of a live room.                     *)
(*                                                                         *)
(* RoomBridge, for any browsers, super chats, queue sizes and replay       *)
(* windows: every browser is sent each event once and in order, a browser  *)
(* that joins is shown the live super chats, and nothing is sent after     *)
(* close().                                                                *)
(*                                                                         *)
(* RoomLifecycle, for any number of calls: which client and which bridge   *)
(* the routes leave behind.                                                *)
(***************************************************************************)
EXTENDS RoomBridge, RoomLifecycle, FiniteSetTheorems, SequenceTheorems,
        WellFoundedInduction, TLAPS

-----------------------------------------------------------------------------
(* Numbers and places. *)

(* The order of the natural numbers as the library's relation. *)
Less == {ss \in Nat \X Nat : ss[1] < ss[2]}

(* A non-empty set of numbers has a least one.                             *)
LEMMA FirstOf ==
  ASSUME NEW S \in SUBSET Nat, S # {}
  PROVE  \E i \in S : \A j \in S : i <= j
<1>1. IsWellFoundedOn(Less, Nat)
  BY NatLessThanWellFounded, Zenon DEF OpToRel, Less
<1>2. PICK k \in S : \A y \in S : ~(<<y, k>> \in Less)
  BY <1>1, WFMin, Zenon
<1>3. \A y \in S : y \in Nat /\ k \in Nat /\ ~(y < k)
  <2> TAKE y \in S
  <2>1. y \in Nat /\ k \in Nat
    OBVIOUS
  <2>2. y < k => <<y, k>> \in Less
    BY <2>1 DEF Less
  <2> QED  BY <1>2, <2>1, <2>2
<1>4. \A y \in S : k <= y
  BY <1>3
<1> QED  BY <1>4

(* A non-empty set of places of a sequence has a last one.                 *)
LEMMA LastOf ==
  ASSUME NEW n \in Nat, NEW S \in SUBSET (1..n), S # {}
  PROVE  \E i \in S : \A j \in S : j <= i
<1> DEFINE T == {k \in Nat : \A j \in S : j <= k}
<1>1. T \in SUBSET Nat /\ n \in T
  OBVIOUS
<1>2. PICK k \in T : \A y \in T : k <= y
  BY <1>1, FirstOf
<1>3. ASSUME k \notin S PROVE FALSE
  <2>1. PICK j \in S : j \in 1..n /\ j <= k
    BY <1>2
  <2>2. k \in Nat /\ k >= 1 /\ k - 1 \in Nat
    BY <1>2, <2>1
  <2>3. \A i \in S : i \in Nat /\ i <= k /\ i # k
    BY <1>2, <1>3
  <2>4. k - 1 \in T
    BY <2>2, <2>3
  <2> QED  BY <1>2, <2>2, <2>4
<1> QED  BY <1>2, <1>3

Upto(K, i) == {j \in K : j <= i}

(* Places are finitely many.                                               *)
LEMMA PlacesFinite ==
  ASSUME NEW n \in Nat, NEW K \in SUBSET (1..n)
  PROVE  IsFiniteSet(K) /\ Cardinality(K) \in Nat
<1>1. IsFiniteSet(1..n)
  BY FS_Interval
<1>2. IsFiniteSet(K)
  BY <1>1, FS_Subset
<1> QED  BY <1>2, FS_CardinalityType

(* The places up to the next one.                                          *)
LEMMA UptoNext ==
  ASSUME NEW n \in Nat, NEW K \in SUBSET (1..n), NEW i \in Nat \ {0}
  PROVE  /\ IsFiniteSet(Upto(K, i)) /\ Cardinality(Upto(K, i)) \in Nat
         /\ i \notin K => Upto(K, i) = Upto(K, i - 1)
         /\ i \in K => Cardinality(Upto(K, i)) = Cardinality(Upto(K, i - 1)) + 1
<1>1. \A j : Upto(K, j) \in SUBSET (1..n)
  BY DEF Upto
<1>3. \A j : IsFiniteSet(Upto(K, j)) /\ Cardinality(Upto(K, j)) \in Nat
  BY <1>1, PlacesFinite
<1>2. \A j \in K : j \in Nat /\ (j <= i <=> (j <= i - 1 \/ j = i)) /\ ~(i <= i - 1)
  <2> TAKE j \in K
  <2>1. j \in Nat
    OBVIOUS
  <2> QED  BY <2>1
<1>4. ASSUME i \notin K PROVE Upto(K, i) = Upto(K, i - 1)
  BY <1>2, <1>4 DEF Upto
<1>5. ASSUME i \in K PROVE Cardinality(Upto(K, i)) = Cardinality(Upto(K, i - 1)) + 1
  <2>1. Upto(K, i) = Upto(K, i - 1) \cup {i} /\ i \notin Upto(K, i - 1)
    BY <1>2, <1>5 DEF Upto
  <2> QED  BY <1>3, <2>1, FS_AddElement
<1> QED  BY <1>3, <1>4, <1>5

(* There is a k-th place for every k up to the number of places.           *)
LEMMA NthExists ==
  ASSUME NEW n \in Nat, NEW K \in SUBSET (1..n), NEW k \in 1..Cardinality(K)
  PROVE  Nth(K, k) \in K
<1> DEFINE T == {i \in Nat : Cardinality(Upto(K, i)) >= k}
<1>0. Upto(K, n) = K /\ Upto(K, 0) = {} /\ Cardinality({}) = 0
  <2>1. \A j \in K : j \in Nat /\ j <= n /\ ~(j <= 0)
    OBVIOUS
  <2> QED  BY <2>1, FS_EmptySet DEF Upto
<1>a. IsFiniteSet(K) /\ Cardinality(K) \in Nat
  BY PlacesFinite
<1>1. T \in SUBSET Nat /\ n \in T
  BY <1>0, <1>a
<1>2. PICK i \in T : \A j \in T : i <= j
  BY <1>1, FirstOf
<1>3. i # 0
  BY <1>0, <1>2
<1>4. i - 1 \in Nat /\ i - 1 \notin T
  BY <1>2, <1>3
<1>5. IsFiniteSet(Upto(K, i - 1)) /\ Cardinality(Upto(K, i - 1)) \in Nat
  <2>1. Upto(K, i - 1) \in SUBSET (1..n)
    BY DEF Upto
  <2> QED  BY <2>1, PlacesFinite
<1>6. Cardinality(Upto(K, i - 1)) < k
  BY <1>4, <1>5
<1>7. i \in Nat \ {0} /\ Cardinality(Upto(K, i)) >= k
  BY <1>2, <1>3
<1>8. i \in K /\ Cardinality(Upto(K, i)) = k
  <2>1. k \in Nat
    BY <1>a
  <2>2. /\ Cardinality(Upto(K, i)) \in Nat
        /\ i \notin K => Upto(K, i) = Upto(K, i - 1)
        /\ i \in K => Cardinality(Upto(K, i)) = Cardinality(Upto(K, i - 1)) + 1
    BY <1>7, UptoNext
  <2> QED  BY <1>5, <1>6, <1>7, <2>1, <2>2
<1> QED  BY <1>8 DEF Nth, Upto

(* Every place is the k-th one for some k.                                 *)
LEMMA NthOnto ==
  ASSUME NEW n \in Nat, NEW K \in SUBSET (1..n), NEW i \in K
  PROVE  \E k \in 1..Cardinality(K) : Nth(K, k) = i
<1> DEFINE k == Cardinality(Upto(K, i))
<1>1. IsFiniteSet(K) /\ Cardinality(K) \in Nat
  BY PlacesFinite
<1>2. \A j \in K : IsFiniteSet(Upto(K, j)) /\ Cardinality(Upto(K, j)) \in Nat
                   /\ Cardinality(Upto(K, j)) <= Cardinality(K)
  <2>1. \A j \in K : Upto(K, j) \subseteq K
    BY DEF Upto
  <2> QED  BY <1>1, <2>1, FS_Subset, FS_CardinalityType
<1>3. k >= 1
  <2>1. i \in Nat \ {0}
    OBVIOUS
  <2>2. IsFiniteSet(Upto(K, i - 1)) /\ Cardinality(Upto(K, i - 1)) \in Nat
    <3>1. Upto(K, i - 1) \in SUBSET (1..n)
      BY DEF Upto
    <3> QED  BY <3>1, PlacesFinite
  <2>3. Cardinality(Upto(K, i)) = Cardinality(Upto(K, i - 1)) + 1
    BY <2>1, UptoNext
  <2> QED  BY <2>2, <2>3
<1>4. ASSUME NEW j \in K, NEW m \in K, m < j,
             Cardinality(Upto(K, j)) = Cardinality(Upto(K, m))
      PROVE  FALSE
  <2>1. Upto(K, m) \subseteq Upto(K, j) /\ j \in Upto(K, j) /\ j \notin Upto(K, m)
    <3>1. \A a \in K : a \in Nat
      OBVIOUS
    <3>2. \A a \in K : (a <= m => a <= j) /\ j <= j /\ ~(j <= m)
      BY <1>4, <3>1
    <3> QED  BY <3>2 DEF Upto
  <2> QED  BY <1>2, <1>4, <2>1, FS_Subset
<1>5. \A j \in K : Cardinality(Upto(K, j)) = k => j = i
  <2> SUFFICES ASSUME NEW j \in K, Cardinality(Upto(K, j)) = k, j # i PROVE FALSE
    OBVIOUS
  <2>1. i \in Nat /\ j \in Nat
    OBVIOUS
  <2>2. j < i \/ i < j
    BY <2>1
  <2> QED  BY <1>4, <2>2
<1>6. Nth(K, k) = i
  BY <1>5 DEF Nth, Upto
<1> QED  BY <1>2, <1>3, <1>6

(* Without(s, S) is a sequence of exactly the elements of s that hold none *)
(* of the super chats of S.                                                *)
LEMMA WithoutIs ==
  ASSUME NEW E, NEW s \in Seq(E), NEW S
  PROVE  /\ Without(s, S) \in Seq(E)
         /\ \A k \in DOMAIN Without(s, S) :
              \E i \in Kept(s, S) : Without(s, S)[k] = s[i]
         /\ \A i \in Kept(s, S) :
              \E k \in DOMAIN Without(s, S) : Without(s, S)[k] = s[i]
<1> DEFINE K == Kept(s, S)
<1>1. Len(s) \in Nat /\ K \in SUBSET (1..Len(s)) /\ \A i \in K : s[i] \in E
  BY DEF Kept
<1>2. Cardinality(K) \in Nat
  BY <1>1, PlacesFinite
<1>3. \A k \in 1..Cardinality(K) : Nth(K, k) \in K
  BY <1>1, NthExists
<1>4. \A i \in K : \E k \in 1..Cardinality(K) : Nth(K, k) = i
  BY <1>1, NthOnto
<1>5. Without(s, S) = [k \in 1..Cardinality(K) |-> s[Nth(K, k)]]
  BY DEF Without
<1>5a. DOMAIN Without(s, S) = 1..Cardinality(K)
  BY <1>5
<1> HIDE DEF K
<1>6. Without(s, S) \in Seq(E)
  <2>1. \A k \in 1..Cardinality(K) : s[Nth(K, k)] \in E
    BY <1>1, <1>3
  <2>2. Without(s, S) \in [1..Cardinality(K) -> E]
    BY <1>5, <2>1
  <2> QED  BY <1>2, <2>2
<1>7. K = Kept(s, S)
  BY DEF K
<1>8. \A k \in DOMAIN Without(s, S) : \E i \in K : Without(s, S)[k] = s[i]
  BY <1>3, <1>5, <1>5a
<1>9. \A i \in K : \E k \in DOMAIN Without(s, S) : Without(s, S)[k] = s[i]
  BY <1>4, <1>5, <1>5a
<1> QED  BY <1>6, <1>7, <1>8, <1>9

-----------------------------------------------------------------------------
(* Types. *)

(* The end of a sequence is the sequence shifted by what was cut off.      *)
LEMMA LastNIs ==
  ASSUME NEW E, NEW s \in Seq(E), NEW n \in Nat
  PROVE  /\ LastN(s, n) \in Seq(E) /\ Len(LastN(s, n)) <= n
         /\ \E o \in Nat : /\ Len(s) = Len(LastN(s, n)) + o
                           /\ \A j \in DOMAIN LastN(s, n) : LastN(s, n)[j] = s[j + o]
         /\ n >= 1 /\ Len(s) >= 1 => Len(LastN(s, n)) >= 1
<1>1. CASE Len(s) <= n
  <2>1. LastN(s, n) = s
    BY <1>1 DEF LastN
  <2>2. Len(s) = Len(s) + 0 /\ \A j \in DOMAIN s : s[j] = s[j + 0]
    OBVIOUS
  <2> QED  BY <1>1, <2>1, <2>2
<1>2. CASE Len(s) > n
  <2>1. LastN(s, n) = SubSeq(s, Len(s) - n + 1, Len(s)) /\ Len(s) - n \in Nat
    BY <1>2 DEF LastN
  <2>2. /\ LastN(s, n) \in Seq(E) /\ Len(LastN(s, n)) = n
        /\ \A j \in 1..n : LastN(s, n)[j] = s[j + (Len(s) - n)]
    BY <1>2, <2>1
  <2>3. PICK o \in Nat : o = Len(s) - n
    BY <2>1
  <2>4. /\ Len(s) = Len(LastN(s, n)) + o
        /\ \A j \in DOMAIN LastN(s, n) : LastN(s, n)[j] = s[j + o]
    BY <2>2, <2>3
  <2> QED  BY <2>2, <2>4
<1> QED  BY <1>1, <1>2

LEMMA EventType ==
  ASSUME NEW k \in Nat
  PROVE  /\ [n |-> k, kind |-> "chat", ids |-> {}] \in Events
         /\ [n |-> k, kind |-> "status", ids |-> {}] \in Events
         /\ \A i \in ScIds : [n |-> k, kind |-> "sc", ids |-> {i}] \in Events
         /\ \A S \in SUBSET ScIds \ {{}} : [n |-> k, kind |-> "del", ids |-> S] \in Events
BY DEF Events

LEMMA NoneIsNoEvent == None \notin Events
BY DEF Events, None

(* The pinned super chats are events again after each event.               *)
LEMMA ActiveType ==
  ASSUME active \in Seq(Events), NEW e \in Events
  PROVE  ActiveAfter(e) \in Seq(Events) /\ Pruned(active) \in Seq(Events)
<1>1. Pruned(active) \in Seq(Events)
  BY WithoutIs DEF Pruned
<1>2. Without(Pruned(active), e.ids) \in Seq(Events)
  BY <1>1, WithoutIs
<1>3. Upsert(Pruned(active), e) \in Seq(Events)
  <2> DEFINE a == Pruned(active)
  <2>1. Append(a, e) \in Seq(Events)
    BY <1>1
  <2>2. [i \in DOMAIN a |-> IF a[i].ids = e.ids THEN e ELSE a[i]] \in Seq(Events)
    <3>1. PICK n \in Nat : DOMAIN a = 1..n
      BY <1>1
    <3>2. [i \in DOMAIN a |-> IF a[i].ids = e.ids THEN e ELSE a[i]] \in [1..n -> Events]
      BY <1>1, <3>1
    <3> QED  BY <3>2
  <2> QED  BY <2>1, <2>2 DEF Upsert
<1> QED  BY <1>1, <1>2, <1>3 DEF ActiveAfter

(* What a browser that joins is sent first.                                *)
LEMMA SnapshotType ==
  ASSUME active \in Seq(Events), history \in Seq(Events)
  PROVE  ReplaySnapshot \in Seq(Events) /\ HistorySnapshot \in Seq(Events)
<1>1. HistorySnapshot \in Seq(Events)
  BY BridgeAssumption, LastNIs DEF HistorySnapshot
<1>2. Without(Pruned(active), ScIdsOf(HistorySnapshot)) \in Seq(Events)
  BY WithoutIs DEF Pruned
<1> QED  BY <1>1, <1>2 DEF ReplaySnapshot

TypeInv == TypeOK /\ (phase = "open" => eventCount <= MaxEvents)

LEMMA InitType == Init => TypeInv
<1> SUFFICES ASSUME Init PROVE TypeInv
  OBVIOUS
<1>1. active \in Seq(Events) /\ live \subseteq ScIds
  <2>1. CASE active = <<>> /\ live = IdsOf(<<>>)
    BY <2>1 DEF IdsOf
  <2>2. ASSUME NEW i \in ScIds, active = <<[n |-> 0, kind |-> "sc", ids |-> {i}]>>,
               live = IdsOf(active)
        PROVE  active \in Seq(Events) /\ live \subseteq ScIds
    <3>1. [n |-> 0, kind |-> "sc", ids |-> {i}] \in Events
      BY EventType
    <3>2. active \in Seq(Events) /\ \A j \in DOMAIN active : active[j].ids = {i}
      BY <2>2, <3>1
    <3> QED  BY <2>2, <3>2 DEF IdsOf
  <2> QED  BY <2>1, <2>2 DEF Init
<1>2. history \in Seq(Events) /\ Len(history) <= MaxHistory
  BY BridgeAssumption DEF Init
<1>3. eventCount \in 0..(MaxEvents + 1) /\ eventCount <= MaxEvents
  BY BridgeAssumption DEF Init
<1> QED  BY <1>1, <1>2, <1>3, BridgeAssumption DEF Init, TypeInv, TypeOK

(* What an event leaves of the types, given that it is one.                *)
LEMMA AfterEvent ==
  ASSUME TypeInv, NEW e \in Events
  PROVE  /\ ActiveAfter(e) \in Seq(Events)
         /\ LastN(Append(history, e), MaxHistory) \in Seq(Events)
         /\ Len(LastN(Append(history, e), MaxHistory)) <= MaxHistory
         /\ [c \in Clients |-> IF c \in attached THEN Append(expected[c], e)
                                                 ELSE expected[c]]
              \in [Clients -> Seq(Events)]
<1>1. active \in Seq(Events) /\ history \in Seq(Events)
      /\ expected \in [Clients -> Seq(Events)]
  BY DEF TypeInv, TypeOK
<1>2. Append(history, e) \in Seq(Events)
  BY <1>1
<1>3. \A c \in Clients : Append(expected[c], e) \in Seq(Events)
  BY <1>1
<1> QED  BY <1>1, <1>2, <1>3, ActiveType, LastNIs, BridgeAssumption

LEMMA SignalledType ==
  ASSUME NEW q \in [Clients -> Seq(Events \cup {None})], NEW S
  PROVE  Signalled(q, S) \in [Clients -> Seq(Events \cup {None})]
<1>1. <<None>> \in Seq(Events \cup {None})
  OBVIOUS
<1> HIDE DEF None
<1> QED  BY <1>1 DEF Signalled

LEMMA OnEventType ==
  ASSUME TypeInv, NEW kind, NEW ids, ids \subseteq ScIds,
         [n |-> eventCount + 1, kind |-> kind, ids |-> ids] \in Events,
         OnEvent(kind, ids)
  PROVE  TypeInv'
<1> DEFINE e == [n |-> eventCount + 1, kind |-> kind, ids |-> ids]
           slow == {c \in attached : Len(queue[c]) >= capacity[c]}
           put == [c \in Clients |-> IF c \in attached \ slow THEN Append(queue[c], e)
                                                              ELSE queue[c]]
<1>1. /\ phase = "open" /\ eventCount < MaxEvents
      /\ eventCount' = eventCount + 1
      /\ active' = ActiveAfter(e)
      /\ history' = LastN(Append(history, e), MaxHistory)
      /\ queue' = Signalled(put, slow)
      /\ attached' = attached \ slow
      /\ closes' = closes \cup slow
      /\ cleanup' = cleanup \cup slow
      /\ expected' = [c \in Clients |-> IF c \in attached THEN Append(expected[c], e)
                                                          ELSE expected[c]]
      /\ UNCHANGED <<phase, expired, capacity, sender, sending, sock, route, sent>>
      /\ live' \in {live, live \cup ids, live \ ids}
  BY DEF OnEvent
<1>2. e \in Events
  OBVIOUS
<1>3. put \in [Clients -> Seq(Events \cup {None})]
  <2>1. queue \in [Clients -> Seq(Events \cup {None})]
    BY DEF TypeInv, TypeOK
  <2>2. \A c \in Clients : Append(queue[c], e) \in Seq(Events \cup {None})
    BY <1>2, <2>1
  <2> QED  BY <2>1, <2>2
<1> HIDE DEF e, put, slow
<1>4. queue' \in [Clients -> Seq(Events \cup {None})]
  BY <1>1, <1>3, SignalledType
<1>5. slow \subseteq Clients
  BY DEF TypeInv, TypeOK, slow
<1>6. eventCount' \in 0..(MaxEvents + 1) /\ eventCount' <= MaxEvents
  BY <1>1, BridgeAssumption DEF TypeInv, TypeOK
<1>7. /\ active' \in Seq(Events) /\ history' \in Seq(Events) /\ Len(history') <= MaxHistory
      /\ expected' \in [Clients -> Seq(Events)]
  BY <1>1, <1>2, AfterEvent
<1> QED  BY <1>1, <1>4, <1>5, <1>6, <1>7 DEF TypeInv, TypeOK

LEMMA StopRoomType ==
  ASSUME TypeInv, StopRoom PROVE TypeInv'
<1> DEFINE e == [n |-> eventCount + 1, kind |-> "status", ids |-> {}]
<1>1. /\ phase = "open" /\ phase' = "closing"
      /\ eventCount' = eventCount + 1
      /\ active' = ActiveAfter(e)
      /\ history' = LastN(Append(history, e), MaxHistory)
      /\ expected' = [c \in Clients |-> IF c \in attached THEN Append(expected[c], e)
                                                          ELSE expected[c]]
      /\ queue' = Signalled(queue, attached)
      /\ closes' = closes \cup attached
      /\ cleanup' = cleanup \cup attached
      /\ attached' = {}
      /\ UNCHANGED <<expired, capacity, sender, sending, sock, route, sent, live>>
  BY DEF StopRoom
<1>2. eventCount' \in 0..(MaxEvents + 1) /\ eventCount + 1 \in Nat
  BY <1>1, BridgeAssumption DEF TypeInv, TypeOK
<1>3. e \in Events
  BY <1>2, EventType
<1> HIDE DEF e
<1>4. /\ active' \in Seq(Events) /\ history' \in Seq(Events) /\ Len(history') <= MaxHistory
      /\ expected' \in [Clients -> Seq(Events)]
  BY <1>1, <1>3, AfterEvent
<1>5. queue' \in [Clients -> Seq(Events \cup {None})]
  BY <1>1, SignalledType DEF TypeInv, TypeOK
<1> QED  BY <1>1, <1>2, <1>4, <1>5 DEF TypeInv, TypeOK

LEMMA RegisterType ==
  ASSUME TypeInv, NEW c \in Clients, Register(c) PROVE TypeInv'
<1>1. ReplaySnapshot \in Seq(Events) /\ Pruned(active) \in Seq(Events)
  <2>1. active \in Seq(Events) /\ history \in Seq(Events)
    BY DEF TypeInv, TypeOK
  <2> QED  BY <2>1, SnapshotType, WithoutIs DEF Pruned
<1>2. PICK snapshot \in Seq(Events) : snapshot = ReplaySnapshot
  BY <1>1
<1>3. /\ snapshot \in Seq(Events \cup {None})
      /\ Len(snapshot) + 1 \in Nat \ {0}
  OBVIOUS
<1>4. /\ phase = "open" /\ route' = [route EXCEPT ![c] = "serving"]
      /\ sock' = [sock EXCEPT ![c] = "open"]
      /\ active' = Pruned(active)
      /\ attached' = attached \cup {c}
      /\ queue' = [queue EXCEPT ![c] = snapshot]
      /\ expected' = [expected EXCEPT ![c] = snapshot]
      /\ sender' = [sender EXCEPT ![c] = "ready"]
      /\ UNCHANGED <<phase, history, expired, sending, sent, closes, cleanup,
                     eventCount, live>>
      /\ \E k \in {QueueMaxSize, Len(snapshot) + 1} : capacity' = [capacity EXCEPT ![c] = k]
  BY <1>2 DEF Register
<1>5. capacity' \in [Clients -> Nat \ {0}]
  BY <1>3, <1>4, BridgeAssumption DEF TypeInv, TypeOK
<1>6. /\ queue' \in [Clients -> Seq(Events \cup {None})]
      /\ expected' \in [Clients -> Seq(Events)]
  BY <1>3, <1>4 DEF TypeInv, TypeOK
<1> QED  BY <1>1, <1>4, <1>5, <1>6 DEF TypeInv, TypeOK

LEMMA SenderType ==
  ASSUME TypeInv, NEW c \in Clients, SenderSteps(c) PROVE TypeInv'
<1>0. /\ sent \in [Clients -> Seq(Events)] /\ sending \in [Clients -> Seq(Events)]
      /\ queue \in [Clients -> Seq(Events \cup {None})]
  BY DEF TypeInv, TypeOK
<1>1. CASE SenderTakes(c)
  <2>1. /\ queue[c] # <<>> /\ queue' = [queue EXCEPT ![c] = Tail(queue[c])]
        /\ \/ sender' = [sender EXCEPT ![c] = "done"] /\ sending' = sending
           \/ /\ Head(queue[c]) # None
              /\ sender' = [sender EXCEPT ![c] = "sending"]
              /\ sending' = [sending EXCEPT ![c] = <<Head(queue[c])>>]
        /\ UNCHANGED <<bridge, expired, attached, capacity, sock, route, sent,
                       expected, closes, cleanup, eventCount, live>>
    BY <1>1 DEF SenderTakes
  <2>2. Tail(queue[c]) \in Seq(Events \cup {None}) /\ Head(queue[c]) \in Events \cup {None}
    BY <1>0, <2>1
  <2>3. queue' \in [Clients -> Seq(Events \cup {None})]
    BY <1>0, <2>1, <2>2
  <2>4. Head(queue[c]) # None => <<Head(queue[c])>> \in Seq(Events)
    BY <2>2
  <2>5. sending' \in [Clients -> Seq(Events)]
    BY <1>0, <2>1, <2>4
  <2> QED  BY <2>1, <2>3, <2>5 DEF TypeInv, TypeOK, bridge
<1>2. CASE SendCompletes(c)
  <2>1. sent[c] \o sending[c] \in Seq(Events) /\ <<>> \in Seq(Events)
    BY <1>0
  <2>2. sent' \in [Clients -> Seq(Events)] /\ sending' \in [Clients -> Seq(Events)]
    BY <1>0, <1>2, <2>1 DEF SendCompletes
  <2> QED  BY <1>2, <2>2 DEF SendCompletes, TypeInv, TypeOK, bridge
<1>3. CASE SendFails(c)
  <2>1. sending' \in [Clients -> Seq(Events)]
    BY <1>0, <1>3 DEF SendFails
  <2> QED  BY <1>3, <2>1 DEF SendFails, TypeInv, TypeOK, bridge
<1>4. CASE SenderClosesSocket(c)
  BY <1>4 DEF SenderClosesSocket, TypeInv, TypeOK, bridge
<1> QED  BY <1>1, <1>2, <1>3, <1>4 DEF SenderSteps

(* Every step keeps the types.                                             *)
LEMMA NextType == ASSUME TypeInv, [Next]_vars PROVE TypeInv'
<1>0. eventCount + 1 \in Nat
  BY DEF TypeInv, TypeOK
<1>1. CASE ChatEvent
  <2>1. [n |-> eventCount + 1, kind |-> "chat", ids |-> {}] \in Events
    BY <1>0, EventType
  <2>2. OnEvent("chat", {}) /\ {} \subseteq ScIds
    BY <1>1 DEF ChatEvent
  <2> QED  BY <2>1, <2>2, OnEventType
<1>2. ASSUME NEW i \in ScIds, SuperChatArrives(i) PROVE TypeInv'
  BY <1>0, <1>2, EventType, OnEventType DEF SuperChatArrives
<1>3. ASSUME NEW S \in SUBSET ScIds \ {{}}, SuperChatDeleted(S) PROVE TypeInv'
  BY <1>0, <1>3, EventType, OnEventType DEF SuperChatDeleted
<1>4. ASSUME NEW i \in ScIds, SuperChatExpires(i) PROVE TypeInv'
  BY <1>4 DEF SuperChatExpires, TypeInv, TypeOK, bridge, perClient
<1>5. ASSUME NEW c \in Clients, RouteUnregisters(c) PROVE TypeInv'
  <2>1. Signalled(queue, {c}) \in [Clients -> Seq(Events \cup {None})]
    BY SignalledType DEF TypeInv, TypeOK
  <2> QED  BY <1>5, <2>1 DEF RouteUnregisters, TypeInv, TypeOK, bridge
<1>6. ASSUME NEW c \in Clients,
             RegisterTooLate(c) \/ ClientLeaves(c) \/ RouteEnds(c) \/ SocketCloses(c)
      PROVE  TypeInv'
  BY <1>6 DEF RegisterTooLate, ClientLeaves, RouteEnds, SocketCloses, TypeInv, TypeOK, bridge
<1>7. ASSUME NEW c \in Clients, ClientSteps(c) PROVE TypeInv'
  BY <1>5, <1>6, <1>7, RegisterType, SenderType DEF ClientSteps
<1>8. CASE CloseReturns
  BY <1>8 DEF CloseReturns, TypeInv, TypeOK, perClient
<1>9. CASE UNCHANGED vars
  BY <1>9 DEF vars, bridge, perClient, TypeInv, TypeOK
<1> QED
  BY <1>1, <1>2, <1>3, <1>4, <1>7, <1>8, <1>9, StopRoomType DEF Next

-----------------------------------------------------------------------------
(* Each event once and in order. *)

(* What is sent, in flight and queued for a browser.  While it is attached *)
(* that is all it is owed; once detached its sender finds the sentinel, or *)
(* has given up.                                                           *)
ClientInv(c) ==
  /\ c \in attached =>
       /\ queue[c] \in Seq(Events)
       /\ sender[c] \in {"ready", "sending"}
       /\ expected[c] = sent[c] \o sending[c] \o queue[c]
  /\ c \notin attached /\ sender[c] \in {"ready", "sending"} => queue[c] = <<None>>
  /\ IsPrefixOf(sent[c] \o sending[c], expected[c])
  /\ sender[c] # "sending" => sending[c] = <<>>
  /\ route[c] = "none" =>
       c \notin attached /\ sender[c] = "none" /\ sent[c] = <<>>

(* Nobody is attached once the room is stopped, and a send that is still   *)
(* under way then is one close() waits for or one into a closed socket.    *)
QuietInv ==
  /\ phase # "open" => attached = {}
  /\ \A c \in Clients :
       sender[c] = "sending" /\ sock[c] = "open" =>
         (c \in attached \/ c \in cleanup) /\ phase # "closed"

SendInv == (\A c \in Clients : ClientInv(c)) /\ QuietInv

(* A step that does not touch a browser.                                   *)
Untouched(c) ==
  /\ (c \in attached') = (c \in attached)
  /\ queue'[c] = queue[c] /\ sender'[c] = sender[c] /\ sent'[c] = sent[c]
  /\ sending'[c] = sending[c] /\ expected'[c] = expected[c]
  /\ route[c] # "none" => route'[c] # "none"

LEMMA ClientUntouched ==
  ASSUME NEW c \in Clients, ClientInv(c), Untouched(c) PROVE ClientInv(c)'
BY DEF ClientInv, Untouched

(* x is p followed by q. *)
Joins(x, p, q) == x = p \o q

(* An element appended to the second of two sequences.                     *)
LEMMA JoinsAppended ==
  ASSUME NEW E, NEW p \in Seq(E), NEW q \in Seq(E), NEW e \in E
  PROVE  Joins(Append(p \o q, e), p, Append(q, e))
BY DEF Joins

(* Facts about what is owed to a browser: sent a, in flight b, queued q.   *)
LEMMA PrefixOfOwed ==
  ASSUME NEW E, NEW a \in Seq(E), NEW b \in Seq(E), NEW q \in Seq(E), NEW e \in E
  PROVE  /\ IsPrefixOf(a \o b, a \o b \o q)
         /\ IsPrefixOf(a \o b, Append(a \o b \o q, e))
<1>1. ASSUME NEW p \in Seq(E)
      PROVE  IsPrefixOf(p, p \o q) /\ IsPrefixOf(p, Append(p \o q, e))
  BY DEF IsPrefixOf
<1>2. a \o b \in Seq(E)
  BY ConcatProperties
<1> QED  BY <1>1, <1>2

LEMMA OwedTaken ==
  ASSUME NEW E, NEW a \in Seq(E), NEW q \in Seq(E), q # <<>>
  PROVE  a \o <<>> \o q = a \o <<Head(q)>> \o Tail(q)
<1>1. Tail(q) \in Seq(E) /\ Head(q) \in E
  BY HeadTailProperties
<1>2. PICK t \in Seq(E), h \in E : t = Tail(q) /\ h = Head(q)
  BY <1>1
<1>3. q = <<h>> \o t
  BY <1>2
<1>4. a \o <<>> = a
  OBVIOUS
<1>5. a \o (<<h>> \o t) = a \o <<h>> \o t
  OBVIOUS
<1> QED  BY <1>2, <1>3, <1>4, <1>5

LEMMA OwedQueued ==
  ASSUME NEW E, NEW a \in Seq(E), NEW b \in Seq(E), NEW q \in Seq(E), NEW e \in E
  PROVE  /\ IsPrefixOf(a \o b, Append(a \o b \o q, e))
         /\ Joins(Append(a \o b \o q, e), a \o b, Append(q, e))
<1>1. a \o b \in Seq(E)
  BY ConcatProperties
<1> QED  BY <1>1, PrefixOfOwed, JoinsAppended, Zenon

(* An event, of which the slow browsers find the sentinel and the others   *)
(* get a copy.  When the room is stopped, all are treated as slow.         *)
LEMMA EventSends ==
  ASSUME TypeInv, SendInv, phase = "open", NEW e \in Events, NEW slow \in SUBSET attached,
         \A c \in Clients :
           /\ expected'[c] = IF c \in attached THEN Append(expected[c], e) ELSE expected[c]
           /\ queue'[c] = IF c \in slow THEN <<None>>
                          ELSE IF c \in attached THEN Append(queue[c], e) ELSE queue[c],
         attached' = attached \ slow, cleanup' = cleanup \cup slow,
         UNCHANGED <<sender, sending, sock, route, sent>>,
         phase' # "closed", phase' # "open" => slow = attached
  PROVE  SendInv'
<1>1. ASSUME NEW c \in Clients PROVE ClientInv(c)'
  <2>0. /\ ClientInv(c) /\ sent[c] \in Seq(Events) /\ sending[c] \in Seq(Events)
        /\ sender'[c] = sender[c] /\ sent'[c] = sent[c] /\ sending'[c] = sending[c]
        /\ route'[c] = route[c]
    BY DEF SendInv, TypeInv, TypeOK
  <2>1. CASE c \notin attached
    <3>1. Untouched(c)
      BY <2>0, <2>1 DEF Untouched
    <3> QED  BY <2>0, <3>1, ClientUntouched
  <2>2. CASE c \in attached
    <3>1. /\ queue[c] \in Seq(Events) /\ sender[c] \in {"ready", "sending"}
          /\ expected[c] = sent[c] \o sending[c] \o queue[c]
          /\ sender[c] # "sending" => sending[c] = <<>>
          /\ route[c] # "none"
      BY <2>0, <2>2 DEF ClientInv
    <3>2. expected'[c] = Append(sent[c] \o sending[c] \o queue[c], e)
      BY <2>2, <3>1
    <3>3. /\ IsPrefixOf(sent[c] \o sending[c], expected'[c])
          /\ expected'[c] = sent[c] \o sending[c] \o Append(queue[c], e)
      <4>1. PICK a, b, q : a = sent[c] /\ b = sending[c] /\ q = queue[c]
        OBVIOUS
      <4>2. a \in Seq(Events) /\ b \in Seq(Events) /\ q \in Seq(Events) /\ e \in Events
        BY <2>0, <3>1, <4>1
      <4>3. /\ IsPrefixOf(a \o b, Append(a \o b \o q, e))
            /\ Joins(Append(a \o b \o q, e), a \o b, Append(q, e))
        BY <4>2, OwedQueued, Zenon
      <4> QED  BY <3>2, <4>1, <4>3, Zenon DEF Joins
    <3>4. CASE c \in slow
      <4>1. queue'[c] = <<None>> /\ c \notin attached'
        BY <3>4
      <4> HIDE DEF None
      <4> QED  BY <2>0, <3>1, <3>3, <4>1 DEF ClientInv
    <3>5. CASE c \notin slow
      <4>1. /\ queue'[c] = Append(queue[c], e) /\ c \in attached'
            /\ Append(queue[c], e) \in Seq(Events)
        BY <2>2, <3>1, <3>5, AppendProperties
      <4> QED  BY <2>0, <3>1, <3>3, <4>1 DEF ClientInv
    <3> QED  BY <3>4, <3>5
  <2> QED  BY <2>1, <2>2
<1>2. QuietInv'
  BY DEF SendInv, QuietInv
<1> QED  BY <1>1, <1>2 DEF SendInv

LEMMA OnEventSends ==
  ASSUME TypeInv, SendInv, NEW kind, NEW ids,
         [n |-> eventCount + 1, kind |-> kind, ids |-> ids] \in Events,
         OnEvent(kind, ids)
  PROVE  SendInv'
<1> DEFINE e == [n |-> eventCount + 1, kind |-> kind, ids |-> ids]
           slow == {c \in attached : Len(queue[c]) >= capacity[c]}
           put == [c \in Clients |-> IF c \in attached \ slow THEN Append(queue[c], e)
                                                              ELSE queue[c]]
<1>1. /\ phase = "open"
      /\ queue' = Signalled(put, slow)
      /\ attached' = attached \ slow
      /\ cleanup' = cleanup \cup slow
      /\ expected' = [c \in Clients |-> IF c \in attached THEN Append(expected[c], e)
                                                          ELSE expected[c]]
      /\ UNCHANGED <<phase, sender, sending, sock, route, sent>>
  BY DEF OnEvent
<1>2. e \in Events /\ slow \in SUBSET attached
  OBVIOUS
<1>3. \A c \in Clients : put[c] = IF c \in attached \ slow THEN Append(queue[c], e)
                                                           ELSE queue[c]
  OBVIOUS
<1> HIDE DEF e, slow, put, None
<1>4. \A c \in Clients :
        /\ expected'[c] = IF c \in attached THEN Append(expected[c], e) ELSE expected[c]
        /\ queue'[c] = IF c \in slow THEN <<None>>
                       ELSE IF c \in attached THEN Append(queue[c], e) ELSE queue[c]
  BY <1>1, <1>3 DEF Signalled
<1> QED  BY <1>1, <1>2, <1>4, EventSends

LEMMA StopRoomSends ==
  ASSUME TypeInv, SendInv, StopRoom PROVE SendInv'
<1> DEFINE e == [n |-> eventCount + 1, kind |-> "status", ids |-> {}]
<1>1. /\ phase = "open" /\ phase' = "closing"
      /\ queue' = Signalled(queue, attached)
      /\ attached' = {}
      /\ cleanup' = cleanup \cup attached
      /\ expected' = [c \in Clients |-> IF c \in attached THEN Append(expected[c], e)
                                                          ELSE expected[c]]
      /\ UNCHANGED <<sender, sending, sock, route, sent>>
  BY DEF StopRoom
<1>2. e \in Events
  <2>1. eventCount + 1 \in Nat
    BY DEF TypeInv, TypeOK
  <2> QED  BY <2>1, EventType
<1> HIDE DEF e, None
<1>4. \A c \in Clients :
        /\ expected'[c] = IF c \in attached THEN Append(expected[c], e) ELSE expected[c]
        /\ queue'[c] = IF c \in attached THEN <<None>>
                       ELSE IF c \in attached THEN Append(queue[c], e) ELSE queue[c]
  BY <1>1 DEF Signalled
<1>5. attached' = attached \ attached
  BY <1>1
<1> QED  BY <1>1, <1>2, <1>4, <1>5, EventSends

(* One browser's step leaves the others alone.                             *)
LEMMA OneClient ==
  ASSUME SendInv, NEW c \in Clients, ClientInv(c)', QuietInv',
         \A d \in Clients \ {c} : Untouched(d)
  PROVE  SendInv'
BY ClientUntouched DEF SendInv

LEMMA RegisterSends ==
  ASSUME TypeInv, SendInv, NEW c \in Clients, Register(c) PROVE SendInv'
<1>1. active \in Seq(Events) /\ history \in Seq(Events)
  BY DEF TypeInv, TypeOK
<1>2. PICK snapshot \in Seq(Events) : snapshot = ReplaySnapshot
  BY <1>1, SnapshotType
<1>3. /\ phase = "open" /\ phase' = phase /\ route[c] = "none"
      /\ attached' = attached \cup {c} /\ cleanup' = cleanup
      /\ sending' = sending /\ sent' = sent
      /\ route'[c] = "serving" /\ sock'[c] = "open"
      /\ queue'[c] = snapshot /\ expected'[c] = snapshot /\ sender'[c] = "ready"
      /\ \A d \in Clients \ {c} :
           /\ route'[d] = route[d] /\ sock'[d] = sock[d] /\ queue'[d] = queue[d]
           /\ expected'[d] = expected[d] /\ sender'[d] = sender[d]
  BY <1>2 DEF Register, TypeInv, TypeOK
<1>4. /\ sent[c] = <<>> /\ sending[c] = <<>> /\ sender[c] = "none" /\ c \notin attached
  BY <1>3 DEF SendInv, ClientInv
<1>5. ClientInv(c)'
  <2>1. <<>> \in Seq(Events) /\ <<>> \o <<>> \o snapshot = snapshot
    <3>1. <<>> \in Seq(Events)
      OBVIOUS
    <3> QED  BY <3>1, ConcatEmptySeq
  <2>2. IsPrefixOf(<<>> \o <<>>, snapshot)
    BY DEF IsPrefixOf
  <2> QED  BY <1>3, <1>4, <2>1, <2>2 DEF ClientInv
<1>6. QuietInv'
  BY <1>3 DEF SendInv, QuietInv
<1>7. \A d \in Clients \ {c} : Untouched(d)
  BY <1>3 DEF Untouched
<1> QED  BY <1>5, <1>6, <1>7, OneClient

LEMMA TakesSends ==
  ASSUME TypeInv, SendInv, NEW c \in Clients, SenderTakes(c) PROVE SendInv'
<1>1. /\ sender[c] = "ready" /\ queue[c] # <<>> /\ queue'[c] = Tail(queue[c])
      /\ \/ Head(queue[c]) = None /\ sender'[c] = "done" /\ sending'[c] = sending[c]
         \/ Head(queue[c]) # None /\ sender'[c] = "sending" /\ sending'[c] = <<Head(queue[c])>>
      /\ UNCHANGED <<phase, attached, sock, route, sent, expected, cleanup>>
      /\ \A d \in Clients \ {c} :
           queue'[d] = queue[d] /\ sender'[d] = sender[d] /\ sending'[d] = sending[d]
  BY DEF SenderTakes, TypeInv, TypeOK, bridge
<1>2. ClientInv(c) /\ sending[c] = <<>> /\ sent[c] \in Seq(Events)
  BY <1>1 DEF SendInv, ClientInv, TypeInv, TypeOK
<1>3. c \in attached => Head(queue[c]) \in Events /\ Head(queue[c]) # None
  BY <1>1, <1>2, HeadTailProperties, NoneIsNoEvent DEF ClientInv
<1>4. c \notin attached => Head(queue[c]) = None
  <2>1. Head(<<None>>) = None
    OBVIOUS
  <2> HIDE DEF None
  <2> QED  BY <1>1, <1>2, <2>1 DEF ClientInv
<1> HIDE DEF None
<1>5. ClientInv(c)'
  <2>1. CASE c \in attached
    <3>1. PICK a, q : a = sent[c] /\ q = queue[c]
      OBVIOUS
    <3>2. /\ a \in Seq(Events) /\ q \in Seq(Events) /\ q # <<>>
          /\ expected[c] = a \o <<>> \o q
      BY <1>1, <1>2, <2>1, <3>1 DEF ClientInv
    <3>3. a \o <<>> \o q = a \o <<Head(q)>> \o Tail(q)
      BY <3>2, OwedTaken, Zenon
    <3>4. Tail(q) \in Seq(Events) /\ Head(q) \in Events
      BY <3>2, HeadTailProperties
    <3>5. <<Head(q)>> \in Seq(Events)
      BY <3>4
    <3>6. IsPrefixOf(a \o <<Head(q)>>, a \o <<Head(q)>> \o Tail(q))
      BY <3>2, <3>4, <3>5, PrefixOfOwed, Zenon
    <3>7. /\ sent'[c] = a /\ sending'[c] = <<Head(q)>> /\ queue'[c] = Tail(q)
          /\ expected'[c] = a \o <<Head(q)>> \o Tail(q) /\ sender'[c] = "sending"
          /\ c \in attached'
      BY <1>1, <1>3, <2>1, <3>1, <3>2, <3>3
    <3>8. route'[c] # "none"
      BY <1>1, <1>2 DEF ClientInv
    <3> QED  BY <3>4, <3>6, <3>7, <3>8 DEF ClientInv
  <2>2. CASE c \notin attached
    BY <1>1, <1>2, <1>4, <2>2 DEF ClientInv
  <2> QED  BY <2>1, <2>2
<1>6. QuietInv'
  BY <1>1, <1>4 DEF SendInv, QuietInv
<1>7. \A d \in Clients \ {c} : Untouched(d)
  BY <1>1 DEF Untouched
<1> QED  BY <1>5, <1>6, <1>7, OneClient

LEMMA CompletesSends ==
  ASSUME TypeInv, SendInv, NEW c \in Clients, SendCompletes(c) PROVE SendInv'
<1>1. /\ sender[c] = "sending" /\ sender'[c] = "ready" /\ sending'[c] = <<>>
      /\ sent'[c] = sent[c] \o sending[c]
      /\ UNCHANGED <<phase, attached, queue, sock, route, expected, cleanup>>
      /\ \A d \in Clients \ {c} :
           sent'[d] = sent[d] /\ sender'[d] = sender[d] /\ sending'[d] = sending[d]
  BY DEF SendCompletes, TypeInv, TypeOK, bridge
<1>2. ClientInv(c) /\ sent[c] \in Seq(Events) /\ sending[c] \in Seq(Events)
  BY DEF SendInv, TypeInv, TypeOK
<1>3. sent'[c] \o sending'[c] = sent[c] \o sending[c]
  <2>1. PICK a, b : a = sent[c] /\ b = sending[c]
    OBVIOUS
  <2>2. a \o b \in Seq(Events)
    BY <1>2, <2>1, ConcatProperties
  <2>3. (a \o b) \o <<>> = a \o b
    BY <2>2, ConcatEmptySeq
  <2> QED  BY <1>1, <2>1, <2>3
<1> HIDE DEF None
<1>4. ClientInv(c)'
  BY <1>1, <1>2, <1>3 DEF ClientInv
<1>5. QuietInv'
  BY <1>1 DEF SendInv, QuietInv
<1>6. \A d \in Clients \ {c} : Untouched(d)
  BY <1>1 DEF Untouched
<1> QED  BY <1>4, <1>5, <1>6, OneClient

(* What was sent of a prefix is a prefix.                                  *)
LEMMA PrefixShorter ==
  ASSUME NEW E, NEW a \in Seq(E), NEW b \in Seq(E), NEW t \in Seq(E), IsPrefixOf(a \o b, t)
  PROVE  IsPrefixOf(a, t) /\ a \o <<>> = a
<1>1. /\ Len(a \o b) = Len(a) + Len(b) /\ a \o b \in Seq(E) /\ Len(b) \in Nat
      /\ \A i \in 1..Len(a) : (a \o b)[i] = a[i]
  BY ConcatProperties
<1>2. /\ Len(a \o b) <= Len(t)
      /\ \A i \in 1..Len(a \o b) : (a \o b)[i] = t[i]
  BY <1>1 DEF IsPrefixOf
<1>3. Len(a) <= Len(t) /\ \A i \in 1..Len(a) : a[i] = t[i]
  BY <1>1, <1>2
<1>4. a = SubSeq(t, 1, Len(a))
  BY <1>3
<1> QED  BY <1>3, <1>4, ConcatEmptySeq DEF IsPrefixOf

LEMMA FailsSends ==
  ASSUME TypeInv, SendInv, NEW c \in Clients, SendFails(c) PROVE SendInv'
<1>1. /\ sender[c] = "sending" /\ sender'[c] = "closing" /\ sending'[c] = <<>>
      /\ attached' = attached \ {c}
      /\ UNCHANGED <<phase, queue, sock, route, sent, expected, cleanup>>
      /\ \A d \in Clients \ {c} : sender'[d] = sender[d] /\ sending'[d] = sending[d]
  BY DEF SendFails, TypeInv, TypeOK, bridge
<1>2. /\ ClientInv(c) /\ sent[c] \in Seq(Events) /\ sending[c] \in Seq(Events)
      /\ expected[c] \in Seq(Events)
  BY DEF SendInv, TypeInv, TypeOK
<1>3. IsPrefixOf(sent'[c] \o sending'[c], expected'[c])
  <2>1. PICK a, b, t : a = sent[c] /\ b = sending[c] /\ t = expected[c]
    OBVIOUS
  <2>2. IsPrefixOf(a, t) /\ a \o <<>> = a
    BY <1>2, <2>1, PrefixShorter DEF ClientInv
  <2> QED  BY <1>1, <2>1, <2>2
<1> HIDE DEF None
<1>4. ClientInv(c)'
  BY <1>1, <1>2, <1>3 DEF ClientInv
<1>5. QuietInv'
  BY <1>1 DEF SendInv, QuietInv
<1>6. \A d \in Clients \ {c} : Untouched(d)
  BY <1>1 DEF Untouched
<1> QED  BY <1>4, <1>5, <1>6, OneClient

LEMMA UnregistersSends ==
  ASSUME TypeInv, SendInv, NEW c \in Clients, RouteUnregisters(c) PROVE SendInv'
<1>1. /\ route[c] = "serving" /\ sock[c] = "closed" /\ route'[c] # "none"
      /\ UNCHANGED <<phase, sender, sending, sock, sent, expected, cleanup>>
      /\ \A d \in Clients \ {c} : route'[d] = route[d]
  BY DEF RouteUnregisters, TypeInv, TypeOK, bridge
<1>2. ClientInv(c)
  BY DEF SendInv
<1>3. CASE c \in attached
  <2>1. attached' = attached \ {c} /\ queue' = Signalled(queue, {c})
    BY <1>3 DEF RouteUnregisters
  <2> HIDE DEF None
  <2>2. queue'[c] = <<None>> /\ \A d \in Clients \ {c} : queue'[d] = queue[d]
    BY <2>1 DEF Signalled
  <2>3. ClientInv(c)'
    BY <1>1, <1>2, <2>1, <2>2 DEF ClientInv
  <2>4. QuietInv'
    BY <1>1, <2>1 DEF SendInv, QuietInv
  <2>5. \A d \in Clients \ {c} : Untouched(d)
    BY <1>1, <2>1, <2>2 DEF Untouched
  <2> QED  BY <2>3, <2>4, <2>5, OneClient
<1>4. CASE c \notin attached
  <2>1. attached' = attached /\ queue' = queue
    BY <1>4 DEF RouteUnregisters
  <2>2. Untouched(c) /\ \A d \in Clients \ {c} : Untouched(d)
    BY <1>1, <2>1 DEF Untouched
  <2>3. QuietInv'
    BY <1>1, <2>1 DEF SendInv, QuietInv
  <2> QED  BY <1>2, <2>2, <2>3, ClientUntouched, OneClient
<1> QED  BY <1>3, <1>4

(* Steps that change no queue and send nothing.                            *)
LEMMA OthersSend ==
  ASSUME TypeInv, SendInv, NEW c \in Clients,
         RegisterTooLate(c) \/ ClientLeaves(c) \/ RouteEnds(c) \/ SocketCloses(c)
           \/ SenderClosesSocket(c)
  PROVE  SendInv'
<1>1. /\ UNCHANGED <<phase, attached, queue, sending, sent, expected, cleanup>>
      /\ sender'[c] = sender[c] \/ (sender[c] = "closing" /\ sender'[c] = "done")
      /\ route[c] # "none" => route'[c] # "none"
      /\ sock'[c] = "open" => sock[c] = "open"
      /\ \A d \in Clients \ {c} :
           sender'[d] = sender[d] /\ route'[d] = route[d] /\ sock'[d] = sock[d]
  BY DEF RegisterTooLate, ClientLeaves, RouteEnds, SocketCloses, SenderClosesSocket,
         TypeInv, TypeOK, bridge
<1>2. ClientInv(c)'
  <2>1. ClientInv(c)
    BY DEF SendInv
  <2> HIDE DEF None
  <2> QED  BY <1>1, <2>1 DEF ClientInv
<1>3. QuietInv'
  BY <1>1 DEF SendInv, QuietInv
<1>4. \A d \in Clients \ {c} : Untouched(d)
  BY <1>1 DEF Untouched
<1> QED  BY <1>2, <1>3, <1>4, OneClient

LEMMA InitSend == Init => SendInv
<1> SUFFICES ASSUME Init PROVE SendInv
  OBVIOUS
<1>1. IsPrefixOf(<<>> \o <<>>, <<>>)
  BY DEF IsPrefixOf
<1> QED  BY <1>1 DEF Init, SendInv, ClientInv, QuietInv

LEMMA NextSend == ASSUME TypeInv, SendInv, [Next]_vars PROVE SendInv'
<1>0. eventCount + 1 \in Nat
  BY DEF TypeInv, TypeOK
<1>1. CASE ChatEvent
  <2>1. [n |-> eventCount + 1, kind |-> "chat", ids |-> {}] \in Events
    BY <1>0, EventType
  <2> QED  BY <1>1, <2>1, OnEventSends DEF ChatEvent
<1>2. ASSUME NEW i \in ScIds, SuperChatArrives(i) PROVE SendInv'
  BY <1>0, <1>2, EventType, OnEventSends DEF SuperChatArrives
<1>3. ASSUME NEW S \in SUBSET ScIds \ {{}}, SuperChatDeleted(S) PROVE SendInv'
  BY <1>0, <1>3, EventType, OnEventSends DEF SuperChatDeleted
<1>4. ASSUME NEW c \in Clients, ClientSteps(c) PROVE SendInv'
  BY <1>4, RegisterSends, TakesSends, CompletesSends, FailsSends, UnregistersSends,
     OthersSend DEF ClientSteps, SenderSteps
<1>5. CASE CloseReturns
  <2>1. /\ phase' = "closed" /\ \A c \in cleanup : sender[c] = "done"
        /\ UNCHANGED <<attached, queue, sender, sending, sock, route, sent, expected, cleanup>>
        /\ phase = "closing"
    BY <1>5 DEF CloseReturns, perClient
  <2>2. \A c \in Clients : Untouched(c) /\ ClientInv(c)
    BY <2>1 DEF Untouched, SendInv
  <2>3. QuietInv'
    BY <2>1 DEF SendInv, QuietInv
  <2> QED  BY <2>2, <2>3, ClientUntouched DEF SendInv
<1>6. CASE UNCHANGED vars \/ \E i \in ScIds : SuperChatExpires(i)
  <2>1. UNCHANGED <<phase, attached, queue, sender, sending, sock, route, sent, expected,
                    cleanup>>
    BY <1>6 DEF SuperChatExpires, vars, bridge, perClient
  <2>2. \A c \in Clients : Untouched(c) /\ ClientInv(c)
    BY <2>1 DEF Untouched, SendInv
  <2>3. QuietInv'
    BY <2>1 DEF SendInv, QuietInv
  <2> QED  BY <2>2, <2>3, ClientUntouched DEF SendInv
<1> QED  BY <1>1, <1>2, <1>3, <1>4, <1>5, <1>6, StopRoomSends DEF Next

(* The bridge, its sender tasks and its routes keep their types.           *)
THEOREM BridgeTypeCorrect == Spec => []TypeOK
<1>1. TypeInv => TypeOK
  BY DEF TypeInv
<1>2. TypeInv /\ [Next]_vars => TypeInv'
  BY NextType
<1> QED  BY InitType, <1>1, <1>2, PTL DEF Spec

(* However browsers join, lag, fail and leave: what register_ws replays    *)
(* and what _on_event puts in the queue of a browser reach it as one       *)
(* sequence without gap, repetition or reordering, cut short only by its   *)
(* detaching.                                                              *)
THEOREM ExactlyOnceCorrect == Spec => []EachEventExactlyOnce
<1>1. SendInv => EachEventExactlyOnce
  BY DEF SendInv, ClientInv, EachEventExactlyOnce
<1>2. TypeInv /\ SendInv /\ [Next]_vars => TypeInv' /\ SendInv'
  BY NextType, NextSend
<1> QED  BY InitType, InitSend, <1>1, <1>2, PTL DEF Spec

(* After close() no sender, route or late close that was under way sends   *)
(* anything, and nobody is registered any more.                            *)
THEOREM QuietCorrect == Spec => QuietAfterClose
<1>1. TypeInv /\ SendInv /\ [Next]_vars
        => [phase = "closed" => sent' = sent /\ attached' = {}]_vars
  <2> SUFFICES ASSUME TypeInv, SendInv, Next, phase = "closed"
               PROVE  sent' = sent /\ attached' = {}
    OBVIOUS
  <2>0. attached = {}
    BY DEF SendInv, QuietInv
  <2>1. ASSUME NEW c \in Clients, SendCompletes(c) PROVE FALSE
    BY <2>1 DEF SendInv, QuietInv, SendCompletes
  <2>2. ASSUME NEW c \in Clients, ClientSteps(c) PROVE sent' = sent /\ attached' = {}
    BY <2>0, <2>1, <2>2
    DEF ClientSteps, SenderSteps, Register, RegisterTooLate, ClientLeaves, RouteUnregisters,
        RouteEnds, SenderTakes, SendFails, SenderClosesSocket, SocketCloses
  <2> QED
    BY <2>0, <2>2 DEF Next, ChatEvent, SuperChatArrives, SuperChatDeleted, OnEvent,
       SuperChatExpires, StopRoom, CloseReturns, perClient
<1>2. TypeInv /\ SendInv /\ [Next]_vars => TypeInv' /\ SendInv'
  BY NextType, NextSend
<1> QED  BY InitType, InitSend, <1>1, <1>2, PTL DEF Spec, QuietAfterClose

-----------------------------------------------------------------------------
(* The super chats a browser is shown when it joins. *)

SuperChats == {e \in Events : e.kind = "sc"}

(* Place j of s is the last one about super chat i.                        *)
LastAbout(s, j, i) ==
  /\ j \in DOMAIN s /\ i \in s[j].ids
  /\ \A k \in DOMAIN s : k > j => i \notin s[k].ids

(* The last event about a super chat in the window tells whether it is     *)
(* live.                                                                   *)
Tells(s, alive) ==
  \A i \in ScIds, j \in DOMAIN s :
    LastAbout(s, j, i) => (s[j].kind = "sc" <=> i \in alive)

ReplayInv ==
  /\ active \in Seq(SuperChats)
  /\ IdsOf(active) \ expired = live \ expired
  /\ Tells(history, live)

LEMMA SuperChatIs ==
  /\ \A e \in SuperChats : e \in Events /\ e.kind = "sc" /\ \E i \in ScIds : e.ids = {i}
  /\ \A e \in Events : e.ids # {} => e.kind \in {"sc", "del"}
  /\ \A e \in Events : e.ids \subseteq ScIds
BY DEF SuperChats, Events

(* The ids that Without leaves.                                            *)
LEMMA IdsWithout ==
  ASSUME NEW a \in Seq(SuperChats), NEW S
  PROVE  Without(a, S) \in Seq(SuperChats) /\ IdsOf(Without(a, S)) = IdsOf(a) \ S
<1>1. PICK w : w = Without(a, S)
  OBVIOUS
<1>2. /\ w \in Seq(SuperChats)
      /\ \A k \in DOMAIN w : \E i \in Kept(a, S) : w[k] = a[i]
      /\ \A i \in Kept(a, S) : \E k \in DOMAIN w : w[k] = a[i]
  BY <1>1, WithoutIs
<1>3. \A j \in DOMAIN a : \E i \in ScIds : a[j].ids = {i}
  BY SuperChatIs
<1>4. ASSUME NEW x \in IdsOf(w) PROVE x \in IdsOf(a) /\ x \notin S
  <2>1. PICK k \in DOMAIN w : x \in w[k].ids
    BY DEF IdsOf
  <2>2. PICK i \in Kept(a, S) : w[k] = a[i]
    BY <1>2
  <2>3. i \in DOMAIN a /\ a[i].ids \cap S = {} /\ x \in a[i].ids
    BY <2>1, <2>2 DEF Kept
  <2> QED  BY <2>3 DEF IdsOf
<1>5. ASSUME NEW x \in IdsOf(a), x \notin S PROVE x \in IdsOf(w)
  <2>1. PICK i \in DOMAIN a : x \in a[i].ids
    BY DEF IdsOf
  <2>2. a[i].ids = {x}
    BY <1>3, <2>1
  <2>3. i \in Kept(a, S)
    BY <1>5, <2>2 DEF Kept
  <2>4. PICK k \in DOMAIN w : w[k] = a[i]
    BY <1>2, <2>3
  <2> QED  BY <2>1, <2>4 DEF IdsOf
<1>6. IdsOf(w) = IdsOf(a) \ S
  BY <1>4, <1>5
<1> QED  BY <1>1, <1>2, <1>6

LEMMA IdsUpsert ==
  ASSUME NEW a \in Seq(SuperChats), NEW e \in SuperChats
  PROVE  Upsert(a, e) \in Seq(SuperChats) /\ IdsOf(Upsert(a, e)) = IdsOf(a) \cup e.ids
<1>1. CASE e.ids \subseteq IdsOf(a)
  <2>1. PICK u : u = [i \in DOMAIN a |-> IF a[i].ids = e.ids THEN e ELSE a[i]]
    OBVIOUS
  <2>2. Upsert(a, e) = u
    BY <1>1, <2>1 DEF Upsert
  <2>3. DOMAIN u = DOMAIN a /\ \A i \in DOMAIN a : u[i] \in SuperChats /\ u[i].ids = a[i].ids
    BY <2>1
  <2>4. u \in Seq(SuperChats)
    <3>1. PICK n \in Nat : DOMAIN a = 1..n
      OBVIOUS
    <3>2. u \in [1..n -> SuperChats]
      BY <2>1, <2>3, <3>1
    <3> QED  BY <3>2
  <2>5. IdsOf(u) = IdsOf(a)
    BY <2>3 DEF IdsOf
  <2> QED  BY <1>1, <2>2, <2>4, <2>5
<1>2. CASE ~(e.ids \subseteq IdsOf(a))
  <2>1. PICK u : u = Append(a, e)
    OBVIOUS
  <2>2. Upsert(a, e) = u
    BY <1>2, <2>1 DEF Upsert
  <2>3. /\ u \in Seq(SuperChats) /\ DOMAIN u = 1..(Len(a) + 1)
        /\ \A i \in 1..Len(a) : u[i] = a[i]
        /\ u[Len(a) + 1] = e
    BY <2>1, AppendProperties
  <2>4. DOMAIN a = 1..Len(a) /\ Len(a) \in Nat
    OBVIOUS
  <2>5. ASSUME NEW x \in IdsOf(u) PROVE x \in IdsOf(a) \cup e.ids
    <3>1. PICK i \in 1..(Len(a) + 1) : x \in u[i].ids
      BY <2>3 DEF IdsOf
    <3>2. i \in 1..Len(a) \/ i = Len(a) + 1
      BY <2>4
    <3> QED  BY <2>3, <2>4, <3>1, <3>2 DEF IdsOf
  <2>6. ASSUME NEW x \in IdsOf(a) \cup e.ids PROVE x \in IdsOf(u)
    <3>1. CASE x \in e.ids
      <4>1. Len(a) + 1 \in DOMAIN u
        BY <2>3, <2>4
      <4> QED  BY <2>3, <3>1, <4>1 DEF IdsOf
    <3>2. CASE x \in IdsOf(a)
      <4>1. PICK i \in 1..Len(a) : x \in a[i].ids
        BY <2>4, <3>2 DEF IdsOf
      <4>2. i \in DOMAIN u /\ u[i] = a[i]
        BY <2>3, <2>4
      <4> QED  BY <4>1, <4>2 DEF IdsOf
    <3> QED  BY <3>1, <3>2
  <2> QED  BY <2>2, <2>3, <2>5, <2>6
<1> QED  BY <1>1, <1>2

(* What an event makes of the set of live super chats.                     *)
LiveAfter(e) ==
  CASE e.kind = "sc" -> live \cup e.ids
    [] e.kind = "del" -> live \ e.ids
    [] OTHER -> live

(* Step 1 of _on_event keeps the pinned super chats those that are live.   *)
LEMMA ActiveFollows ==
  ASSUME ReplayInv, NEW e \in Events
  PROVE  /\ ActiveAfter(e) \in Seq(SuperChats)
         /\ IdsOf(ActiveAfter(e)) \ expired = LiveAfter(e) \ expired
<1>1. /\ Pruned(active) \in Seq(SuperChats)
      /\ IdsOf(Pruned(active)) = IdsOf(active) \ expired
  BY IdsWithout DEF ReplayInv, Pruned
<1>2. PICK p \in Seq(SuperChats) : p = Pruned(active)
  BY <1>1
<1>3. IdsOf(p) = live \ expired
  BY <1>1, <1>2 DEF ReplayInv
<1>4. CASE e.kind = "sc" /\ e.ids \cap expired = {}
  <2>1. e \in SuperChats /\ ActiveAfter(e) = Upsert(p, e) /\ LiveAfter(e) = live \cup e.ids
    BY <1>2, <1>4 DEF SuperChats, ActiveAfter, LiveAfter
  <2> QED  BY <1>3, <2>1, IdsUpsert
<1>5. CASE e.kind = "del"
  <2>1. ActiveAfter(e) = Without(p, e.ids) /\ LiveAfter(e) = live \ e.ids
    BY <1>2, <1>5 DEF ActiveAfter, LiveAfter
  <2> QED  BY <1>3, <2>1, IdsWithout
<1>6. CASE e.kind = "sc" /\ e.ids \cap expired # {}
  <2>1. ActiveAfter(e) = p /\ LiveAfter(e) = live \cup e.ids
    BY <1>2, <1>6 DEF ActiveAfter, LiveAfter
  <2>2. e \in SuperChats
    BY <1>6 DEF SuperChats
  <2>3. PICK i \in ScIds : e.ids = {i}
    BY <2>2, SuperChatIs
  <2> QED  BY <1>3, <1>6, <2>1, <2>3
<1>7. CASE e.kind \notin {"sc", "del"}
  <2>1. ActiveAfter(e) = p /\ LiveAfter(e) = live
    BY <1>2, <1>7 DEF ActiveAfter, LiveAfter
  <2> QED  BY <1>3, <2>1
<1> QED  BY <1>4, <1>5, <1>6, <1>7

(* The window tells which super chats are live after each event, too.      *)
LEMMA WindowTells ==
  ASSUME history \in Seq(Events), Tells(history, live), NEW e \in Events,
         NEW n \in Nat \ {0}
  PROVE  Tells(LastN(Append(history, e), n), LiveAfter(e))
<1>1. PICK h, g, m : h = history /\ g = LastN(Append(history, e), n) /\ m = Len(history)
  OBVIOUS
<1>2. /\ h \in Seq(Events) /\ m \in Nat /\ DOMAIN h = 1..m
      /\ Append(h, e) \in Seq(Events) /\ Len(Append(h, e)) = m + 1
      /\ Append(h, e)[m + 1] = e
      /\ \A j \in 1..m : Append(h, e)[j] = h[j]
  BY <1>1, AppendProperties
<1>3. /\ g \in Seq(Events) /\ Len(g) >= 1
      /\ \E o \in Nat : m + 1 = Len(g) + o /\ \A j \in DOMAIN g : g[j] = Append(h, e)[j + o]
  <2>1. PICK t \in Seq(Events) : t = Append(h, e) /\ Len(t) = m + 1
    BY <1>2
  <2>2. g = LastN(t, n)
    BY <1>1, <2>1
  <2>3. /\ LastN(t, n) \in Seq(Events)
        /\ \E o \in Nat : /\ Len(t) = Len(LastN(t, n)) + o
                          /\ \A j \in DOMAIN LastN(t, n) : LastN(t, n)[j] = t[j + o]
        /\ n >= 1 /\ Len(t) >= 1 => Len(LastN(t, n)) >= 1
    BY LastNIs
  <2>4. g \in Seq(Events) /\ Len(g) >= 1
    BY <1>2, <2>1, <2>2, <2>3
  <2>5. PICK o \in Nat : Len(t) = Len(g) + o /\ \A j \in DOMAIN g : g[j] = t[j + o]
    BY <2>2, <2>3
  <2>6. m + 1 = Len(g) + o /\ \A j \in DOMAIN g : g[j] = Append(h, e)[j + o]
    BY <2>1, <2>5
  <2> QED  BY <2>4, <2>6
<1>4. PICK o \in Nat : m + 1 = Len(g) + o /\ \A j \in DOMAIN g : g[j] = Append(h, e)[j + o]
  BY <1>3
<1>5. PICK l \in Nat : l = Len(g) /\ l >= 1 /\ DOMAIN g = 1..l
  BY <1>3
<1>6. g[l] = e /\ l \in DOMAIN g
  BY <1>2, <1>4, <1>5
<1>7. \A j \in 1..(l - 1) : j + o \in 1..m /\ g[j] = h[j + o]
  <2> TAKE j \in 1..(l - 1)
  <2>1. j \in DOMAIN g /\ j + o \in 1..m
    BY <1>2, <1>4, <1>5
  <2> QED  BY <1>2, <1>4, <2>1
<1>8. ASSUME NEW i \in ScIds, NEW j \in DOMAIN g, LastAbout(g, j, i)
      PROVE  g[j].kind = "sc" <=> i \in LiveAfter(e)
  <2>1. CASE j = l
    <3>1. i \in e.ids /\ e.kind \in {"sc", "del"}
      BY <1>6, <1>8, <2>1, SuperChatIs DEF LastAbout
    <3> QED  BY <1>6, <2>1, <3>1 DEF LiveAfter
  <2>2. CASE j # l
    <3>1. j \in 1..(l - 1) /\ l > j
      BY <1>5, <2>2
    <3>2. i \notin e.ids
      BY <1>6, <1>8, <3>1 DEF LastAbout
    <3>3. i \in LiveAfter(e) <=> i \in live
      BY <3>2 DEF LiveAfter
    <3>4. j + o \in DOMAIN h /\ g[j] = h[j + o] /\ i \in h[j + o].ids
      BY <1>2, <1>7, <1>8, <3>1 DEF LastAbout
    <3>5. ASSUME NEW k \in DOMAIN h, k > j + o PROVE i \notin h[k].ids
      <4>1. k - o \in 1..(l - 1) /\ k - o > j /\ (k - o) + o = k
        BY <1>2, <1>4, <1>5, <3>1, <3>5
      <4>2. g[k - o] = h[k] /\ k - o \in DOMAIN g
        BY <1>5, <1>7, <4>1
      <4> QED  BY <1>8, <4>1, <4>2 DEF LastAbout
    <3>6. LastAbout(h, j + o, i)
      BY <3>4, <3>5 DEF LastAbout
    <3>7. h[j + o].kind = "sc" <=> i \in live
      BY <1>1, <3>4, <3>6 DEF Tells
    <3> QED  BY <3>3, <3>4, <3>7
  <2> QED  BY <2>1, <2>2
<1>9. Tells(g, LiveAfter(e))
  BY <1>8 DEF Tells
<1> QED  BY <1>1, <1>9

(* What a browser shows of super chat i after a replay of the pinned ones  *)
(* that are not in the window, and the window w.                           *)
LEMMA ShownOfReplay ==
  ASSUME NEW pinned \in Seq(SuperChats), NEW w \in Seq(Events), NEW i \in ScIds
  PROVE  i \in Shown(pinned \o w) <=>
           \/ /\ i \in IdsOf(pinned)
              /\ \A k \in DOMAIN w : ~(w[k].kind = "del" /\ i \in w[k].ids)
           \/ \E j \in DOMAIN w :
                /\ w[j].kind = "sc" /\ i \in w[j].ids
                /\ \A k \in DOMAIN w : k > j => ~(w[k].kind = "del" /\ i \in w[k].ids)
<1>1. PICK p, m, t : p = Len(pinned) /\ m = Len(w) /\ t = pinned \o w
  OBVIOUS
<1>2. pinned \in Seq(Events)
  BY DEF SuperChats
<1>3. /\ p \in Nat /\ m \in Nat /\ DOMAIN pinned = 1..p /\ DOMAIN w = 1..m
      /\ t \in Seq(Events) /\ Len(t) = p + m /\ DOMAIN t = 1..(p + m)
      /\ \A k \in 1..p : k \in 1..(p + m) /\ t[k] = pinned[k] /\ t[k].kind = "sc"
  <2>1. p \in Nat /\ m \in Nat /\ DOMAIN pinned = 1..p /\ DOMAIN w = 1..m
    BY <1>1
  <2>2. /\ t \in Seq(Events) /\ Len(t) = p + m
        /\ \A k \in 1..(p + m) : t[k] = IF k <= p THEN pinned[k] ELSE w[k - p]
    BY <1>1, <1>2, ConcatProperties
  <2>3. \A k \in 1..p : k \in 1..(p + m) /\ k <= p /\ pinned[k] \in SuperChats
    BY <2>1
  <2> QED  BY <2>1, <2>2, <2>3, SuperChatIs
<1>4. \A k \in 1..m : k + p \in 1..(p + m) /\ t[k + p] = w[k]
  <2>1. \A k \in 1..(p + m) : t[k] = IF k <= p THEN pinned[k] ELSE w[k - p]
    BY <1>1, <1>2, ConcatProperties
  <2> TAKE k \in 1..m
  <2>2. k + p \in 1..(p + m) /\ ~(k + p <= p) /\ (k + p) - p = k
    BY <1>3
  <2> QED  BY <2>1, <2>2
<1>5. \A k \in 1..(p + m) : k \in 1..p \/ (k - p \in 1..m /\ (k - p) + p = k)
  BY <1>3
<1> DEFINE Deleted(s, k) == s[k].kind = "del" /\ i \in s[k].ids
           Announced(s, k) == s[k].kind = "sc" /\ i \in s[k].ids
<1>6. \A k \in 1..p : ~Deleted(t, k)
  BY <1>3
<1>7. \A k \in 1..m : (Deleted(t, k + p) <=> Deleted(w, k))
                       /\ (Announced(t, k + p) <=> Announced(w, k))
  BY <1>4
<1>8. \A k \in 1..p : Announced(t, k) <=> i \in pinned[k].ids
  BY <1>3
<1>9. i \in Shown(t) <=>
        \E j \in 1..(p + m) : Announced(t, j) /\ \A k \in (j + 1)..(p + m) : ~Deleted(t, k)
  BY <1>3 DEF Shown
<1>10. i \in IdsOf(pinned) <=> \E k \in 1..p : i \in pinned[k].ids
  BY <1>3 DEF IdsOf
<1> HIDE DEF Deleted, Announced
<1>11. ASSUME NEW j \in 1..p, Announced(t, j), \A k \in (j + 1)..(p + m) : ~Deleted(t, k)
       PROVE  i \in IdsOf(pinned) /\ \A k \in 1..m : ~Deleted(w, k)
  <2>1. \A k \in 1..m : k + p \in (j + 1)..(p + m)
    BY <1>3
  <2> QED  BY <1>7, <1>8, <1>10, <1>11, <2>1
<1>12. ASSUME NEW j \in 1..m, Announced(t, j + p),
              \A k \in (j + p + 1)..(p + m) : ~Deleted(t, k)
       PROVE  Announced(w, j) /\ \A k \in 1..m : k > j => ~Deleted(w, k)
  <2>1. \A k \in 1..m : k > j => k + p \in (j + p + 1)..(p + m)
    BY <1>3
  <2> QED  BY <1>7, <1>12, <2>1
<1>13. ASSUME i \in IdsOf(pinned), \A k \in 1..m : ~Deleted(w, k)
       PROVE  \E j \in 1..(p + m) : Announced(t, j) /\ \A k \in (j + 1)..(p + m) : ~Deleted(t, k)
  <2>1. PICK j \in 1..p : Announced(t, j)
    BY <1>8, <1>10, <1>13
  <2>2. \A k \in 1..(p + m) : ~Deleted(t, k)
    BY <1>5, <1>6, <1>7, <1>13
  <2>3. j \in 1..(p + m) /\ \A k \in (j + 1)..(p + m) : k \in 1..(p + m)
    BY <1>3
  <2> QED  BY <2>1, <2>2, <2>3
<1>14. ASSUME NEW j \in 1..m, Announced(w, j), \A k \in 1..m : k > j => ~Deleted(w, k)
       PROVE  \E a \in 1..(p + m) : Announced(t, a) /\ \A k \in (a + 1)..(p + m) : ~Deleted(t, k)
  <2>1. j + p \in 1..(p + m) /\ Announced(t, j + p)
    BY <1>4, <1>7, <1>14
  <2>2. \A k \in (j + p + 1)..(p + m) : k - p \in 1..m /\ k - p > j /\ (k - p) + p = k
    BY <1>3
  <2>3. \A k \in (j + p + 1)..(p + m) : ~Deleted(t, k)
    BY <1>7, <1>14, <2>2
  <2> QED  BY <2>1, <2>3
<1>15. i \in Shown(t) <=>
         \/ i \in IdsOf(pinned) /\ \A k \in 1..m : ~Deleted(w, k)
         \/ \E j \in 1..m : Announced(w, j) /\ \A k \in 1..m : k > j => ~Deleted(w, k)
  <2>1. ASSUME i \in Shown(t)
        PROVE  \/ i \in IdsOf(pinned) /\ \A k \in 1..m : ~Deleted(w, k)
               \/ \E j \in 1..m : Announced(w, j) /\ \A k \in 1..m : k > j => ~Deleted(w, k)
    <3>1. PICK j \in 1..(p + m) :
            Announced(t, j) /\ \A k \in (j + 1)..(p + m) : ~Deleted(t, k)
      BY <1>9, <2>1
    <3>2. CASE j \in 1..p
      BY <1>11, <3>1, <3>2
    <3>3. CASE j - p \in 1..m /\ (j - p) + p = j
      <4>1. PICK x \in 1..m : x + p = j
        BY <3>3
      <4>2. Announced(t, x + p) /\ \A k \in (x + p + 1)..(p + m) : ~Deleted(t, k)
        BY <3>1, <4>1
      <4> QED  BY <1>12, <4>2
    <3> QED  BY <1>5, <3>2, <3>3
  <2> QED  BY <1>9, <1>13, <1>14, <2>1
<1> QED  BY <1>1, <1>3, <1>15 DEF Deleted, Announced

(* A window that ends like the history tells what the history tells.       *)
LEMMA SnapshotTells ==
  ASSUME NEW h \in Seq(Events), NEW alive, Tells(h, alive), NEW n \in Nat
  PROVE  Tells(LastN(h, n), alive)
<1>1. PICK g : g = LastN(h, n)
  OBVIOUS
<1>2. /\ g \in Seq(Events)
      /\ \E o \in Nat : Len(h) = Len(g) + o /\ \A j \in DOMAIN g : g[j] = h[j + o]
  BY <1>1, LastNIs
<1>3. PICK o \in Nat : Len(h) = Len(g) + o /\ \A j \in DOMAIN g : g[j] = h[j + o]
  BY <1>2
<1>4. PICK l \in Nat, m \in Nat : l = Len(g) /\ m = Len(h) /\ m = l + o
                                 /\ DOMAIN g = 1..l /\ DOMAIN h = 1..m
  BY <1>2, <1>3
<1>5. ASSUME NEW i \in ScIds, NEW j \in DOMAIN g, LastAbout(g, j, i)
      PROVE  g[j].kind = "sc" <=> i \in alive
  <2>1. j + o \in DOMAIN h /\ g[j] = h[j + o] /\ i \in h[j + o].ids
    BY <1>3, <1>4, <1>5 DEF LastAbout
  <2>2. ASSUME NEW k \in DOMAIN h, k > j + o PROVE i \notin h[k].ids
    <3>1. k - o \in DOMAIN g /\ k - o > j /\ (k - o) + o = k
      BY <1>4, <2>2
    <3>2. g[k - o] = h[k]
      BY <1>3, <3>1
    <3> QED  BY <1>5, <3>1, <3>2 DEF LastAbout
  <2>3. LastAbout(h, j + o, i)
    BY <2>1, <2>2 DEF LastAbout
  <2> QED  BY <2>1, <2>3 DEF Tells
<1> QED  BY <1>1, <1>5 DEF Tells

(* A super chat that the window mentions has a last mention.               *)
LEMMA LastMention ==
  ASSUME NEW w \in Seq(Events), NEW i \in ScIds, NEW j \in DOMAIN w, i \in w[j].ids
  PROVE  \E k \in DOMAIN w : k >= j /\ LastAbout(w, k, i)
<1>1. PICK m \in Nat : DOMAIN w = 1..m
  OBVIOUS
<1> DEFINE T == {k \in 1..m : i \in w[k].ids}
<1>2. T \in SUBSET (1..m) /\ j \in T
  BY <1>1
<1>3. PICK k \in T : \A x \in T : x <= k
  BY <1>2, LastOf
<1>4. k \in DOMAIN w /\ i \in w[k].ids /\ k >= j
  BY <1>1, <1>2, <1>3
<1>5. ASSUME NEW x \in DOMAIN w, x > k, i \in w[x].ids PROVE FALSE
  <2>1. x \in T /\ x \in Nat /\ k \in Nat
    BY <1>1, <1>5
  <2> QED  BY <1>3, <1>5, <2>1
<1> QED  BY <1>4, <1>5 DEF LastAbout

LEMMA ReplayIsLive ==
  ASSUME history \in Seq(Events), ReplayInv PROVE ReplayShowsLiveSuperChats
<1>1. PICK w, pinned : /\ w = HistorySnapshot
                       /\ pinned = Without(Pruned(active), ScIdsOf(HistorySnapshot))
  OBVIOUS
<1>2. w \in Seq(Events) /\ Tells(w, live)
  BY <1>1, BridgeAssumption, LastNIs, SnapshotTells DEF ReplayInv, HistorySnapshot
<1>3. /\ Pruned(active) \in Seq(SuperChats)
      /\ IdsOf(Pruned(active)) = IdsOf(active) \ expired
  BY IdsWithout DEF ReplayInv, Pruned
<1>4. pinned \in Seq(SuperChats) /\ IdsOf(pinned) = (live \ expired) \ ScIdsOf(w)
  BY <1>1, <1>3, IdsWithout DEF ReplayInv
<1>5. \A j \in DOMAIN w, i \in ScIds :
        i \in w[j].ids => w[j].kind \in {"sc", "del"}
  BY <1>2, SuperChatIs
<1>6. \A i : i \in ScIdsOf(w) <=> \E j \in DOMAIN w : w[j].kind = "sc" /\ i \in w[j].ids
  BY DEF ScIdsOf
<1>7. ASSUME NEW i \in ScIds, i \notin expired, i \in live PROVE i \in Shown(pinned \o w)
  <2>1. CASE \E j \in DOMAIN w : i \in w[j].ids
    <3>1. PICK k \in DOMAIN w : LastAbout(w, k, i)
      BY <1>2, <2>1, LastMention
    <3>2. /\ w[k].kind = "sc" /\ i \in w[k].ids
          /\ \A x \in DOMAIN w : x > k => i \notin w[x].ids
      BY <1>2, <1>7, <3>1 DEF Tells, LastAbout
    <3> QED  BY <1>2, <1>4, <3>2, ShownOfReplay
  <2>2. CASE \A j \in DOMAIN w : i \notin w[j].ids
    <3>1. i \in IdsOf(pinned)
      BY <1>4, <1>6, <1>7, <2>2
    <3> QED  BY <1>2, <1>4, <2>2, <3>1, ShownOfReplay
  <2> QED  BY <2>1, <2>2
<1>8. ASSUME NEW i \in ScIds, i \notin expired, i \in Shown(pinned \o w) PROVE i \in live
  <2>1. CASE i \in IdsOf(pinned)
    BY <1>4, <2>1
  <2>2. CASE \E j \in DOMAIN w :
               /\ w[j].kind = "sc" /\ i \in w[j].ids
               /\ \A k \in DOMAIN w : k > j => ~(w[k].kind = "del" /\ i \in w[k].ids)
    <3>1. PICK j \in DOMAIN w :
               /\ w[j].kind = "sc" /\ i \in w[j].ids
               /\ \A k \in DOMAIN w : k > j => ~(w[k].kind = "del" /\ i \in w[k].ids)
      BY <2>2
    <3>2. PICK k \in DOMAIN w : k >= j /\ LastAbout(w, k, i)
      BY <1>2, <3>1, LastMention
    <3>3. i \in w[k].ids /\ (w[k].kind = "sc" <=> i \in live)
      BY <1>2, <3>2 DEF Tells, LastAbout
    <3>4. k = j \/ k > j
      <4>1. j \in Nat /\ k \in Nat
        BY <1>2
      <4> QED  BY <3>2, <4>1
    <3>5. w[k].kind = "sc"
      BY <1>5, <3>1, <3>3, <3>4
    <3> QED  BY <3>3, <3>5
  <2> QED  BY <1>2, <1>4, <1>8, <2>1, <2>2, ShownOfReplay
<1>9. live \ expired \subseteq ScIds
  BY <1>4, SuperChatIs DEF ReplayInv, IdsOf
<1>10. \A i \in Shown(pinned \o w) : i \in ScIds
  BY DEF Shown
<1>11. Shown(pinned \o w) \ expired = live \ expired
  BY <1>7, <1>8, <1>9, <1>10
<1> QED  BY <1>1, <1>11 DEF ReplayShowsLiveSuperChats, ReplaySnapshot

LEMMA InitReplay == Init => ReplayInv
<1> SUFFICES ASSUME Init PROVE ReplayInv
  OBVIOUS
<1>1. active \in Seq(SuperChats)
  <2>1. CASE active = <<>>
    BY <2>1
  <2>2. ASSUME NEW i \in ScIds, active = <<[n |-> 0, kind |-> "sc", ids |-> {i}]>>
        PROVE  active \in Seq(SuperChats)
    <3>1. [n |-> 0, kind |-> "sc", ids |-> {i}] \in SuperChats
      BY EventType DEF SuperChats
    <3> QED  BY <2>2, <3>1
  <2> QED  BY <2>1, <2>2 DEF Init
<1>2. live = IdsOf(active)
  BY DEF Init
<1>3. Tells(history, live)
  BY DEF Init, Tells
<1> QED  BY <1>1, <1>2, <1>3 DEF ReplayInv

(* An event, the final status included.                                    *)
LEMMA EventReplays ==
  ASSUME TypeInv, ReplayInv, NEW e \in Events, active' = ActiveAfter(e),
         history' = LastN(Append(history, e), MaxHistory), expired' = expired,
         live' = LiveAfter(e)
  PROVE  ReplayInv'
<1>1. history \in Seq(Events) /\ Tells(history, live)
  BY DEF TypeInv, TypeOK, ReplayInv
<1>2. Tells(LastN(Append(history, e), MaxHistory), LiveAfter(e))
  BY <1>1, BridgeAssumption, WindowTells
<1>3. /\ ActiveAfter(e) \in Seq(SuperChats)
      /\ IdsOf(ActiveAfter(e)) \ expired = LiveAfter(e) \ expired
  BY ActiveFollows
<1>4. PICK a, g, v : a = ActiveAfter(e) /\ v = LiveAfter(e)
                     /\ g = LastN(Append(history, e), MaxHistory)
  OBVIOUS
<1>5. active' = a /\ live' = v /\ history' = g
  BY <1>4
<1>6. a \in Seq(SuperChats) /\ IdsOf(a) \ expired = v \ expired /\ Tells(g, v)
  BY <1>2, <1>3, <1>4
<1> QED  BY <1>5, <1>6 DEF ReplayInv

LEMMA OnEventReplays ==
  ASSUME TypeInv, ReplayInv, NEW kind, NEW ids,
         [n |-> eventCount + 1, kind |-> kind, ids |-> ids] \in Events,
         OnEvent(kind, ids)
  PROVE  ReplayInv'
<1>1. PICK e : e = [n |-> eventCount + 1, kind |-> kind, ids |-> ids]
  OBVIOUS
<1>2. /\ e \in Events /\ e.kind = kind /\ e.ids = ids
      /\ active' = ActiveAfter(e) /\ expired' = expired
      /\ history' = LastN(Append(history, e), MaxHistory)
  BY <1>1 DEF OnEvent
<1>3. live' = LiveAfter(e)
  BY <1>2 DEF OnEvent, LiveAfter
<1> QED  BY <1>2, <1>3, EventReplays

LEMMA NextReplay == ASSUME TypeInv, ReplayInv, [Next]_vars PROVE ReplayInv'
<1>0. eventCount + 1 \in Nat
  BY DEF TypeInv, TypeOK
<1>1. CASE ChatEvent
  <2>1. [n |-> eventCount + 1, kind |-> "chat", ids |-> {}] \in Events
    BY <1>0, EventType
  <2> QED  BY <1>1, <2>1, OnEventReplays DEF ChatEvent
<1>2. ASSUME NEW i \in ScIds, SuperChatArrives(i) PROVE ReplayInv'
  BY <1>0, <1>2, EventType, OnEventReplays DEF SuperChatArrives
<1>3. ASSUME NEW S \in SUBSET ScIds \ {{}}, SuperChatDeleted(S) PROVE ReplayInv'
  BY <1>0, <1>3, EventType, OnEventReplays DEF SuperChatDeleted
<1>4. CASE StopRoom
  <2>1. PICK e : e = [n |-> eventCount + 1, kind |-> "status", ids |-> {}]
    OBVIOUS
  <2>2. /\ e \in Events /\ e.kind = "status"
        /\ active' = ActiveAfter(e) /\ expired' = expired /\ live' = live
        /\ history' = LastN(Append(history, e), MaxHistory)
    BY <1>0, <1>4, <2>1, EventType DEF StopRoom
  <2>3. live' = LiveAfter(e)
    BY <2>2 DEF LiveAfter
  <2> QED  BY <2>2, <2>3, EventReplays
<1>5. ASSUME NEW i \in ScIds, SuperChatExpires(i) PROVE ReplayInv'
  <2>1. UNCHANGED <<active, history, live>> /\ expired' = expired \cup {i}
    BY <1>5 DEF SuperChatExpires, bridge
  <2> QED  BY <2>1 DEF ReplayInv
<1>6. ASSUME NEW c \in Clients, Register(c) PROVE ReplayInv'
  <2>1. UNCHANGED <<history, live, expired>> /\ active' = Pruned(active)
    BY <1>6 DEF Register
  <2>2. /\ Pruned(active) \in Seq(SuperChats)
        /\ IdsOf(Pruned(active)) = IdsOf(active) \ expired
    BY IdsWithout DEF ReplayInv, Pruned
  <2>3. PICK a : a = Pruned(active)
    OBVIOUS
  <2>4. active' = a /\ a \in Seq(SuperChats) /\ IdsOf(a) = IdsOf(active) \ expired
    BY <2>1, <2>2, <2>3
  <2> QED  BY <2>1, <2>4 DEF ReplayInv
<1>7. ASSUME UNCHANGED <<active, history, live, expired>> PROVE ReplayInv'
  BY <1>7 DEF ReplayInv
<1>8. ASSUME NEW c \in Clients, ClientSteps(c) PROVE ReplayInv'
  BY <1>6, <1>7, <1>8
  DEF ClientSteps, SenderSteps, RegisterTooLate, ClientLeaves, RouteUnregisters, RouteEnds,
      SenderTakes, SendCompletes, SendFails, SenderClosesSocket, SocketCloses, bridge
<1>9. CASE CloseReturns \/ UNCHANGED vars
  BY <1>7, <1>9 DEF CloseReturns, vars, bridge
<1> QED  BY <1>1, <1>2, <1>3, <1>4, <1>5, <1>8, <1>9 DEF Next

(* Whatever has pushed a super chat out of the window, repeated it or      *)
(* deleted it: what _replay_snapshot puts together shows a browser that    *)
(* joins exactly the live super chats.                                     *)
THEOREM ReplayCorrect == Spec => []ReplayShowsLiveSuperChats
<1>1. TypeInv /\ ReplayInv => ReplayShowsLiveSuperChats
  BY ReplayIsLive DEF TypeInv, TypeOK
<1>2. TypeInv /\ ReplayInv /\ [Next]_vars => TypeInv' /\ ReplayInv'
  BY NextType, NextReplay
<1> QED  BY InitType, InitReplay, <1>1, <1>2, PTL DEF Spec

-----------------------------------------------------------------------------
(* The room's lifecycle: RoomLifecycle, for any number of calls, beside    *)
(* the bridge.  What holds however the calls overlap, and what holds only  *)
(* if they do not.                                                         *)

(* A bridge is installed, and taken by another call, only when the call    *)
(* that built it is over; until then its client is nobody else's to stop.  *)
OwnersDone ==
  \A c \in Calls :
    /\ pc[c] = "loading" => c \in clients
    /\ room_bridge = c => pc[c] = "done"
    /\ \A d \in Calls : previous[d] = c => pc[c] = "done"

(* What the proofs need of the types of the calls, the singleton and the   *)
(* live clients.                                                           *)
CoreType ==
  /\ pc \in [Calls -> {"idle", "start", "start_disconnecting", "start_closing",
                       "connecting", "loading", "stop_disconnecting",
                       "stop_closing", "done"}]
  /\ previous \in [Calls -> Calls \cup {NoBridge}]
  /\ room_bridge \in Calls \cup {NoBridge}
  /\ clients \subseteq Calls
  /\ outdated \subseteq Calls

OwnerInv == CoreType /\ OwnersDone /\ NoStaleBridge

(* The initial state satisfies the inductive invariant. *)
LEMMA InitOwner == RoomInit => OwnerInv
BY LifecycleAssumption DEF RoomInit, OwnerInv, CoreType, OwnersDone,
                           NoStaleBridge, NoBridge

(* Every step keeps the inductive invariant: each disjunct of Next in its  *)
(* own case.                                                               *)
LEMMA NextOwner == OwnerInv /\ [RoomNext]_roomVars => OwnerInv'
<1> SUFFICES ASSUME OwnerInv, [RoomNext]_roomVars PROVE OwnerInv'
  OBVIOUS
<1> USE LifecycleAssumption
    DEF OwnerInv, CoreType, OwnersDone, NoStaleBridge, NoBridge, Goes, auth
<1>1. ASSUME NEW c \in Calls, StartCalled(c) PROVE OwnerInv'
  BY <1>1 DEF StartCalled, Called
<1>2. ASSUME NEW c \in Calls, StopCalled(c) PROVE OwnerInv'
  BY <1>2 DEF StopCalled, Called, TakesBridge
<1>3. ASSUME NEW c \in Calls, AuthExpires(c) PROVE OwnerInv'
  BY <1>3 DEF AuthExpires, Called, TakesBridge, Begun
<1>4. ASSUME NEW c \in Calls, StartTakesPrevious(c) PROVE OwnerInv'
  BY <1>4 DEF StartTakesPrevious
<1>5. ASSUME NEW c \in Calls, ClientStarts(c) PROVE OwnerInv'
  BY <1>5 DEF ClientStarts
<1>6. ASSUME NEW c \in Calls, ConnectFails(c) PROVE OwnerInv'
  BY <1>6 DEF ConnectFails
<1>7. ASSUME NEW c \in Calls, BridgeInstalled(c) PROVE OwnerInv'
  BY <1>7 DEF BridgeInstalled
<1>8. ASSUME NEW c \in Calls, ConnectExpires(c) PROVE OwnerInv'
  BY <1>8 DEF ConnectExpires, TakesBridge, Begun
<1>9. ASSUME NEW c \in Calls, Disconnected(c) PROVE OwnerInv'
  BY <1>9 DEF Disconnected
<1>10. ASSUME NEW c \in Calls, BridgeCleared(c) PROVE OwnerInv'
  BY <1>10 DEF BridgeCleared
<1>11. CASE LoggedIn
  BY <1>11 DEF LoggedIn
<1>12. CASE UNCHANGED roomVars
  BY <1>12 DEF roomVars
<1>13. QED
  BY <1>1, <1>2, <1>3, <1>4, <1>5, <1>6, <1>7, <1>8, <1>9, <1>10, <1>11, <1>12
     DEF RoomNext, Progress

(* Whatever calls overlap, stop_room_route and start_room_route leave no   *)
(* bridge installed whose client is gone, except in the moments before the *)
(* call that stopped the client clears it.                                 *)
THEOREM StaleBridgeCorrect == RoomSpec => []NoStaleBridge
<1>1. OwnerInv => NoStaleBridge
  BY DEF OwnerInv
<1>2. QED
  BY InitOwner, NextOwner, <1>1, PTL DEF RoomSpec

(* The routes keep each call at a place of its code, and the singleton and *)
(* the live clients those of some call.                                    *)
THEOREM LifecycleTypeCorrect == RoomSpec => []RoomTypeOK
<1> DEFINE Flags == loginExpired \in BOOLEAN /\ overlapped \in BOOLEAN
<1>1. OwnerInv /\ Flags => RoomTypeOK
  BY Zenon DEF OwnerInv, CoreType, RoomTypeOK
<1>2. RoomInit => OwnerInv /\ Flags
  BY InitOwner, Zenon DEF RoomInit
<1>3. Flags /\ [RoomNext]_roomVars => Flags'
  BY Zenon DEF RoomNext, Progress, LoggedIn, StartCalled, StopCalled,
     AuthExpires, Called, NotesOverlap, StartTakesPrevious, ClientStarts,
     ConnectFails, BridgeInstalled, ConnectExpires, Disconnected,
     BridgeCleared, auth, roomVars
<1>4. OwnerInv /\ Flags /\ [RoomNext]_roomVars => OwnerInv' /\ Flags'
  BY <1>3, NextOwner
<1>5. QED
  BY <1>1, <1>2, <1>4, PTL DEF RoomSpec

-----------------------------------------------------------------------------
(* Calls that do not overlap. *)

Installed == {room_bridge} \ {NoBridge}

(* At most one call is in progress, and its place in the code fixes which  *)
(* client is alive and which bridge is installed.                          *)
OneAtATime ==
  \A c, d \in Calls :
    pc[c] \notin {"idle", "done"} /\ pc[d] \notin {"idle", "done"} => c = d

PlaceFixesRoom ==
  /\ room_bridge # NoBridge => pc[room_bridge] = "done"
  /\ (\A c \in Calls : pc[c] \in {"idle", "done"}) => clients = Installed
  /\ \A c \in Calls :
       /\ pc[c] = "start" => clients = Installed
       /\ pc[c] \in {"start_disconnecting", "stop_disconnecting"} =>
            previous[c] = room_bridge /\ clients = Installed
       /\ pc[c] \in {"start_closing", "stop_closing"} => clients = {}
       /\ pc[c] = "connecting" => clients = {} /\ room_bridge = NoBridge
       /\ pc[c] = "loading" => clients = {c} /\ room_bridge = NoBridge

(* A client of an expired login is alive only while the stop that follows  *)
(* the expiry waits for it.                                                *)
OutdatedDoomed ==
  /\ \A c \in outdated : pc[c] = "done"
  /\ clients \cap outdated # {} =>
       \E d \in Calls : pc[d] = "stop_disconnecting"

Serial == OneAtATime /\ PlaceFixesRoom /\ OutdatedDoomed

SerialInv == OwnerInv /\ (~overlapped => Serial)

(* The initial state satisfies the invariant of calls that do not overlap. *)
LEMMA InitSerial == RoomInit => SerialInv
<1>1. RoomInit => Serial
  BY LifecycleAssumption
     DEF RoomInit, Serial, OneAtATime, PlaceFixesRoom, OutdatedDoomed,
         Installed, NoBridge
<1>2. QED
  BY <1>1, InitOwner DEF SerialInv

(* A call that leaves the calls serial found no other under way.           *)
LEMMA SerialCall ==
  ASSUME NotesOverlap, ~overlapped'
  PROVE  ~overlapped /\ InProgress = {}
BY Zenon DEF NotesOverlap

(* Every step keeps the calls serial or notes that they overlap.           *)
LEMMA NextSerial ==
  ASSUME OwnerInv, ~overlapped => Serial, [RoomNext]_roomVars, ~overlapped'
  PROVE  Serial'
<1> USE LifecycleAssumption
    DEF OwnerInv, Serial, CoreType, OneAtATime, PlaceFixesRoom,
        OutdatedDoomed, Installed, NoBridge, Goes, auth
<1>0. \A d \in Calls : InProgress = {} => pc[d] \in {"idle", "done"}
  BY DEF InProgress
<1>1. ASSUME NEW c \in Calls, StartCalled(c) PROVE Serial'
  <2>1. ~overlapped /\ InProgress = {}
    BY <1>1, SerialCall DEF StartCalled, Called
  <2>2. QED
    BY <1>0, <1>1, <2>1 DEF StartCalled, Called
<1>2. ASSUME NEW c \in Calls, StopCalled(c) PROVE Serial'
  <2>1. ~overlapped /\ InProgress = {}
    BY <1>2, SerialCall DEF StopCalled, Called
  <2>2. QED
    BY <1>0, <1>2, <2>1 DEF StopCalled, Called, TakesBridge
<1>3. ASSUME NEW c \in Calls, AuthExpires(c) PROVE Serial'
  <2>0. ~overlapped /\ InProgress = {}
    BY <1>3, SerialCall DEF AuthExpires, Called
  <2>1. \A d \in Calls : pc[d] \in {"idle", "done"}
    BY <1>0, <2>0
  <2>2. Begun = clients
    BY <2>1 DEF Begun
  <2>3. outdated' = outdated \cup clients
    BY <1>3, <2>2 DEF AuthExpires
  <2>4. \A d \in clients :
          d = room_bridge /\ room_bridge # NoBridge /\ pc[d] = "done"
    BY <2>0, <2>1
  <2>5. CASE room_bridge = NoBridge
    BY <1>3, <2>0, <2>1, <2>3, <2>4, <2>5
       DEF AuthExpires, Called, TakesBridge
  <2>6. CASE room_bridge # NoBridge
    BY <1>3, <2>0, <2>1, <2>3, <2>4, <2>6
       DEF AuthExpires, Called, TakesBridge
  <2>7. QED
    BY <2>5, <2>6
<1>4. ASSUME NEW c \in Calls, Progress(c) PROVE Serial'
  <2>0. ~overlapped
    BY <1>4, Zenon DEF Progress
  <2>1. CASE StartTakesPrevious(c)
    BY <2>0, <2>1 DEF StartTakesPrevious
  <2>2. CASE ClientStarts(c)
    BY <2>0, <2>2 DEF ClientStarts
  <2>3. CASE ConnectFails(c)
    BY <2>0, <2>3 DEF ConnectFails
  <2>4. CASE BridgeInstalled(c)
    BY <2>0, <2>4 DEF BridgeInstalled
  <2>5. CASE ConnectExpires(c)
    BY <2>0, <2>5 DEF ConnectExpires, TakesBridge, Begun
  <2>6. CASE Disconnected(c)
    BY <2>0, <2>6 DEF Disconnected
  <2>7. CASE BridgeCleared(c)
    BY <2>0, <2>7 DEF BridgeCleared
  <2>8. QED
    BY <1>4, <2>1, <2>2, <2>3, <2>4, <2>5, <2>6, <2>7 DEF Progress
<1>5. CASE LoggedIn
  <2>1. ~overlapped /\ InProgress = {}
    BY <1>5, SerialCall DEF LoggedIn
  <2>2. QED
    BY <1>5, <2>1 DEF LoggedIn
<1>6. CASE UNCHANGED roomVars
  <2>1. ~overlapped
    BY <1>6, Zenon DEF roomVars
  <2>2. QED
    BY <1>6, <2>1 DEF roomVars
<1>7. QED
  BY <1>1, <1>2, <1>3, <1>4, <1>5, <1>6 DEF RoomNext

(* Both parts together. *)
LEMMA NextSerialInv == SerialInv /\ [RoomNext]_roomVars => SerialInv'
BY NextOwner, NextSerial, Zenon DEF SerialInv

(* As long as calls do not overlap, start, stop and expiry keep at most    *)
(* one DanmakuClient alive, and between calls it is the one the installed  *)
(* bridge can stop.                                                        *)
THEOREM SerialSingleRoom == RoomSpec => []SingleRoomIfSerial
<1>1. SerialInv => SingleRoomIfSerial
  <2>1. ASSUME CoreType, Serial PROVE SingleRoom
    BY <2>1, LifecycleAssumption
       DEF CoreType, Serial, SingleRoom, OneAtATime, PlaceFixesRoom, Installed,
           InProgress, NoBridge
  <2>2. QED
    BY <2>1, Zenon DEF SerialInv, OwnerInv, SingleRoomIfSerial
<1>2. QED
  BY InitSerial, NextSerialInv, <1>1, PTL DEF RoomSpec

(* As long as calls do not overlap, no client outlives the login it was    *)
(* started with.                                                           *)
THEOREM SerialExpiryStopsRoom == RoomSpec => []ExpiryStopsRoomIfSerial
<1>1. SerialInv => ExpiryStopsRoomIfSerial
  <2>1. ASSUME Serial PROVE ExpiryStopsRoom
    BY <2>1 DEF Serial, ExpiryStopsRoom, OutdatedDoomed, InProgress
  <2>2. QED
    BY <2>1, Zenon DEF SerialInv, ExpiryStopsRoomIfSerial
<1>2. QED
  BY InitSerial, NextSerialInv, <1>1, PTL DEF RoomSpec

=============================================================================
