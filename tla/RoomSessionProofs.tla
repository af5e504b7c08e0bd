-------------------------- MODULE RoomSessionProofs --------------------------
(***************************************************************************)
(* The dedup window of RoomSession and the super chats its bridge knows,   *)
(* for every window size, every set of ids and every bound.                *)
(*                                                                         *)
(* The window is what the code keeps, `forwarded` the history it stands    *)
(* for.  The inductive invariant says that the deque is always the tail    *)
(* of the history, and all of it until the window is full; an id missing   *)
(* from the set is then missing from that tail.                            *)
(*                                                                         *)
(* The bridge follows Bilibili's super chats with a delay.  The invariant  *)
(* of the second part says that the last message under way about a super   *)
(* chat tells whether it is live, and the bridge does if there is none.    *)
(***************************************************************************)
EXTENDS RoomSession, TLAPS

(* The deque is the end of what was forwarded, and as long as the window   *)
(* allows.                                                                 *)
Suffix(ids, all) ==
  /\ Len(ids) <= DedupSize
  /\ Len(ids) <= Len(all)
  /\ Len(ids) < DedupSize => Len(ids) = Len(all)
  /\ \A k \in 1..Len(ids) : ids[k] = all[Len(all) - Len(ids) + k]

(* Two occurrences of an id in the history are more than a window apart.   *)
Spaced(all) ==
  \A m, n \in 1..Len(all) : (m < n /\ all[m] = all[n]) => n - m > DedupSize

IdsOf(ids) == {ids[n] : n \in 1..Len(ids)}

WindowInv ==
  /\ seenIds \in Seq(ChatIds)
  /\ forwarded \in Seq(ChatIds)
  /\ seenIdSet = IdsOf(seenIds)
  /\ Suffix(seenIds, forwarded)
  /\ Spaced(forwarded)

IInv == TypeOK /\ WindowInv

-----------------------------------------------------------------------------
(* A suffix of a spaced history has no repetitions (Remember never stores  *)
(* an id twice).                                                           *)
LEMMA SuffixDistinct ==
  ASSUME NEW ids \in Seq(ChatIds), NEW all \in Seq(ChatIds),
         Suffix(ids, all), Spaced(all),
         NEW m \in 1..Len(ids), NEW n \in 1..Len(ids), m < n
  PROVE  ids[m] # ids[n]
<1> DEFINE d == Len(all) - Len(ids)
<1>1. d \in Nat /\ d + m \in 1..Len(all) /\ d + n \in 1..Len(all)
  BY SessionAssumption DEF Suffix
<1>2. ids[m] = all[d + m] /\ ids[n] = all[d + n]
  BY DEF Suffix
<1>3. (d + n) - (d + m) <= DedupSize /\ d + m < d + n
  BY <1>1, SessionAssumption DEF Suffix
<1> QED BY <1>1, <1>2, <1>3, SessionAssumption DEF Spaced

(* A new id is not among the last DedupSize ids of the history.            *)
LEMMA FreshIsSpaced ==
  ASSUME NEW ids \in Seq(ChatIds), NEW all \in Seq(ChatIds), NEW id \in ChatIds,
         Suffix(ids, all), Spaced(all), id \notin IdsOf(ids)
  PROVE  Spaced(Append(all, id))
<1> DEFINE new == Append(all, id)
<1>1. Len(new) = Len(all) + 1 /\ new[Len(all) + 1] = id
  OBVIOUS
<1>2. \A k \in 1..Len(all) : new[k] = all[k]
  OBVIOUS
<1> HIDE DEF new
<1>3. SUFFICES ASSUME NEW m \in 1..Len(new), NEW n \in 1..Len(new),
                      m < n, new[m] = new[n]
               PROVE  n - m > DedupSize
  BY DEF Spaced, new
<1>4. Len(all) \in Nat /\ m \in 1..Len(all)
  BY <1>1, <1>3
<1>5. CASE n \in 1..Len(all)
  BY <1>2, <1>4, <1>3, <1>5 DEF Spaced
<1>6. CASE n = Len(all) + 1
  <2>1. all[m] = id
    BY <1>1, <1>2, <1>3, <1>4, <1>6
  <2>2. SUFFICES ASSUME n - m <= DedupSize
                 PROVE  FALSE
    BY SessionAssumption
  <2> DEFINE k == m - (Len(all) - Len(ids))
  <2>3. Len(ids) = Len(all) \/ Len(ids) = DedupSize
    BY SessionAssumption DEF Suffix
  <2>4. k \in 1..Len(ids)
    BY <2>2, <2>3, <1>4, <1>6, SessionAssumption DEF Suffix
  <2>5. ids[k] = all[Len(all) - Len(ids) + k]
    BY <2>4 DEF Suffix
  <2>6. Len(all) - Len(ids) + k = m
    BY <1>4
  <2>7. ids[k] = id
    BY <2>1, <2>5, <2>6
  <2> QED BY <2>4, <2>7 DEF IdsOf
<1> QED BY <1>1, <1>5, <1>6

(* Remembering an id in a window that is not full.                         *)
LEMMA RememberFree ==
  ASSUME NEW ids \in Seq(ChatIds), NEW all \in Seq(ChatIds), NEW id \in ChatIds,
         Suffix(ids, all), Len(ids) < DedupSize
  PROVE  /\ Append(ids, id) \in Seq(ChatIds)
         /\ Suffix(Append(ids, id), Append(all, id))
         /\ IdsOf(Append(ids, id)) = IdsOf(ids) \cup {id}
<1> DEFINE i == Append(ids, id)
           a == Append(all, id)
<1>1. /\ i \in Seq(ChatIds)
      /\ Len(i) = Len(ids) + 1 /\ i[Len(ids) + 1] = id
      /\ \A k \in 1..Len(ids) : i[k] = ids[k]
  OBVIOUS
<1>2. /\ Len(a) = Len(all) + 1 /\ a[Len(all) + 1] = id
      /\ \A k \in 1..Len(all) : a[k] = all[k]
  OBVIOUS
<1>3. Suffix(i, a)
  <2>1. Len(ids) = Len(all) /\ Len(ids) \in Nat
    BY DEF Suffix
  <2>2. \A k \in 1..Len(ids) : ids[k] = all[k]
    BY <2>1 DEF Suffix
  <2>3. \A k \in 1..Len(i) : i[k] = a[Len(a) - Len(i) + k]
    BY <1>1, <1>2, <2>1, <2>2
  <2> QED BY <1>1, <1>2, <2>1, <2>3, SessionAssumption DEF Suffix
<1>4. IdsOf(i) = IdsOf(ids) \cup {id}
  BY <1>1 DEF IdsOf
<1> QED BY <1>1, <1>3, <1>4

(* Remembering an id in a full window: the oldest one leaves both the      *)
(* deque and the set.                                                      *)
LEMMA RememberFull ==
  ASSUME NEW ids \in Seq(ChatIds), NEW all \in Seq(ChatIds), NEW id \in ChatIds,
         Suffix(ids, all), Spaced(all), Len(ids) >= DedupSize, DedupSize > 0
  PROVE  /\ Append(Tail(ids), id) \in Seq(ChatIds)
         /\ Suffix(Append(Tail(ids), id), Append(all, id))
         /\ IdsOf(Append(Tail(ids), id)) = (IdsOf(ids) \ {Head(ids)}) \cup {id}
<1> DEFINE t == Tail(ids)
           i == Append(t, id)
           a == Append(all, id)
<1>1. Len(ids) = DedupSize /\ Len(ids) > 0 /\ ids # <<>>
  BY SessionAssumption DEF Suffix
<1>2. /\ t \in Seq(ChatIds) /\ Len(t) = Len(ids) - 1
      /\ \A k \in 1..Len(t) : t[k] = ids[k + 1]
  BY <1>1
<1>3. /\ i \in Seq(ChatIds)
      /\ Len(i) = Len(t) + 1 /\ i[Len(t) + 1] = id
      /\ \A k \in 1..Len(t) : i[k] = t[k]
  <2> HIDE DEF t
  <2> QED BY <1>2
<1>4. /\ Len(a) = Len(all) + 1 /\ a[Len(all) + 1] = id
      /\ \A k \in 1..Len(all) : a[k] = all[k]
  OBVIOUS
<1>5. Len(i) = Len(ids) /\ i[Len(ids)] = id /\ Len(ids) \in Nat /\ Len(all) \in Nat
  <2> HIDE DEF t, i
  <2> QED BY <1>1, <1>2, <1>3
<1>6. \A k \in 1..(Len(ids) - 1) : i[k] = ids[k + 1]
  <2> HIDE DEF t, i
  <2> QED BY <1>2, <1>3
<1>7. Suffix(i, a)
  <2> HIDE DEF t, i, a
  <2>1. ASSUME NEW k \in 1..Len(i)
        PROVE  i[k] = a[Len(a) - Len(i) + k]
    <3>1. CASE k = Len(ids)
      BY <3>1, <1>4, <1>5
    <3>2. CASE k \in 1..(Len(ids) - 1)
      <4>1. ids[k + 1] = all[Len(all) - Len(ids) + (k + 1)]
        BY <3>2, <1>5 DEF Suffix
      <4>2. Len(a) - Len(i) + k = Len(all) - Len(ids) + (k + 1)
        BY <1>4, <1>5, <3>2
      <4>3. Len(a) - Len(i) + k \in 1..Len(all)
        BY <1>4, <1>5, <3>2 DEF Suffix
      <4> QED BY <1>4, <1>6, <3>2, <4>1, <4>2, <4>3
    <3> QED BY <1>5, <3>1, <3>2
  <2> QED BY <1>1, <1>4, <1>5, <2>1, SessionAssumption DEF Suffix
<1>8. \A m, n \in 1..Len(ids) : m < n => ids[m] # ids[n]
  BY SuffixDistinct
<1>9. Head(ids) = ids[1]
  BY <1>1
<1>10. IdsOf(i) = (IdsOf(ids) \ {Head(ids)}) \cup {id}
  <2> HIDE DEF t, i
  <2>1. IdsOf(i) = {ids[k + 1] : k \in 1..(Len(ids) - 1)} \cup {id}
    BY <1>1, <1>5, <1>6 DEF IdsOf
  <2>2. {ids[k + 1] : k \in 1..(Len(ids) - 1)} = IdsOf(ids) \ {ids[1]}
    <3>1. ASSUME NEW k \in 1..(Len(ids) - 1)
          PROVE  ids[k + 1] \in IdsOf(ids) \ {ids[1]}
      BY <1>1, <1>5, <1>8 DEF IdsOf
    <3>2. ASSUME NEW x \in IdsOf(ids) \ {ids[1]}
          PROVE  \E k \in 1..(Len(ids) - 1) : x = ids[k + 1]
      <4>1. PICK n \in 1..Len(ids) : x = ids[n]
        BY DEF IdsOf
      <4>2. n # 1
        BY <4>1
      <4>3. n - 1 \in 1..(Len(ids) - 1) /\ (n - 1) + 1 = n
        BY <4>2, <1>5
      <4> QED BY <4>1, <4>3
    <3> QED BY <3>1, <3>2
  <2> QED BY <2>1, <2>2, <1>9
<1> QED BY <1>3, <1>7, <1>10

-----------------------------------------------------------------------------
(* The steps. *)

(* WindowInv speaks of the window only.                                    *)
LEMMA WindowUntouched ==
  ASSUME WindowInv, UNCHANGED window
  PROVE  WindowInv'
BY DEF WindowInv, window, Suffix, Spaced, IdsOf

(* A new session, and disconnect(), start with an empty window.            *)
LEMMA WindowCleared ==
  ASSUME seenIds' = <<>>, seenIdSet' = {}, forwarded' = <<>>
  PROVE  WindowInv'
<1>1. Suffix(<<>>, <<>>) /\ Spaced(<<>>) /\ IdsOf(<<>>) = {}
  BY SessionAssumption DEF Suffix, Spaced, IdsOf
<1> QED BY <1>1 DEF WindowInv, Suffix, Spaced, IdsOf

(* A chat message is remembered.                                           *)
LEMMA WindowRemembers ==
  ASSUME WindowInv, NEW id \in ChatIds, id \notin seenIdSet, DedupSize > 0,
         Remember(id), forwarded' = Append(forwarded, id)
  PROVE  WindowInv'
<1>1. /\ seenIds \in Seq(ChatIds) /\ forwarded \in Seq(ChatIds)
      /\ seenIdSet = IdsOf(seenIds) /\ id \notin IdsOf(seenIds)
      /\ Suffix(seenIds, forwarded) /\ Spaced(forwarded)
  BY DEF WindowInv
<1>2. Spaced(Append(forwarded, id)) /\ Append(forwarded, id) \in Seq(ChatIds)
  BY <1>1, FreshIsSpaced
<1>3. /\ seenIds' \in Seq(ChatIds)
      /\ Suffix(seenIds', Append(forwarded, id))
      /\ seenIdSet' = IdsOf(seenIds')
  <2>1. CASE Len(seenIds) >= DedupSize
    <3>1. /\ seenIds' = Append(Tail(seenIds), id)
          /\ seenIdSet' = (seenIdSet \ {Head(seenIds)}) \cup {id}
      BY <2>1 DEF Remember
    <3> QED BY <1>1, <2>1, <3>1, RememberFull
  <2>2. CASE Len(seenIds) < DedupSize
    <3>1. seenIds' = Append(seenIds, id) /\ seenIdSet' = seenIdSet \cup {id}
      BY <2>2, <1>1, SessionAssumption DEF Remember
    <3> QED BY <1>1, <2>2, <3>1, RememberFree
  <2> QED BY <1>1, <2>1, <2>2, SessionAssumption
<1>4. /\ Suffix(seenIds', forwarded') /\ Spaced(forwarded')
      /\ seenIdSet' = IdsOf(seenIds')
  BY <1>2, <1>3
<1> QED BY <1>2, <1>3, <1>4 DEF WindowInv, Suffix, Spaced, IdsOf

(* Every step keeps the window: only a forwarded chat message, a new       *)
(* session and disconnect() touch it.                                      *)
LEMMA WindowStep ==
  ASSUME TypeOK, WindowInv, [Next]_vars
  PROVE  WindowInv'
<1>1. CASE Connect
  BY <1>1, WindowCleared DEF Connect
<1>2. CASE Disconnected
  BY <1>2, WindowCleared DEF Disconnected
<1>3. CASE ChatForwarded
  <2>1. CASE Head(wire).id # NoId /\ DedupSize > 0
    <3>1. Head(wire).id \in ChatIds
      <4>1. wire # <<>>
        BY <1>3 DEF ChatForwarded, Dispatching
      <4>2. Head(wire) \in RawMessages
        BY <4>1 DEF TypeOK
      <4> QED BY <2>1, <4>2 DEF RawMessages
    <3>2. /\ Head(wire).id \notin seenIdSet
          /\ Remember(Head(wire).id)
          /\ forwarded' = Append(forwarded, Head(wire).id)
      BY <1>3, <2>1 DEF ChatForwarded
    <3> QED BY <2>1, <3>1, <3>2, WindowRemembers
  <2>2. CASE ~(Head(wire).id # NoId /\ DedupSize > 0)
    <3>1. UNCHANGED window
      BY <1>3, <2>2 DEF ChatForwarded
    <3> QED BY <3>1, WindowUntouched
  <2> QED BY <2>1, <2>2
<1>4. CASE ~(Connect \/ Disconnected \/ ChatForwarded)
  <2>1. UNCHANGED window
    BY <1>4 DEF Next, vars, RoomResolved, SocketUp, ClientStarts, StartFails,
       ListRead, ListFails, BridgeCreated, Disconnect, ChatSent, SuperChatBought,
       SuperChatTranslated, SuperChatWithdrawn, ConnectionLost, Reconnected,
       MessageDropped, SuperChatForwarded
  <2> QED BY <2>1, WindowUntouched
<1> QED BY <1>1, <1>2, <1>3, <1>4

(* Three members of a set make a sequence over it.                         *)
LEMMA TripleInSeq ==
  ASSUME NEW S, NEW a \in S, NEW b \in S, NEW c \in S
  PROVE  <<a, b, c>> \in Seq(S)
OBVIOUS

(* What a message on the wire looks like stays as it is.                   *)
LEMMA RawTyped ==
  ASSUME NEW name \in CommandParts, NEW good \in BOOLEAN,
         NEW id \in ChatIds \cup {NoId}, NEW ids \in SUBSET ScIds
  PROVE  Raw(name, good, id, ids) \in RawMessages
<1>1. "4" \in CommandParts /\ "0" \in CommandParts
  BY DEF CommandParts
<1>2. <<name, "4", "0">> \in Seq(CommandParts)
  BY <1>1, TripleInSeq, Zenon
<1> QED BY <1>2, Zenon DEF Raw, RawMessages

(* Sending keeps the wire and the missed super chats typed.                *)
LEMMA SendsTyped ==
  ASSUME TypeOK, NEW raw \in RawMessages, Sends(raw)
  PROVE  wire' \in Seq(RawMessages) /\ missed' \subseteq ScIds
<1>1. raw.ids \subseteq ScIds
  BY DEF RawMessages
<1>2. wire \in Seq(RawMessages) /\ missed \subseteq ScIds
  BY DEF TypeOK
<1> QED BY <1>1, <1>2 DEF Sends

(* The next message and what it is normalised to.                          *)
LEMMA NextMessageTyped ==
  ASSUME TypeOK, Dispatching
  PROVE  /\ Head(wire) \in RawMessages
         /\ Tail(wire) \in Seq(RawMessages)
         /\ normalize(Head(wire)).ids \subseteq ScIds
<1>1. Head(wire) \in RawMessages /\ Tail(wire) \in Seq(RawMessages)
  BY DEF TypeOK, Dispatching
<1>2. Head(wire).ids \subseteq ScIds
  BY <1>1 DEF RawMessages
<1> DEFINE raw == Head(wire)
<1>3. normalize(raw).ids \in {{}, raw.ids}
  <2> HIDE DEF raw
  <2>1. \/ normalize(raw) = [type |-> "danmaku", ids |-> {}]
        \/ normalize(raw) = [type |-> "sc", ids |-> raw.ids]
        \/ normalize(raw) = [type |-> "sc_delete", ids |-> raw.ids]
        \/ normalize(raw) = NoEvent
    BY DEF normalize
  <2> QED BY <2>1 DEF NoEvent
<1> QED BY <1>1, <1>2, <1>3

(* A broadcast adds only super chats of its event.                         *)
LEMMA BroadcastTyped ==
  ASSUME TypeOK, NEW e, e.ids \subseteq ScIds, Broadcast(e)
  PROVE  shown' \subseteq ScIds /\ missed' \subseteq ScIds
<1>1. shown \subseteq ScIds /\ missed \subseteq ScIds
  BY DEF TypeOK
<1> QED BY <1>1 DEF Broadcast

(* The steps of connect() and disconnect() keep the types.                 *)
LEMMA CallerTyped ==
  ASSUME TypeOK,
         \/ Connect \/ RoomResolved \/ SocketUp \/ ClientStarts \/ StartFails
         \/ ListRead \/ ListFails \/ BridgeCreated
         \/ Disconnect \/ Disconnected \/ ConnectionLost \/ Reconnected
  PROVE  TypeOK'
<1> USE SessionAssumption DEF TypeOK, window, connection, bilibili
<1>1. CASE Connect          BY <1>1 DEF Connect
<1>2. CASE RoomResolved     BY <1>2 DEF RoomResolved
<1>3. CASE SocketUp         BY <1>3 DEF SocketUp
<1>4. CASE ClientStarts     BY <1>4 DEF ClientStarts
<1>5. CASE StartFails       BY <1>5 DEF StartFails
<1>6. CASE ListRead         BY <1>6 DEF ListRead
<1>7. CASE ListFails        BY <1>7 DEF ListFails
<1>8. CASE BridgeCreated    BY <1>8 DEF BridgeCreated
<1>9. CASE Disconnect       BY <1>9 DEF Disconnect
<1>10. CASE Disconnected    BY <1>10 DEF Disconnected
<1>11. CASE ConnectionLost  BY <1>11 DEF ConnectionLost
<1>12. CASE Reconnected     BY <1>12 DEF Reconnected
<1> QED BY <1>1, <1>2, <1>3, <1>4, <1>5, <1>6, <1>7, <1>8, <1>9, <1>10, <1>11, <1>12

(* What Bilibili sends keeps the types.                                    *)
LEMMA BilibiliTyped ==
  ASSUME TypeOK,
         \/ \E id \in ChatIds \cup {NoId} : ChatSent(id)
         \/ \E i \in ScIds : SuperChatBought(i) \/ SuperChatTranslated(i)
         \/ \E S \in SUBSET ScIds : SuperChatWithdrawn(S)
  PROVE  TypeOK'
<1> USE SessionAssumption DEF window, connection, bilibili
<1>1. CASE \E id \in ChatIds \cup {NoId} : ChatSent(id)
  <2>1. PICK id \in ChatIds \cup {NoId} : ChatSent(id)
    BY <1>1
  <2>2. PICK good \in BOOLEAN : Sends(Raw("DANMU_MSG", good, id, {}))
    BY <2>1 DEF ChatSent
  <2>3. wire' \in Seq(RawMessages) /\ missed' \subseteq ScIds
    <3>1. Raw("DANMU_MSG", good, id, {}) \in RawMessages
      <4>1. {} \in SUBSET ScIds /\ NoId \in ChatIds \cup {NoId} /\ TRUE \in BOOLEAN
        BY Zenon
      <4>2. "DANMU_MSG" \in CommandParts
        BY DEF CommandParts
      <4> QED BY <4>1, <4>2, RawTyped, Zenon
    <3> QED BY <2>2, <3>1, SendsTyped
  <2> QED BY <2>1, <2>3 DEF TypeOK, ChatSent
<1>2. ASSUME NEW i \in ScIds, SuperChatBought(i)
      PROVE  TypeOK'
  <2>1. wire' \in Seq(RawMessages) /\ missed' \subseteq ScIds
    <3>1. Raw("SUPER_CHAT_MESSAGE", TRUE, NoId, {i}) \in RawMessages
      <4>1. {} \in SUBSET ScIds /\ NoId \in ChatIds \cup {NoId} /\ TRUE \in BOOLEAN
        BY Zenon
      <4>2. "SUPER_CHAT_MESSAGE" \in CommandParts
        BY DEF CommandParts
      <4> QED BY <4>1, <4>2, RawTyped, Zenon
    <3> QED BY <1>2, <3>1, SendsTyped DEF SuperChatBought
  <2> QED BY <1>2, <2>1 DEF TypeOK, SuperChatBought
<1>3. ASSUME NEW i \in ScIds, SuperChatTranslated(i)
      PROVE  TypeOK'
  <2>1. wire' \in Seq(RawMessages) /\ missed' \subseteq ScIds
    <3>1. Raw("SUPER_CHAT_MESSAGE_JPN", TRUE, NoId, {i}) \in RawMessages
      <4>1. {} \in SUBSET ScIds /\ NoId \in ChatIds \cup {NoId} /\ TRUE \in BOOLEAN
        BY Zenon
      <4>2. "SUPER_CHAT_MESSAGE_JPN" \in CommandParts
        BY DEF CommandParts
      <4> QED BY <4>1, <4>2, RawTyped, Zenon
    <3> QED BY <1>3, <3>1, SendsTyped DEF SuperChatTranslated
  <2> QED BY <1>3, <2>1 DEF TypeOK, SuperChatTranslated
<1>4. ASSUME NEW S \in SUBSET ScIds, SuperChatWithdrawn(S)
      PROVE  TypeOK'
  <2>1. wire' \in Seq(RawMessages) /\ missed' \subseteq ScIds
    <3>1. Raw("SUPER_CHAT_MESSAGE_DELETE", TRUE, NoId, S) \in RawMessages
      <4>1. {} \in SUBSET ScIds /\ NoId \in ChatIds \cup {NoId} /\ TRUE \in BOOLEAN
        BY Zenon
      <4>2. "SUPER_CHAT_MESSAGE_DELETE" \in CommandParts
        BY DEF CommandParts
      <4> QED BY <4>1, <4>2, RawTyped, Zenon
    <3> QED BY <1>4, <3>1, SendsTyped DEF SuperChatWithdrawn
  <2> QED BY <1>4, <2>1 DEF TypeOK, SuperChatWithdrawn
<1> QED BY <1>1, <1>2, <1>3, <1>4

(* _on_raw_message keeps the types; those of the window are WindowStep's.  *)
LEMMA DispatchTyped ==
  ASSUME TypeOK, MessageDropped \/ ChatForwarded \/ SuperChatForwarded,
         WindowInv'
  PROVE  TypeOK'
<1>1. /\ seenIds' \in Seq(ChatIds) /\ forwarded' \in Seq(ChatIds)
      /\ seenIdSet' \subseteq ChatIds
  BY DEF WindowInv, IdsOf
<1>2. CASE MessageDropped
  BY <1>1, <1>2, NextMessageTyped
     DEF MessageDropped, TypeOK, connection, bilibili
<1>3. CASE ChatForwarded
  <2>1. shown' \subseteq ScIds /\ missed' \subseteq ScIds
    BY <1>3, NextMessageTyped, BroadcastTyped DEF ChatForwarded
  <2>2. wire' \in Seq(RawMessages)
    BY <1>3, NextMessageTyped DEF ChatForwarded
  <2> QED BY <1>1, <1>3, <2>1, <2>2 DEF ChatForwarded, TypeOK, connection, bilibili
<1>4. CASE SuperChatForwarded
  <2>1. shown' \subseteq ScIds /\ missed' \subseteq ScIds
    BY <1>4, NextMessageTyped, BroadcastTyped DEF SuperChatForwarded
  <2>2. wire' \in Seq(RawMessages)
    BY <1>4, NextMessageTyped DEF SuperChatForwarded
  <2> QED BY <1>1, <1>4, <2>1, <2>2 DEF SuperChatForwarded, TypeOK, connection, bilibili
<1> QED BY <1>2, <1>3, <1>4

(* Stuttering.                                                             *)
LEMMA StutterTyped == ASSUME TypeOK, UNCHANGED vars PROVE TypeOK'
BY DEF TypeOK, vars, window, connection, bilibili

-----------------------------------------------------------------------------
(* The inductive invariant holds throughout. *)
THEOREM Inductive == Spec => []IInv
<1>1. Init => IInv
  <2>1. Init => TypeOK
    BY SessionAssumption DEF Init, TypeOK
  <2>2. Init => WindowInv
    BY SessionAssumption DEF Init, WindowInv, Suffix, Spaced, IdsOf
  <2> QED BY <2>1, <2>2 DEF IInv
<1>2. ASSUME IInv, [Next]_vars
      PROVE  IInv'
  <2>1. TypeOK /\ WindowInv /\ WindowInv'
    BY <1>2, WindowStep DEF IInv
  <2>2. TypeOK'
    BY <1>2, <2>1, CallerTyped, BilibiliTyped, DispatchTyped, StutterTyped
       DEF Next
  <2> QED BY <2>1, <2>2 DEF IInv
<1> QED BY <1>1, <1>2, PTL DEF Spec

(* The session, the wire and the bridge keep their types, whatever         *)
(* arrives while connect() is under way.                                   *)
THEOREM TypeCorrect == Spec => []TypeOK
<1>1. IInv => TypeOK
  BY DEF IInv
<1> QED BY <1>1, Inductive, PTL

(* The deque and the set of _on_raw_message hold the same ids, each once,  *)
(* and at most _dedup_size of them, for every window size.                 *)
THEOREM WindowCorrect == Spec => []WindowConsistent
<1>1. IInv => WindowConsistent
  <2> SUFFICES ASSUME IInv PROVE WindowConsistent
    OBVIOUS
  <2>1. /\ seenIds \in Seq(ChatIds) /\ forwarded \in Seq(ChatIds)
        /\ Suffix(seenIds, forwarded) /\ Spaced(forwarded)
        /\ seenIdSet = IdsOf(seenIds) /\ DOMAIN seenIds = 1..Len(seenIds)
    BY DEF IInv, WindowInv
  <2>2. ASSUME NEW m \in 1..Len(seenIds), NEW n \in 1..Len(seenIds), m # n
        PROVE  seenIds[m] # seenIds[n]
    <3>1. m < n \/ n < m
      BY <2>1, <2>2
    <3> QED BY <2>1, <3>1, SuffixDistinct
  <2> QED BY <2>1, <2>2 DEF WindowConsistent, Suffix, IdsOf
<1> QED BY <1>1, Inductive, PTL

(* _on_raw_message never forwards a chat message again before _dedup_size  *)
(* others, for every window size and any number of messages.               *)
THEOREM NoRepeatCorrect == Spec => []NoRepeatWithinWindow
<1>1. IInv => NoRepeatWithinWindow
  BY DEF IInv, WindowInv, Spaced, NoRepeatWithinWindow
<1> QED BY <1>1, Inductive, PTL

-----------------------------------------------------------------------------
(* Super chats: what is under way about one.                               *)

IsSc(raw) == normalize(raw).type = "sc"

(* A message with ids becomes an event with the same ids.                  *)
Sound(raw) ==
  raw.ids # {} => /\ normalize(raw).type \in {"sc", "sc_delete"}
                  /\ normalize(raw).ids = raw.ids

Silent(w, i) == \A m \in 1..Len(w) : i \notin w[m].ids

(* The last message about i tells whether it is live.                      *)
Agrees(w, i, S) ==
  \A m \in 1..Len(w) :
    i \in w[m].ids /\ (\A n \in 1..Len(w) : n > m => i \notin w[n].ids)
      => (IsSc(w[m]) <=> i \in S)

Tracked(i) ==
  /\ Agrees(wire, i, live)
  /\ pc = "loaded" /\ Silent(wire, i) => (i \in reply <=> i \in live)
  /\ pc = "ready" /\ Silent(wire, i) => (i \in shown <=> i \in live)

Connected == {"loading", "loaded", "ready"}

TrackInv ==
  /\ \A m \in 1..Len(wire) : Sound(wire[m])
  /\ upstream = "none" => wire = <<>>
  /\ upstream # "none" => pc \in {"starting"} \cup Connected
  /\ pc \in Connected => upstream # "none"
  /\ \A i \in ScIds \ missed : Tracked(i)

LEMMA EventOf ==
  ASSUME NEW raw
  PROVE  normalize(raw).ids \in {{}, raw.ids}
<1>1. \/ normalize(raw) = [type |-> "danmaku", ids |-> {}]
      \/ normalize(raw) = [type |-> "sc", ids |-> raw.ids]
      \/ normalize(raw) = [type |-> "sc_delete", ids |-> raw.ids]
      \/ normalize(raw) = NoEvent
  BY DEF normalize
<1> QED BY <1>1 DEF NoEvent

LEMMA ChatSound ==
  ASSUME NEW good \in BOOLEAN, NEW id
  PROVE  Sound(Raw("DANMU_MSG", good, id, {})) /\ Raw("DANMU_MSG", good, id, {}).ids = {}
<1>1. Raw("DANMU_MSG", good, id, {}).ids = {}
  BY Zenon DEF Raw
<1> QED BY <1>1 DEF Sound

LEMMA SuperChatSound ==
  ASSUME NEW S, S # {},
         NEW name \in {"SUPER_CHAT_MESSAGE", "SUPER_CHAT_MESSAGE_JPN",
                       "SUPER_CHAT_MESSAGE_DELETE"}
  PROVE  /\ Sound(Raw(name, TRUE, NoId, S))
         /\ Raw(name, TRUE, NoId, S).ids = S
         /\ IsSc(Raw(name, TRUE, NoId, S)) <=> name # "SUPER_CHAT_MESSAGE_DELETE"
<1> DEFINE raw == Raw(name, TRUE, NoId, S)
<1>1. raw.cmd = <<name, "4", "0">> /\ raw.good = TRUE /\ raw.ids = S
  BY Zenon DEF Raw
<1> HIDE DEF raw
<1>2. Head(raw.cmd) = name
  BY <1>1
<1>3. normalize(raw) =
        [type |-> IF name = "SUPER_CHAT_MESSAGE_DELETE" THEN "sc_delete" ELSE "sc",
         ids |-> S]
  BY <1>1, <1>2 DEF normalize
<1>4. /\ normalize(raw).ids = S
      /\ normalize(raw).type = IF name = "SUPER_CHAT_MESSAGE_DELETE" THEN "sc_delete" ELSE "sc"
  BY <1>3
<1>5. Sound(raw) /\ (IsSc(raw) <=> name # "SUPER_CHAT_MESSAGE_DELETE")
  BY <1>1, <1>4 DEF Sound, IsSc
<1> QED BY <1>1, <1>5 DEF raw

LEMMA AppendFacts ==
  ASSUME NEW w \in Seq(RawMessages), NEW r \in RawMessages
  PROVE  /\ Len(w) \in Nat /\ Len(Append(w, r)) = Len(w) + 1
         /\ Append(w, r)[Len(w) + 1] = r
         /\ \A m \in 1..Len(w) : Append(w, r)[m] = w[m]
OBVIOUS

LEMMA AppendAbout ==
  ASSUME NEW w \in Seq(RawMessages), NEW r \in RawMessages, NEW i \in r.ids, NEW S,
         IsSc(r) <=> i \in S
  PROVE  Agrees(Append(w, r), i, S) /\ ~Silent(Append(w, r), i)
<1> DEFINE v == Append(w, r)
<1>1. Len(w) \in Nat /\ Len(v) = Len(w) + 1 /\ v[Len(w) + 1] = r
  BY AppendFacts
<1> HIDE DEF v
<1>2. ASSUME NEW m \in 1..Len(v), i \in v[m].ids,
             \A n \in 1..Len(v) : n > m => i \notin v[n].ids
      PROVE  m = Len(w) + 1
  BY <1>1, <1>2
<1>3. Agrees(v, i, S)
  BY <1>1, <1>2 DEF Agrees
<1>4. ~Silent(v, i)
  BY <1>1 DEF Silent
<1> QED BY <1>3, <1>4 DEF v

LEMMA AppendOther ==
  ASSUME NEW w \in Seq(RawMessages), NEW r \in RawMessages, NEW i, i \notin r.ids,
         NEW S, NEW T, i \in S <=> i \in T, Agrees(w, i, S)
  PROVE  Agrees(Append(w, r), i, T) /\ (Silent(Append(w, r), i) => Silent(w, i))
<1> DEFINE v == Append(w, r)
<1>1. /\ Len(w) \in Nat /\ Len(v) = Len(w) + 1 /\ v[Len(w) + 1] = r
      /\ \A m \in 1..Len(w) : v[m] = w[m]
  BY AppendFacts
<1> HIDE DEF v
<1>2. ASSUME NEW m \in 1..Len(v), i \in v[m].ids,
             \A n \in 1..Len(v) : n > m => i \notin v[n].ids
      PROVE  IsSc(v[m]) <=> i \in T
  <2>1. m \in 1..Len(w) /\ v[m] = w[m]
    BY <1>1, <1>2
  <2>2. \A n \in 1..Len(w) : n > m => i \notin w[n].ids
    BY <1>1, <1>2
  <2> QED BY <1>2, <2>1, <2>2 DEF Agrees
<1>3. Agrees(v, i, T)
  BY <1>2 DEF Agrees
<1>4. Silent(v, i) => Silent(w, i)
  BY <1>1 DEF Silent
<1> QED BY <1>3, <1>4 DEF v

LEMMA TailAgrees ==
  ASSUME NEW w \in Seq(RawMessages), w # <<>>, NEW i, NEW S, Agrees(w, i, S)
  PROVE  /\ Agrees(Tail(w), i, S)
         /\ Silent(Tail(w), i) /\ i \in Head(w).ids => (IsSc(Head(w)) <=> i \in S)
         /\ Silent(Tail(w), i) /\ i \notin Head(w).ids => Silent(w, i)
<1> DEFINE v == Tail(w)
<1>1. /\ Len(w) \in Nat \ {0} /\ Len(v) = Len(w) - 1 /\ Head(w) = w[1]
      /\ \A m \in 1..Len(v) : v[m] = w[m + 1]
  OBVIOUS
<1> HIDE DEF v
<1>2. \A m \in 2..Len(w) : m - 1 \in 1..Len(v) /\ w[m] = v[m - 1]
  <2> SUFFICES ASSUME NEW m \in 2..Len(w) PROVE m - 1 \in 1..Len(v) /\ w[m] = v[m - 1]
    OBVIOUS
  <2>1. m - 1 \in 1..Len(v) /\ (m - 1) + 1 = m
    BY <1>1
  <2> QED BY <1>1, <2>1
<1>3. ASSUME NEW m \in 1..Len(v), i \in v[m].ids,
             \A n \in 1..Len(v) : n > m => i \notin v[n].ids
      PROVE  IsSc(v[m]) <=> i \in S
  <2>1. m + 1 \in 1..Len(w) /\ v[m] = w[m + 1]
    BY <1>1
  <2>2. ASSUME NEW n \in 1..Len(w), n > m + 1 PROVE i \notin w[n].ids
    BY <1>1, <1>2, <1>3, <2>2
  <2> QED BY <1>3, <2>1, <2>2 DEF Agrees
<1>4. Agrees(v, i, S)
  BY <1>3 DEF Agrees
<1>5. Silent(v, i) => \A n \in 1..Len(w) : n > 1 => i \notin w[n].ids
  BY <1>1, <1>2 DEF Silent
<1>6. Silent(v, i) /\ i \in w[1].ids => (IsSc(w[1]) <=> i \in S)
  BY <1>1, <1>5 DEF Agrees
<1>7. Silent(v, i) /\ i \notin w[1].ids => Silent(w, i)
  BY <1>1, <1>5 DEF Silent
<1> QED BY <1>1, <1>4, <1>6, <1>7 DEF v

(* A message that is sent: on the wire of a live connection it is the last *)
(* word on its super chats, during an outage it makes them missed.         *)
LEMMA SendsTracked ==
  ASSUME TypeOK, TrackInv, NEW raw \in RawMessages, Sends(raw), Sound(raw),
         UNCHANGED <<pc, upstream, reply, shown>>,
         \A i \in raw.ids : IsSc(raw) <=> i \in live',
         \A i \in ScIds \ raw.ids : i \in live' <=> i \in live
  PROVE  TrackInv'
<1>1. wire \in Seq(RawMessages)
  BY DEF TypeOK
<1>2. CASE upstream = "up"
  <2>1. wire' = Append(wire, raw) /\ missed' = missed
    BY <1>2 DEF Sends
  <2>2. \A m \in 1..Len(wire') : Sound(wire'[m])
    BY <1>1, <2>1, AppendFacts DEF TrackInv
  <2>3. ASSUME NEW i \in ScIds \ missed PROVE Tracked(i)'
    <3>1. Tracked(i)
      BY DEF TrackInv
    <3>2. CASE i \in raw.ids
      <4>1. Agrees(wire', i, live') /\ ~Silent(wire', i)
        BY <1>1, <2>1, <3>2, AppendAbout
      <4> QED BY <4>1 DEF Tracked, Agrees, Silent
    <3>3. CASE i \notin raw.ids
      <4>1. i \in live' <=> i \in live
        BY <3>3
      <4>2. Agrees(wire', i, live') /\ (Silent(wire', i) => Silent(wire, i))
        BY <1>1, <2>1, <3>1, <3>3, <4>1, AppendOther DEF Tracked
      <4> QED BY <3>1, <4>1, <4>2 DEF Tracked, Agrees, Silent
    <3> QED BY <3>2, <3>3
  <2> QED BY <1>2, <2>1, <2>2, <2>3 DEF TrackInv
<1>3. CASE upstream = "down"
  <2>1. wire' = wire /\ missed' = missed \cup raw.ids
    BY <1>3 DEF Sends
  <2>2. ASSUME NEW i \in ScIds \ missed' PROVE Tracked(i)'
    <3>1. Tracked(i) /\ (i \in live' <=> i \in live)
      BY <2>1 DEF TrackInv
    <3> QED BY <2>1, <3>1 DEF Tracked, Agrees, Silent
  <2> QED BY <1>3, <2>1, <2>2 DEF TrackInv, Sound
<1>4. CASE upstream = "none"
  <2>1. wire' = wire /\ missed' = missed /\ wire = <<>> /\ pc \notin Connected
    BY <1>4 DEF Sends, TrackInv
  <2>2. ASSUME NEW i PROVE Tracked(i)'
    BY <2>1 DEF Tracked, Agrees, Connected
  <2> QED BY <1>4, <2>1, <2>2 DEF TrackInv, Sound
<1> QED BY <1>2, <1>3, <1>4 DEF TypeOK

LEMMA BilibiliTracked ==
  ASSUME TypeOK, TrackInv,
         \/ \E id \in ChatIds \cup {NoId} : ChatSent(id)
         \/ \E i \in ScIds : SuperChatBought(i) \/ SuperChatTranslated(i)
         \/ \E S \in SUBSET ScIds : SuperChatWithdrawn(S)
  PROVE  TrackInv'
<1>0. /\ {} \in SUBSET ScIds /\ NoId \in ChatIds \cup {NoId} /\ TRUE \in BOOLEAN
      /\ \A i \in ScIds : {i} \in SUBSET ScIds
  BY Zenon
<1>1. /\ "DANMU_MSG" \in CommandParts /\ "SUPER_CHAT_MESSAGE" \in CommandParts
      /\ "SUPER_CHAT_MESSAGE_JPN" \in CommandParts
      /\ "SUPER_CHAT_MESSAGE_DELETE" \in CommandParts
  BY DEF CommandParts
<1>2. ASSUME NEW id \in ChatIds \cup {NoId}, ChatSent(id) PROVE TrackInv'
  <2>1. PICK good \in BOOLEAN : Sends(Raw("DANMU_MSG", good, id, {}))
    BY <1>2 DEF ChatSent
  <2> DEFINE raw == Raw("DANMU_MSG", good, id, {})
  <2>2. raw \in RawMessages
    BY <1>0, <1>1, RawTyped, Zenon
  <2>3. Sound(raw) /\ raw.ids = {} /\ Sends(raw)
    BY <2>1, ChatSound
  <2>4. UNCHANGED <<pc, upstream, reply, shown, live>>
    BY <1>2 DEF ChatSent, connection
  <2> HIDE DEF raw
  <2> QED BY <2>2, <2>3, <2>4, SendsTracked
<1>3. ASSUME NEW i \in ScIds, SuperChatBought(i) PROVE TrackInv'
  <2> DEFINE raw == Raw("SUPER_CHAT_MESSAGE", TRUE, NoId, {i})
  <2>1. raw \in RawMessages
    BY <1>0, <1>1, RawTyped, Zenon
  <2>2. Sound(raw) /\ raw.ids = {i} /\ IsSc(raw)
    BY SuperChatSound
  <2>3. Sends(raw) /\ live' = live \cup {i} /\ UNCHANGED <<pc, upstream, reply, shown>>
    BY <1>3 DEF SuperChatBought, connection
  <2> HIDE DEF raw
  <2> QED BY <2>1, <2>2, <2>3, SendsTracked
<1>4. ASSUME NEW i \in ScIds, SuperChatTranslated(i) PROVE TrackInv'
  <2> DEFINE raw == Raw("SUPER_CHAT_MESSAGE_JPN", TRUE, NoId, {i})
  <2>1. raw \in RawMessages
    BY <1>0, <1>1, RawTyped, Zenon
  <2>2. Sound(raw) /\ raw.ids = {i} /\ IsSc(raw)
    BY SuperChatSound
  <2>3. Sends(raw) /\ i \in live /\ UNCHANGED <<pc, upstream, reply, shown, live>>
    BY <1>4 DEF SuperChatTranslated, connection, bilibili
  <2> HIDE DEF raw
  <2> QED BY <2>1, <2>2, <2>3, SendsTracked
<1>5. ASSUME NEW S \in SUBSET ScIds, SuperChatWithdrawn(S) PROVE TrackInv'
  <2> DEFINE raw == Raw("SUPER_CHAT_MESSAGE_DELETE", TRUE, NoId, S)
  <2>1. raw \in RawMessages
    BY <1>0, <1>1, RawTyped, Zenon
  <2>2. Sound(raw) /\ raw.ids = S /\ ~IsSc(raw)
    BY <1>5, SuperChatSound DEF SuperChatWithdrawn
  <2>3. Sends(raw) /\ live' = live \ S /\ UNCHANGED <<pc, upstream, reply, shown>>
    BY <1>5 DEF SuperChatWithdrawn, connection
  <2> HIDE DEF raw
  <2> QED BY <2>1, <2>2, <2>3, SendsTracked
<1> QED BY <1>2, <1>3, <1>4, <1>5

(* A message that is dispatched: the bridge takes over what it said.       *)
LEMMA DispatchTracked ==
  ASSUME TypeOK, TrackInv, MessageDropped \/ ChatForwarded \/ SuperChatForwarded
  PROVE  TrackInv'
<1> DEFINE raw == Head(wire)
           e   == normalize(raw)
<1>1. /\ wire \in Seq(RawMessages) /\ wire # <<>> /\ wire' = Tail(wire)
      /\ UNCHANGED <<pc, upstream, reply, live>> /\ pc \in {"starting"} \cup Connected
  BY DEF TypeOK, MessageDropped, ChatForwarded, SuperChatForwarded, Dispatching,
     connection, bilibili, Connected
<1>2. Len(wire) \in Nat \ {0} /\ raw = wire[1] /\ Len(wire') = Len(wire) - 1
      /\ \A m \in 1..Len(wire') : wire'[m] = wire[m + 1]
  BY <1>1
<1>3. Sound(raw) /\ \A m \in 1..Len(wire') : Sound(wire'[m])
  <2>1. \A m \in 1..Len(wire') : m + 1 \in 1..Len(wire)
    BY <1>2
  <2>2. 1 \in 1..Len(wire)
    BY <1>2
  <2> QED BY <1>2, <2>1, <2>2 DEF TrackInv
<1>4. upstream # "none"
  BY <1>1 DEF TrackInv
<1>5. e.ids \in {{}, raw.ids}
  BY EventOf
<1>6. \A i \in ScIds \ missed : Tracked(i)
  BY DEF TrackInv
<1> HIDE DEF raw, e
<1>7. ASSUME NEW i \in ScIds \ missed', NEW known, NEW known1, i \notin missed,
             Silent(wire, i) => (i \in known <=> i \in live),
             i \notin raw.ids => (i \in known1 <=> i \in known),
             i \in raw.ids => (i \in known1 <=> IsSc(raw))
      PROVE  Silent(wire', i) => (i \in known1 <=> i \in live')
  <2>1. Agrees(wire, i, live)
    BY <1>6, <1>7 DEF Tracked
  <2>2. /\ Silent(wire', i) /\ i \in raw.ids => (IsSc(raw) <=> i \in live)
        /\ Silent(wire', i) /\ i \notin raw.ids => Silent(wire, i)
    BY <1>1, <2>1, TailAgrees DEF raw
  <2> QED BY <1>1, <1>7, <2>2
<1>8. ASSUME NEW i \in ScIds \ missed' PROVE Tracked(i)'
  <2>1. \/ shown' = shown /\ missed' = missed /\ raw.ids = {}
        \/ raw.ids # {} /\ Broadcast(e)
    <3>1. CASE MessageDropped
      BY <1>3, <3>1 DEF MessageDropped, Sound, raw, e, NoEvent
    <3>2. CASE ChatForwarded
      <4>1. Broadcast(e) /\ e.type = "danmaku"
        BY <3>2 DEF ChatForwarded, e, raw
      <4>2. raw.ids = {}
        BY <1>3, <4>1 DEF Sound, e
      <4> QED BY <1>5, <4>1, <4>2 DEF Broadcast
    <3>3. CASE SuperChatForwarded
      <4>1. Broadcast(e)
        BY <3>3 DEF SuperChatForwarded, e, raw
      <4>2. CASE raw.ids = {}
        <5>1. e.ids = {}
          BY <1>5, <4>2
        <5> QED BY <4>1, <4>2, <5>1 DEF Broadcast
      <4> QED BY <4>1, <4>2
    <3> QED BY <3>1, <3>2, <3>3
  <2>2. i \notin missed
    BY <2>1 DEF Broadcast
  <2>3. Tracked(i)
    BY <1>6, <2>2
  <2>4. Agrees(wire', i, live')
    BY <1>1, <2>3, TailAgrees DEF Tracked
  <2>5. pc = "loaded" => i \notin raw.ids
    <3>1. CASE raw.ids # {} /\ Broadcast(e)
      <4>1. e.ids = raw.ids
        BY <1>3, <3>1 DEF Sound, e
      <4> QED BY <3>1, <4>1 DEF Broadcast
    <3> QED BY <2>1, <3>1
  <2>6. pc = "loaded" /\ Silent(wire', i) => (i \in reply' <=> i \in live')
    <3> SUFFICES ASSUME pc = "loaded" PROVE Silent(wire', i) => (i \in reply <=> i \in live')
      BY <1>1
    <3> QED BY <1>7, <2>2, <2>3, <2>5 DEF Tracked
  <2>7. pc = "ready" /\ Silent(wire', i) => (i \in shown' <=> i \in live')
    <3> SUFFICES ASSUME pc = "ready" PROVE Silent(wire', i) => (i \in shown' <=> i \in live')
      OBVIOUS
    <3>1. Silent(wire, i) => (i \in shown <=> i \in live)
      BY <2>3 DEF Tracked
    <3>2. /\ i \notin raw.ids => (i \in shown' <=> i \in shown)
          /\ i \in raw.ids => (i \in shown' <=> IsSc(raw))
      <4>1. CASE raw.ids # {} /\ Broadcast(e)
        <5>1. e.ids = raw.ids /\ e.type \in {"sc", "sc_delete"} /\ (IsSc(raw) <=> e.type = "sc")
          BY <1>3, <4>1 DEF Sound, e, IsSc
        <5> QED BY <4>1, <5>1 DEF Broadcast
      <4> QED BY <2>1, <4>1
    <3> QED BY <1>7, <2>2, <3>1, <3>2
  <2> QED BY <1>1, <2>4, <2>6, <2>7 DEF Tracked, Agrees, Silent
<1> QED BY <1>1, <1>3, <1>4, <1>8 DEF TrackInv

(* connect() and disconnect(): the list reply is what is live, and the     *)
(* bridge starts from it.                                                  *)
LEMMA CallerTracked ==
  ASSUME TypeOK, TrackInv,
         \/ Connect \/ RoomResolved \/ SocketUp \/ ClientStarts \/ StartFails
         \/ ListRead \/ ListFails \/ BridgeCreated
         \/ Disconnect \/ Disconnected \/ ConnectionLost \/ Reconnected
  PROVE  TrackInv'
<1> USE DEF TrackInv, Tracked, Sound, Agrees, Silent, Connected, window, connection,
            bilibili
<1>1. CASE Connect          BY <1>1 DEF Connect
<1>2. CASE RoomResolved     BY <1>2 DEF RoomResolved
<1>3. CASE SocketUp         BY <1>3 DEF SocketUp
<1>4. CASE ClientStarts     BY <1>4 DEF ClientStarts
<1>5. CASE StartFails       BY <1>5 DEF StartFails
<1>6. CASE ListRead         BY <1>6 DEF ListRead
<1>7. CASE ListFails        BY <1>7 DEF ListFails
<1>8. CASE BridgeCreated    BY <1>8 DEF BridgeCreated
<1>9. CASE Disconnect       BY <1>9 DEF Disconnect
<1>10. CASE Disconnected    BY <1>10 DEF Disconnected
<1>11. CASE ConnectionLost  BY <1>11 DEF ConnectionLost
<1>12. CASE Reconnected     BY <1>12 DEF Reconnected
<1> QED BY <1>1, <1>2, <1>3, <1>4, <1>5, <1>6, <1>7, <1>8, <1>9, <1>10, <1>11, <1>12

(* For any number of super chats, messages, outages and sessions: once all *)
(* that was received is dispatched, the bridge shows exactly the super     *)
(* chats that are live, but for those it was never told of.                *)
THEOREM SuperChatsCorrect == Spec => []SuperChatsTracked
<1>1. Init => TrackInv
  BY DEF Init, TrackInv, Tracked, Sound, Agrees, Silent, Connected
<1>2. TypeOK /\ TrackInv /\ [Next]_vars => TrackInv'
  <2>1. TrackInv /\ UNCHANGED vars => TrackInv'
    BY DEF vars, window, connection, bilibili, TrackInv, Tracked, Sound, Agrees, Silent
  <2> QED BY <2>1, CallerTracked, BilibiliTracked, DispatchTracked DEF Next
<1>3. TypeOK /\ TrackInv => SuperChatsTracked
  BY DEF TypeOK, TrackInv, Tracked, Silent, SuperChatsTracked
<1> QED BY <1>1, <1>2, <1>3, TypeCorrect, PTL DEF Spec

=============================================================================
