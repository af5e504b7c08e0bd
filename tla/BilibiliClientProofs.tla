------------------------ MODULE BilibiliClientProofs ------------------------
(***************************************************************************)
(* For any number of calls, rotations, clock ticks, users and pages: the   *)
(* retry of a signed call carries newer keys whatever other calls do to    *)
(* the shared key cache, and the readers of a paged list that grows        *)
(* meanwhile miss nobody.                                                  *)
(***************************************************************************)
EXTENDS BilibiliClient, FiniteSetTheorems, TLAPS

Signing == {"nav", "nav_answered", "request", "stale"}

Ended == {"ok", "error", "anchor", "admin", "viewer", "unknown"}

(* The locals of a signed call; it never touches those of the page loops.  *)
SignedLocals ==
  [op : {"none", "signed"}, page : {1}, got : {<<>>}, signed : Nat, asked : Nat,
   answer : Nat, attempt : {1, 2}]

Histories ==
  [list : SUBSET Users, rotation : Nat, unlisted : BOOLEAN, cut : BOOLEAN,
   nofetch : BOOLEAN]

SignedType ==
  /\ clock \in Nat /\ clock >= Interval
  /\ keys \in Nat /\ rotation \in Nat
  /\ pc \in [Calls -> {"idle", "ok", "error"} \cup Signing]
  /\ call \in [Calls -> SignedLocals]
  /\ was \in [Calls -> Histories]

(* The keys a retry will be signed with, from the refusal on.              *)
RetryInv(c) ==
  call[c].attempt = 2 =>
    /\ pc[c] # "idle"
    /\ was[c].rotation <= rotation
    /\ pc[c] = "nav_answered" => call[c].answer >= was[c].rotation
    /\ pc[c] \in {"request", "stale"} /\ was[c].nofetch = FALSE
         => call[c].signed >= was[c].rotation

SignedInv == SignedType /\ \A c \in Calls : RetryInv(c)

(* The locals and history of a paged call.                                 *)
PagedLocals ==
  [op : {"none", "ban_list", "room_role"}, page : Nat \ {0}, got : Seq(Users),
   signed : Nat, asked : Nat, answer : Nat, attempt : {1, 2}]

PagedType ==
  /\ listed \in Seq(Users)
  /\ pc \in [Calls -> {"idle", "page"} \cup Ended]
  /\ call \in [Calls -> PagedLocals]
  /\ was \in [Calls -> Histories]

-----------------------------------------------------------------------------
(* Pages of a list *)

(* The rows before page n.                                                 *)
Before(n) == (n - 1) * PageSize

(* u is in a row that a reader of page n has not yet passed.               *)
Ahead(list, n, u) == \E i \in 1..Len(list) : i > Before(n) /\ list[i] = u

LEMMA BeforeNext ==
  ASSUME NEW n \in Nat \ {0}
  PROVE  /\ Before(n) \in Nat
         /\ n * PageSize = Before(n) + PageSize
         /\ Before(n + 1) = Before(n) + PageSize
<1>1. PageSize \in Nat \ {0}
  BY ClientAssumption
<1>2. n - 1 \in Nat
  OBVIOUS
<1>3. \A k \in Nat : k * PageSize \in Nat /\ (k + 1) * PageSize = k * PageSize + PageSize
  BY <1>1
<1> QED  BY <1>1, <1>2, <1>3 DEF Before

LEMMA PageRows ==
  ASSUME NEW list \in Seq(Users), NEW n \in Nat \ {0}
  PROVE  /\ Page(list, n) \in Seq(Users)
         /\ Len(Page(list, n)) <= PageSize
         /\ Page(list, n) = <<>> => Len(list) <= Before(n)
         /\ \A i \in 1..Len(list) :
              i > Before(n) /\ i <= Before(n) + PageSize => list[i] \in ToSet(Page(list, n))
<1> DEFINE a == Before(n)
           b == IF a + PageSize > Len(list) THEN Len(list) ELSE a + PageSize
<1>0. PageSize \in Nat \ {0} /\ Len(list) \in Nat
  BY ClientAssumption
<1>1. a \in Nat /\ PageSize \in Nat \ {0} /\ Len(list) \in Nat
  BY <1>0, BeforeNext
<1>2. Page(list, n) = SubSeq(list, a + 1, b)
  BY BeforeNext DEF Page, Before
<1>3. b \in Nat /\ b <= Len(list) /\ b <= a + PageSize
  BY <1>1
<1>4. b = Len(list) \/ b = a + PageSize
  OBVIOUS
<1> HIDE DEF a, b
<1>5. /\ Page(list, n) \in Seq(Users)
      /\ Len(Page(list, n)) = IF a + 1 <= b THEN b - a ELSE 0
      /\ \A j \in 1..(b - a) : Page(list, n)[j] = list[a + j]
  BY <1>1, <1>2, <1>3
<1>6. ASSUME NEW i \in 1..Len(list), i > a, i <= a + PageSize
      PROVE  list[i] \in ToSet(Page(list, n))
  <2>1. i - a \in 1..(b - a) /\ a + (i - a) = i /\ b - a = Len(Page(list, n))
    BY <1>1, <1>3, <1>4, <1>5, <1>6
  <2>2. Page(list, n)[i - a] = list[i] /\ i - a \in DOMAIN Page(list, n)
    BY <1>5, <2>1
  <2> QED  BY <2>2 DEF ToSet
<1>7. Len(Page(list, n)) <= PageSize
  BY <1>1, <1>3, <1>5
<1>8. Page(list, n) = <<>> => Len(list) <= a
  BY <1>1, <1>3, <1>4, <1>5
<1> QED  BY <1>5, <1>6, <1>7, <1>8 DEF a

(* The last page by Bilibili's own count really is the last.               *)
LEMMA LastPage ==
  ASSUME NEW list \in Seq(Users), NEW n \in Nat \ {0}, n >= TotalPage(list)
  PROVE  Len(list) <= Before(n) + PageSize
<1> DEFINE q == TotalPage(list)
<1>1. PageSize \in Nat \ {0} /\ Len(list) \in Nat
  BY ClientAssumption
<1>2. q \in Nat /\ Len(list) + PageSize - 1 < (q + 1) * PageSize
  BY <1>1 DEF TotalPage
<1> HIDE DEF q
<1>3. n >= q
  BY DEF q
<1>4. (q + 1) * PageSize = q * PageSize + PageSize /\ q * PageSize \in Nat
  BY <1>1, <1>2
<1>5. n * PageSize >= q * PageSize
  BY <1>1, <1>2, <1>3
<1>6. Len(list) <= n * PageSize
  BY <1>1, <1>2, <1>4, <1>5
<1> QED  BY <1>6, BeforeNext

LEMMA ToSetOfConcat ==
  ASSUME NEW a \in Seq(Users), NEW b \in Seq(Users)
  PROVE  ToSet(a) \subseteq ToSet(a \o b) /\ ToSet(b) \subseteq ToSet(a \o b)
<1>1. ASSUME NEW i \in DOMAIN a PROVE a[i] \in ToSet(a \o b)
  <2>1. i \in DOMAIN (a \o b) /\ (a \o b)[i] = a[i]
    OBVIOUS
  <2> QED  BY <2>1 DEF ToSet
<1>2. ASSUME NEW i \in DOMAIN b PROVE b[i] \in ToSet(a \o b)
  <2>1. Len(a) + i \in DOMAIN (a \o b) /\ (a \o b)[Len(a) + i] = b[i]
    OBVIOUS
  <2> QED  BY <2>1 DEF ToSet
<1> QED  BY <1>1, <1>2 DEF ToSet

LEMMA AheadPasses ==
  ASSUME NEW list \in Seq(Users), NEW n \in Nat \ {0}, NEW u, Ahead(list, n, u)
  PROVE  u \in ToSet(Page(list, n)) \/ Ahead(list, n + 1, u)
<1>1. PICK i \in 1..Len(list) : i > Before(n) /\ list[i] = u
  BY DEF Ahead
<1>2. CASE i <= Before(n) + PageSize
  BY <1>1, <1>2, PageRows
<1>3. CASE i > Before(n) + PageSize
  BY <1>1, <1>3, BeforeNext DEF Ahead
<1> QED  BY <1>2, <1>3, BeforeNext, ClientAssumption

LEMMA AheadEnds ==
  ASSUME NEW list \in Seq(Users), NEW n \in Nat \ {0}, NEW u,
         Len(list) <= Before(n) + PageSize
  PROVE  ~Ahead(list, n + 1, u)
  BY BeforeNext, ClientAssumption DEF Ahead

(* A new entry moves the others towards the end of the list.               *)
LEMMA AheadShifts ==
  ASSUME NEW list \in Seq(Users), NEW n \in Nat \ {0}, NEW u, NEW v \in Users,
         Ahead(list, n, u)
  PROVE  Ahead(<<v>> \o list, n, u)
<1>1. PICK i \in 1..Len(list) : i > Before(n) /\ list[i] = u
  BY DEF Ahead
<1>2. i + 1 \in 1..Len(<<v>> \o list) /\ (<<v>> \o list)[i + 1] = u
  BY <1>1
<1> QED  BY <1>1, <1>2, BeforeNext DEF Ahead

LEMMA AheadAtFirst ==
  ASSUME NEW list \in Seq(Users), NEW u \in ToSet(list) PROVE Ahead(list, 1, u)
<1>1. PICK i \in DOMAIN list : list[i] = u
  BY DEF ToSet
<1>2. Before(1) = 0
  BY ClientAssumption DEF Before
<1> QED  BY <1>1, <1>2 DEF Ahead

LEMMA ListOfUsers == SetToSeq(Users) \in Seq(Users)
<1>1. /\ Cardinality(Users) \in Nat
      /\ ExistsBijection(1..Cardinality(Users), Users)
  BY ClientAssumption, FS_CardinalityType
<1>2. \E f \in [1..Cardinality(Users) -> Users] : IsInjective(f)
  BY <1>1 DEF ExistsBijection, Bijection, Injection
<1>3. SetToSeq(Users) \in [1..Cardinality(Users) -> Users]
  BY <1>2 DEF SetToSeq
<1> QED  BY <1>1, <1>3

-----------------------------------------------------------------------------
(* A reader that no removal disturbed has what is behind it, and what it   *)
(* still looks for is ahead of it.  k and h are its locals and history.    *)
ReadsAll(k, h, list) ==
  /\ k.page <= MaxPages
  /\ k.op \in {"ban_list", "room_role"}
  /\ k.op = "ban_list" =>
       /\ Len(k.got) <= Before(k.page)
       /\ h.unlisted = FALSE =>
            \A u \in h.list : u \in ToSet(k.got) \/ Ahead(list, k.page, u)
  /\ k.op = "room_role" =>
       (h.unlisted = FALSE /\ Me \in h.list => Ahead(list, k.page, Me))

ReadInv(p, k, h, list) ==
  /\ p = "idle" => k.page = 1 /\ k.got = <<>> /\ h.unlisted = FALSE
  /\ p = "page" => ReadsAll(k, h, list)
  /\ p = "ok" /\ k.op = "ban_list" /\ h.cut = FALSE /\ h.unlisted = FALSE
       => h.list \subseteq ToSet(k.got)
  /\ p = "viewer" /\ h.unlisted = FALSE => Me \notin h.list

PagedInv ==
  PagedType /\ \A c \in Calls : ReadInv(pc[c], call[c], was[c], listed)

IInv == (kind = "signed" /\ SignedInv) \/ (kind = "paged" /\ PagedInv)

-----------------------------------------------------------------------------
LEMMA InitIInv == Init => IInv
<1> SUFFICES ASSUME Init PROVE SignedInv /\ PagedInv
  BY DEF Init, IInv
<1>1. PagedInv
  <2>1. listed \in Seq(Users)
    <3>1. CASE listed = <<>>
      BY <3>1
    <3>2. CASE listed = SetToSeq(Users)
      BY <3>2, ListOfUsers
    <3> QED  BY <3>1, <3>2 DEF Init
  <2>2. call \in [Calls -> PagedLocals] /\ pc \in [Calls -> {"idle", "page"} \cup Ended]
    BY DEF Init, PagedLocals, NoKeys
  <2>3. was \in [Calls -> Histories]
    BY Zenon DEF Init, Histories
  <2>4. \A c \in Calls : was[c].unlisted = FALSE
    BY Zenon DEF Init
  <2>5. \A c \in Calls : pc[c] = "idle" /\ call[c].page = 1 /\ call[c].got = <<>>
    BY DEF Init
  <2> QED  BY <2>1, <2>2, <2>3, <2>4, <2>5 DEF PagedInv, PagedType, ReadInv
<1>2. clock \in Nat /\ clock >= Interval /\ keys \in Nat /\ rotation \in Nat
  BY ClientAssumption DEF Init, NoKeys
<1>3. /\ pc \in [Calls -> {"idle", "ok", "error"} \cup Signing]
      /\ call \in [Calls -> SignedLocals]
  BY DEF Init, NoKeys, SignedLocals
<1>4. was \in [Calls -> Histories]
  BY Zenon DEF Init, Histories
<1>5. \A c \in Calls : call[c].attempt = 1
  BY DEF Init
<1> QED  BY <1>1, <1>2, <1>3, <1>4, <1>5 DEF SignedInv, SignedType, RetryInv

(* A step of one reader, from what it makes of its locals and its history. *)
LEMMA ReaderKeeps ==
  ASSUME PagedInv, NEW c \in Calls,
         NEW p \in {"idle", "page"} \cup Ended, NEW k \in PagedLocals, NEW h \in Histories,
         pc' = [pc EXCEPT ![c] = p], call' = [call EXCEPT ![c] = k],
         was' = [was EXCEPT ![c] = h], listed' = listed,
         ReadInv(p, k, h, listed)
  PROVE  PagedInv'
<1>1. PagedType'
  BY DEF PagedInv, PagedType
<1>2. pc'[c] = p /\ call'[c] = k /\ was'[c] = h
  BY DEF PagedInv, PagedType
<1>3. \A d \in Calls \ {c} : pc'[d] = pc[d] /\ call'[d] = call[d] /\ was'[d] = was[d]
  BY DEF PagedInv, PagedType
<1> QED  BY <1>1, <1>2, <1>3 DEF PagedInv

LEMMA CutNoted ==
  ASSUME NEW h \in Histories, NEW x \in BOOLEAN
  PROVE  /\ [h EXCEPT !.cut = x] \in Histories
         /\ [h EXCEPT !.cut = x].cut = x
         /\ [h EXCEPT !.cut = x].list = h.list
         /\ [h EXCEPT !.cut = x].unlisted = h.unlisted
BY Zenon DEF Histories

LEMMA ListNoted ==
  ASSUME NEW h \in Histories, NEW S \in SUBSET Users
  PROVE  /\ [h EXCEPT !.list = S] \in Histories
         /\ [h EXCEPT !.list = S].list = S
         /\ [h EXCEPT !.list = S].unlisted = h.unlisted
BY Zenon DEF Histories

LEMMA RemovalNoted ==
  ASSUME NEW h \in Histories
  PROVE  /\ [h EXCEPT !.unlisted = TRUE] \in Histories
         /\ [h EXCEPT !.unlisted = TRUE].unlisted = TRUE
BY Zenon DEF Histories

LEMMA ReaderTypes ==
  ASSUME PagedInv, NEW c \in Calls
  PROVE  /\ listed \in Seq(Users)
         /\ call[c] \in PagedLocals
         /\ was[c] \in Histories
         /\ ReadInv(pc[c], call[c], was[c], listed)
BY DEF PagedInv, PagedType

(* A call begins at the first page with everybody ahead of it.             *)
LEMMA CallBegins ==
  ASSUME PagedInv, NEW c \in Calls, BanListCalled(c) \/ RoleCalled(c)
  PROVE  PagedInv'
<1> DEFINE h == [was[c] EXCEPT !.list = ToSet(listed)]
<1>0. ToSet(listed) \in SUBSET Users
  BY ReaderTypes DEF ToSet
<1>1. h \in Histories /\ h.list = ToSet(listed) /\ h.unlisted = was[c].unlisted
  BY <1>0, ReaderTypes, ListNoted, Zenon
<1>2. was' = [was EXCEPT ![c] = h] /\ listed' = listed /\ pc[c] = "idle"
  BY DEF BanListCalled, RoleCalled, remote
<1> HIDE DEF h
<1>3. call[c].page = 1 /\ call[c].got = <<>> /\ h.unlisted = FALSE
  BY <1>1, <1>2, ReaderTypes DEF ReadInv
<1>4. \A u \in h.list : Ahead(listed, 1, u)
  BY <1>1, ReaderTypes, AheadAtFirst
<1>5. Before(1) = 0 /\ 1 <= MaxPages
  BY ClientAssumption DEF Before
<1>6. ASSUME NEW op \in {"ban_list", "room_role"},
             NEW p \in {"page", "anchor", "unknown"},
             call' = [call EXCEPT ![c] = [call[c] EXCEPT !.op = op]],
             pc' = [pc EXCEPT ![c] = p]
      PROVE  PagedInv'
  <2> DEFINE k == [call[c] EXCEPT !.op = op]
  <2>1. k \in PagedLocals /\ k.op = op /\ k.page = 1 /\ k.got = <<>>
    BY <1>3, ReaderTypes DEF PagedLocals
  <2>2. call' = [call EXCEPT ![c] = k] /\ p \in {"idle", "page"} \cup Ended
    BY <1>6 DEF Ended
  <2> HIDE DEF k
  <2>3. ReadInv(p, k, h, listed)
    BY <1>3, <1>4, <1>5, <2>1 DEF ReadInv, ReadsAll
  <2> QED  BY <1>1, <1>2, <1>6, <2>1, <2>2, <2>3, ReaderKeeps
<1>7. CASE BanListCalled(c)
  BY <1>6, <1>7 DEF BanListCalled, Goes
<1>8. CASE RoleCalled(c)
  BY <1>6, <1>8 DEF RoleCalled
<1> QED  BY <1>7, <1>8

(* A reader that ends without a verdict, or whose reading was cut short.   *)
LEMMA ReaderGivesUp ==
  ASSUME PagedInv, NEW c \in Calls,
         BanListCut(c) \/ BanListFails(c) \/ AdminListFails(c)
  PROVE  PagedInv'
<1> DEFINE h == [was[c] EXCEPT !.cut = TRUE]
<1>1. h \in Histories /\ h.cut = TRUE
  BY ReaderTypes, CutNoted, Zenon
<1> HIDE DEF h
<1>2. /\ call' = [call EXCEPT ![c] = call[c]] /\ listed' = listed
      /\ call[c] \in PagedLocals /\ was[c] \in Histories
  BY ReaderTypes DEF PagedInv, PagedType, BanListCut, BanListFails, AdminListFails, remote
<1>3. CASE BanListCut(c)
  <2>1. pc' = [pc EXCEPT ![c] = "ok"] /\ was' = [was EXCEPT ![c] = h] /\ "ok" \in Ended
    BY <1>3 DEF BanListCut, Goes, h, Ended
  <2>2. ReadInv("ok", call[c], h, listed)
    BY <1>1 DEF ReadInv
  <2> QED  BY <1>1, <1>2, <2>1, <2>2, ReaderKeeps
<1>4. CASE BanListFails(c) \/ AdminListFails(c)
  <2>1. PICK p \in {"error", "unknown"} :
          pc' = [pc EXCEPT ![c] = p] /\ was' = [was EXCEPT ![c] = was[c]]
    BY <1>4 DEF BanListFails, AdminListFails, Goes, PagedInv, PagedType
  <2>2. ReadInv(p, call[c], was[c], listed) /\ p \in Ended
    BY DEF ReadInv, Ended
  <2> QED  BY <1>2, <2>1, <2>2, ReaderKeeps
<1> QED  BY <1>3, <1>4

(* A page of the ban list: what it held is collected, what it did not hold *)
(* is still ahead, and on the last page nothing is.                        *)
LEMMA BanListPageKeeps ==
  ASSUME PagedInv, NEW c \in Calls, BanListPage(c) PROVE PagedInv'
<1> DEFINE rows == Page(listed, call[c].page)
           n == call[c].page
           got == call[c].got \o rows
<1>1. /\ listed \in Seq(Users) /\ call[c] \in PagedLocals /\ was[c] \in Histories
      /\ n \in Nat \ {0} /\ call[c].got \in Seq(Users) /\ MaxPages \in Nat \ {0}
      /\ PageSize \in Nat \ {0}
  BY ReaderTypes, ClientAssumption DEF PagedLocals
<1>2. ReadsAll(call[c], was[c], listed) /\ call[c].op = "ban_list" /\ listed' = listed
  BY ReaderTypes DEF BanListPage, ReadInv, remote
<1>3. /\ rows \in Seq(Users) /\ Len(rows) <= PageSize
      /\ rows = <<>> => Len(listed) <= Before(n)
  BY <1>1, PageRows
<1>4. Before(n) \in Nat /\ Before(n + 1) = Before(n) + PageSize /\ n + 1 \in Nat \ {0}
  <2> HIDE DEF n
  <2>1. n \in Nat \ {0}
    BY <1>1 DEF n
  <2> QED  BY <2>1, BeforeNext
<1>5. Len(listed) \in Nat /\ Len(call[c].got) \in Nat /\ Len(rows) \in Nat
  BY <1>1, <1>3
<1>6. CASE rows = <<>>
  <2>1. pc' = [pc EXCEPT ![c] = "ok"] /\ call' = [call EXCEPT ![c] = call[c]]
        /\ was' = [was EXCEPT ![c] = was[c]] /\ "ok" \in Ended
    BY <1>6 DEF BanListPage, Goes, PagedInv, PagedType, Ended
  <2>2. \A u : ~Ahead(listed, n, u)
    <3>1. Len(listed) <= Before(n)
      BY <1>3, <1>6
    <3> QED  BY <1>4, <1>5, <3>1 DEF Ahead
  <2>3. ReadInv("ok", call[c], was[c], listed)
    BY <1>2, <2>2 DEF ReadInv, ReadsAll
  <2> QED  BY <1>1, <1>2, <2>1, <2>3, ReaderKeeps
<1>7. CASE rows # <<>>
  <2> DEFINE x == was[c].cut \/ (n = MaxPages /\ TotalPage(listed) > MaxPages)
             h == [was[c] EXCEPT !.cut = x]
  <2>1. h \in Histories /\ h.cut = x /\ h.list = was[c].list
        /\ h.unlisted = was[c].unlisted
    <3>1. x \in BOOLEAN
      BY <1>1, Zenon DEF Histories
    <3> HIDE DEF x
    <3> QED  BY <1>1, <3>1, CutNoted, Zenon
  <2>2. h.cut = FALSE => ~(n = MaxPages /\ TotalPage(listed) > MaxPages)
    BY <2>1, Zenon
  <2>3. was' = [was EXCEPT ![c] = h]
    BY <1>7 DEF BanListPage
  <2> HIDE DEF x, h
  <2>4. got \in Seq(Users) /\ Len(got) = Len(call[c].got) + Len(rows)
        /\ Len(got) <= Before(n) + PageSize
    <3>1. Len(call[c].got) <= Before(n)
      BY <1>2 DEF ReadsAll
    <3> HIDE DEF rows
    <3>2. got \in Seq(Users) /\ Len(got) = Len(call[c].got) + Len(rows)
      BY <1>1, <1>3
    <3> QED  BY <1>1, <1>3, <1>4, <1>5, <3>1, <3>2
  <2>5. h.unlisted = FALSE =>
          \A u \in h.list : u \in ToSet(got) \/ Ahead(listed, n + 1, u)
    <3> SUFFICES ASSUME h.unlisted = FALSE, NEW u \in h.list
                 PROVE  u \in ToSet(got) \/ Ahead(listed, n + 1, u)
      OBVIOUS
    <3>1. u \in ToSet(call[c].got) \/ Ahead(listed, n, u)
      BY <1>2, <2>1 DEF ReadsAll
    <3>2. ToSet(call[c].got) \subseteq ToSet(got) /\ ToSet(rows) \subseteq ToSet(got)
      BY <1>1, <1>3, ToSetOfConcat
    <3>3. Ahead(listed, n, u) => u \in ToSet(rows) \/ Ahead(listed, n + 1, u)
      BY <1>1, AheadPasses
    <3> QED  BY <3>1, <3>2, <3>3
  <2> HIDE DEF rows, got
  <2>6. CASE BanListOver(c, rows)
    <3> DEFINE k == [call[c] EXCEPT !.got = got]
    <3>1. k \in PagedLocals /\ k.op = "ban_list" /\ k.got = got
      BY <1>1, <1>2, <2>4 DEF PagedLocals
    <3>2. call' = [call EXCEPT ![c] = k] /\ pc' = [pc EXCEPT ![c] = "ok"] /\ "ok" \in Ended
      BY <1>7, <2>6 DEF BanListPage, Goes, rows, got, Ended
    <3>3. h.cut = FALSE => Len(listed) <= Before(n) + PageSize
      <4> SUFFICES ASSUME h.cut = FALSE PROVE Len(listed) <= Before(n) + PageSize
        OBVIOUS
      <4>0. TotalPage(listed) \in Nat /\ Len(listed) \in Nat /\ Before(n) \in Nat
        BY <1>1, <1>4, <1>5 DEF TotalPage
      <4>1. CASE n >= TotalPage(listed)
        BY <1>1, <4>1, LastPage
      <4>2. CASE Len(call[c].got) + Len(rows) >= Len(listed)
        <5>1. Len(call[c].got) + Len(rows) = Len(got)
          BY <2>4
        <5>2. Len(got) \in Nat /\ Len(got) >= Len(listed)
          BY <2>4, <4>2, <5>1
        <5> QED  BY <1>1, <2>4, <4>0, <5>2
      <4>3. CASE n >= MaxPages
        <5>1. n = MaxPages
          BY <1>1, <1>2, <4>3 DEF ReadsAll
        <5>2. n >= TotalPage(listed)
          BY <1>1, <2>2, <4>0, <5>1
        <5> QED  BY <1>1, <5>2, LastPage
      <4> QED  BY <2>6, <4>1, <4>2, <4>3 DEF BanListOver
    <3>4. h.cut = FALSE => \A u : ~Ahead(listed, n + 1, u)
      BY <1>1, <3>3, AheadEnds
    <3> HIDE DEF k
    <3>5. ReadInv("ok", k, h, listed)
      BY <2>5, <3>1, <3>4 DEF ReadInv
    <3> QED  BY <1>2, <2>1, <2>3, <3>1, <3>2, <3>5, ReaderKeeps
  <2>7. CASE ~BanListOver(c, rows)
    <3> DEFINE k == [call[c] EXCEPT !.got = got, !.page = n + 1]
    <3>1. k \in PagedLocals /\ k.op = "ban_list" /\ k.got = got /\ k.page = n + 1
      <4> HIDE DEF n
      <4> QED  BY <1>1, <1>2, <1>4, <2>4 DEF PagedLocals
    <3>2. call' = [call EXCEPT ![c] = k] /\ pc' = [pc EXCEPT ![c] = "page"]
      BY <1>7, <2>7 DEF BanListPage, Goes, rows, got, PagedInv, PagedType
    <3>3. n + 1 <= MaxPages
      BY <1>1, <2>7 DEF BanListOver
    <3> HIDE DEF k
    <3>5. ReadInv("page", k, h, listed)
      BY <2>4, <2>5, <1>4, <3>1, <3>3 DEF ReadInv, ReadsAll
    <3> QED  BY <1>2, <2>1, <2>3, <3>1, <3>2, <3>5, ReaderKeeps
  <2> QED  BY <2>6, <2>7
<1> QED  BY <1>6, <1>7

(* A page of the administrators: without the user it is passed, and only   *)
(* a page nobody can be behind makes a viewer.                             *)
LEMMA AdminPageKeeps ==
  ASSUME PagedInv, NEW c \in Calls, AdminPage(c) PROVE PagedInv'
<1> DEFINE rows == Page(listed, call[c].page)
           n == call[c].page
           k == [call[c] EXCEPT !.page = n + 1]
<1>1. /\ listed \in Seq(Users) /\ call[c] \in PagedLocals /\ was[c] \in Histories
      /\ n \in Nat \ {0} /\ MaxPages \in Nat \ {0} /\ PageSize \in Nat \ {0}
  BY ReaderTypes, ClientAssumption DEF PagedLocals
<1>2. ReadsAll(call[c], was[c], listed) /\ call[c].op = "room_role" /\ listed' = listed
  BY ReaderTypes DEF AdminPage, ReadInv, remote
<1>3. PICK counted \in BOOLEAN :
        pc' = [pc EXCEPT ![c] = AdminVerdict(c, rows, counted)]
  BY DEF AdminPage, Goes
<1> DEFINE p == AdminVerdict(c, rows, counted)
<1>4. p \in {"page"} \cup Ended /\ (p \in {"page", "viewer"} => Me \notin ToSet(rows))
      /\ (p = "viewer" => n >= TotalPage(listed) \/ rows = <<>>)
      /\ (p = "page" => n # MaxPages) /\ p \notin {"idle", "ok"}
  BY DEF AdminVerdict, Ended
<1>5. call' = [call EXCEPT ![c] = k] /\ was' = [was EXCEPT ![c] = was[c]]
  BY DEF AdminPage, PagedInv, PagedType
<1> HIDE DEF p
<1>6. k \in PagedLocals /\ k.op = "room_role" /\ k.page = n + 1
  <2> HIDE DEF n
  <2>1. n + 1 \in Nat \ {0}
    BY <1>1
  <2> QED  BY <1>1, <1>2, <2>1 DEF PagedLocals
<1>7. was[c].unlisted = FALSE /\ Me \in was[c].list => Ahead(listed, n, Me)
  BY <1>2 DEF ReadsAll
<1>8. Ahead(listed, n, Me) => Me \in ToSet(rows) \/ Ahead(listed, n + 1, Me)
  BY <1>1, AheadPasses
<1>9. p = "viewer" => ~Ahead(listed, n, Me)
  <2>1. CASE rows = <<>>
    <3>1. Len(listed) <= Before(n) /\ Before(n) \in Nat
      <4> HIDE DEF n
      <4> QED  BY <1>1, <2>1, PageRows, BeforeNext DEF n
    <3> QED  BY <1>1, <3>1 DEF Ahead
  <2>2. CASE n >= TotalPage(listed)
    <3>1. Len(listed) <= Before(n) + PageSize
      BY <1>1, <2>2, LastPage
    <3>2. ~Ahead(listed, n + 1, Me)
      BY <1>1, <3>1, AheadEnds
    <3> QED  BY <1>4, <1>8, <3>2
  <2> QED  BY <1>4, <2>1, <2>2
<1>10. p = "page" => n + 1 <= MaxPages
  BY <1>1, <1>2, <1>4 DEF ReadsAll
<1> HIDE DEF k, n, rows
<1>11. ReadInv(p, k, was[c], listed)
  BY <1>4, <1>6, <1>7, <1>8, <1>9, <1>10 DEF ReadInv, ReadsAll
<1>12. pc' = [pc EXCEPT ![c] = p]
  BY <1>3 DEF p
<1>13. p \in {"idle", "page"} \cup Ended
  BY <1>4
<1> QED  BY <1>1, <1>2, <1>5, <1>6, <1>11, <1>12, <1>13, ReaderKeeps

(* A new entry only moves rows towards the end, where readers still come;  *)
(* a removal is noted by everyone who reads.                               *)
LEMMA ListKeeps ==
  ASSUME PagedInv, NEW v \in Users, List(v) PROVE PagedInv'
<1>1. listed' = <<v>> \o listed /\ pc' = pc /\ call' = call /\ was' = was
      /\ listed \in Seq(Users)
  BY DEF List, PagedInv, PagedType
<1>2. PagedType'
  BY <1>1 DEF PagedInv, PagedType
<1>3. ASSUME NEW c \in Calls PROVE ReadInv(pc[c], call[c], was[c], listed')
  <2>1. call[c].page \in Nat \ {0}
    BY ReaderTypes DEF PagedLocals
  <2>2. \A u : Ahead(listed, call[c].page, u) => Ahead(listed', call[c].page, u)
    BY <1>1, <2>1, AheadShifts
  <2>3. ReadInv(pc[c], call[c], was[c], listed)
    BY ReaderTypes
  <2> QED  BY <2>2, <2>3 DEF ReadInv, ReadsAll
<1> QED  BY <1>1, <1>2, <1>3 DEF PagedInv

LEMMA UnlistKeeps ==
  ASSUME PagedInv, NEW v \in Users, Unlist(v) PROVE PagedInv'
<1>1. pc' = pc /\ call' = call
  BY DEF Unlist
<1>2. listed' \in Seq(Users)
  <2>1. PICK i \in 1..Len(listed) : listed' = RemoveAt(listed, i)
    BY DEF Unlist
  <2>2. listed \in Seq(Users)
    BY DEF PagedInv, PagedType
  <2>3. SubSeq(listed, 1, i - 1) \in Seq(Users) /\ SubSeq(listed, i + 1, Len(listed)) \in Seq(Users)
    BY <2>2
  <2> QED  BY <2>1, <2>3 DEF RemoveAt
<1>3. ASSUME NEW c \in Calls
      PROVE  /\ was'[c] \in Histories
             /\ pc[c] = "page" => was'[c].unlisted = TRUE
             /\ pc[c] # "page" => was'[c] = was[c]
  <2>1. was'[c] = IF pc[c] = "page" THEN [was[c] EXCEPT !.unlisted = TRUE] ELSE was[c]
    BY DEF Unlist, Reading
  <2> DEFINE h == [was[c] EXCEPT !.unlisted = TRUE]
  <2>2. h \in Histories /\ h.unlisted = TRUE
    BY ReaderTypes, RemovalNoted, Zenon
  <2>3. was[c] \in Histories
    BY ReaderTypes
  <2> HIDE DEF h
  <2>4. was'[c] = IF pc[c] = "page" THEN h ELSE was[c]
    BY <2>1 DEF h
  <2> QED  BY <2>2, <2>3, <2>4
<1>4. PagedType'
  <2>1. was' = [c \in Calls |-> was'[c]]
    BY DEF Unlist
  <2> QED  BY <1>1, <1>2, <1>3, <2>1 DEF PagedInv, PagedType
<1>5. ASSUME NEW c \in Calls PROVE ReadInv(pc[c], call[c], was'[c], listed')
  <2>1. ReadInv(pc[c], call[c], was[c], listed)
    BY ReaderTypes
  <2>2. CASE pc[c] = "page"
    BY <1>3, <2>1, <2>2 DEF ReadInv, ReadsAll
  <2>3. CASE pc[c] # "page"
    BY <1>3, <2>1, <2>3 DEF ReadInv
  <2> QED  BY <2>2, <2>3
<1> QED  BY <1>1, <1>4, <1>5 DEF PagedInv

LEMMA PagedKeeps ==
  ASSUME kind = "paged", PagedInv, [Next]_vars PROVE kind' = "paged" /\ PagedInv'
<1>0. kind' = kind
  BY DEF Next, vars, SignedStep, SignedCall, NavAnswers, StoreKeys, _fallback_to_cached,
     NavWithoutKeys, RequestAccepted, RequestFails, RequestRetried, RequestStaleAgain,
     PagedStep, BanListCalled, BanListPage, BanListCut, BanListFails, RoleCalled,
     AdminPage, AdminListFails, Rotate, Tick, List, Unlist
<1>1. ASSUME NEW c \in Calls, SignedStep(c) PROVE FALSE
  BY <1>1 DEF SignedStep, SignedCall, NavAnswers, StoreKeys, _fallback_to_cached,
     NavWithoutKeys, RequestAccepted, RequestFails, RequestRetried,
     RequestStaleAgain, PagedInv, PagedType, Ended
<1>2. ASSUME NEW c \in Calls, PagedStep(c) PROVE PagedInv'
  BY <1>2, CallBegins, ReaderGivesUp, BanListPageKeeps, AdminPageKeeps DEF PagedStep
<1>3. ASSUME NEW u \in Users, List(u) \/ Unlist(u) PROVE PagedInv'
  BY <1>3, ListKeeps, UnlistKeeps
<1>4. CASE Rotate \/ Tick
  BY <1>4 DEF Rotate, Tick
<1>5. CASE UNCHANGED vars
  BY <1>5 DEF vars, remote, PagedInv, PagedType
<1> QED  BY <1>0, <1>1, <1>2, <1>3, <1>4, <1>5 DEF Next

(* A call's own step, given what it writes to its locals: the retry        *)
(* invariant of the others is untouched, its own is the hypothesis.        *)
LEMMA StepKeeps ==
  ASSUME SignedInv, NEW c \in Calls,
         SignedType', rotation' = rotation,
         \A d \in Calls \ {c} :
           call'[d] = call[d] /\ pc'[d] = pc[d] /\ was'[d] = was[d],
         RetryInv(c)'
  PROVE  SignedInv'
BY DEF SignedInv, RetryInv

LEMMA NoFetchNoted ==
  ASSUME NEW h \in Histories
  PROVE  /\ [h EXCEPT !.nofetch = TRUE] \in Histories
         /\ [h EXCEPT !.nofetch = TRUE].nofetch = TRUE
         /\ [h EXCEPT !.nofetch = TRUE].rotation = h.rotation
BY Zenon DEF Histories

(* What the steps of a signed call write to its locals.                    *)
LEMMA LocalsWritten ==
  ASSUME NEW k \in SignedLocals, NEW n \in Nat
  PROVE  /\ [k EXCEPT !.op = "signed", !.signed = n] \in SignedLocals
         /\ [k EXCEPT !.op = "signed", !.asked = n] \in SignedLocals
         /\ [k EXCEPT !.attempt = 2, !.asked = n] \in SignedLocals
         /\ [k EXCEPT !.answer = n] \in SignedLocals
         /\ [k EXCEPT !.signed = n] \in SignedLocals
<1>1. [k EXCEPT !.op = "signed", !.signed = n] \in SignedLocals
  BY Zenon DEF SignedLocals
<1>2. [k EXCEPT !.op = "signed", !.asked = n] \in SignedLocals
  BY Zenon DEF SignedLocals
<1>3. [k EXCEPT !.attempt = 2, !.asked = n] \in SignedLocals
  BY Zenon DEF SignedLocals
<1>4. [k EXCEPT !.answer = n] \in SignedLocals
  BY Zenon DEF SignedLocals
<1>5. [k EXCEPT !.signed = n] \in SignedLocals
  BY Zenon DEF SignedLocals
<1> QED  BY <1>1, <1>2, <1>3, <1>4, <1>5

LEMMA SignedKeeps ==
  ASSUME kind = "signed", SignedInv, [Next]_vars PROVE kind' = "signed" /\ SignedInv'
<1> USE DEF Goes, Signing, Ended
<1>1. ASSUME NEW c \in Calls, PagedStep(c) PROVE FALSE
  BY <1>1 DEF PagedStep, BanListCalled, BanListPage, BanListCut, BanListFails,
     RoleCalled, AdminPage, AdminListFails, SignedInv, SignedType
<1>2. ASSUME NEW c \in Calls, SignedStep(c) PROVE kind' = "signed" /\ SignedInv'
  <2>1. SignedType /\ RetryInv(c)
    BY DEF SignedInv
  <2>2. CASE SignedCall(c)
    <3>1. CASE /\ pc' = [pc EXCEPT ![c] = "request"]
               /\ call' = [call EXCEPT ![c] =
                             [call[c] EXCEPT !.op = "signed", !.signed = keys]]
      <4>1. SignedType'
        <5>1. [call[c] EXCEPT !.op = "signed", !.signed = keys] \in SignedLocals
          BY <2>1, LocalsWritten DEF SignedType
        <5> QED  BY <2>1, <2>2, <3>1, <5>1 DEF SignedType, SignedCall, signer, remote
      <4>2. RetryInv(c)'
        BY <2>1, <2>2, <3>1, <4>1
        DEF SignedType, SignedCall, SignedLocals, signer, remote, RetryInv
      <4> QED
        BY <2>2, <3>1, <4>1, <4>2, StepKeeps
        DEF SignedType, SignedCall, signer, remote
    <3>2. CASE /\ pc' = [pc EXCEPT ![c] = "nav"]
               /\ call' = [call EXCEPT ![c] =
                             [call[c] EXCEPT !.op = "signed", !.asked = clock]]
      <4>1. SignedType'
        <5>1. [call[c] EXCEPT !.op = "signed", !.asked = clock] \in SignedLocals
          BY <2>1, LocalsWritten DEF SignedType
        <5> QED  BY <2>1, <2>2, <3>2, <5>1 DEF SignedType, SignedCall, signer, remote
      <4>2. RetryInv(c)'
        BY <2>1, <2>2, <3>2, <4>1
        DEF SignedType, SignedCall, SignedLocals, signer, remote, RetryInv
      <4> QED
        BY <2>2, <3>2, <4>1, <4>2, StepKeeps
        DEF SignedType, SignedCall, signer, remote
    <3> QED  BY <2>1, <2>2, <3>1, <3>2 DEF SignedType, SignedCall, sign
  <2>3. CASE NavAnswers(c)
    <3>1. SignedType'
      <4>1. [call[c] EXCEPT !.answer = rotation] \in SignedLocals
        BY <2>1, LocalsWritten DEF SignedType
      <4>2. call' = [call EXCEPT ![c] = [call[c] EXCEPT !.answer = rotation]]
        BY <2>3 DEF NavAnswers
      <4>3. call' \in [Calls -> SignedLocals]
        BY <2>1, <4>1, <4>2 DEF SignedType
      <4>4. pc' \in [Calls -> {"idle", "ok", "error"} \cup Signing]
        BY <2>1, <2>3 DEF SignedType, NavAnswers
      <4>5. UNCHANGED <<clock, keys, rotation, was>>
        BY <2>3 DEF NavAnswers, signer, remote
      <4> QED  BY <2>1, <4>3, <4>4, <4>5 DEF SignedType
    <3>2. RetryInv(c)'
      BY <2>1, <2>3 DEF SignedType, NavAnswers, SignedLocals, signer, remote, RetryInv
    <3> QED  BY <2>3, <3>1, <3>2, StepKeeps DEF SignedType, NavAnswers, signer, remote
  <2>4. CASE StoreKeys(c)
    <3>1. SignedType'
      <4>0. call[c].answer \in Nat
        BY <2>1 DEF SignedType, SignedLocals
      <4>1. [call[c] EXCEPT !.signed = call[c].answer] \in SignedLocals
        BY <2>1, <4>0, LocalsWritten DEF SignedType
      <4>2. call' = [call EXCEPT ![c] = [call[c] EXCEPT !.signed = call[c].answer]]
        BY <2>4 DEF StoreKeys
      <4>3. call' \in [Calls -> SignedLocals]
        BY <2>1, <4>1, <4>2 DEF SignedType
      <4>4. pc' \in [Calls -> {"idle", "ok", "error"} \cup Signing]
        BY <2>1, <2>4 DEF SignedType, StoreKeys
      <4>5. UNCHANGED <<clock, rotation, was>> /\ keys' \in Nat
        BY <2>4, <4>0 DEF StoreKeys, remote
      <4> QED  BY <2>1, <4>3, <4>4, <4>5 DEF SignedType
    <3>2. RetryInv(c)'
      BY <2>1, <2>4 DEF SignedType, StoreKeys, SignedLocals, remote, RetryInv
    <3> QED  BY <2>4, <3>1, <3>2, StepKeeps DEF SignedType, StoreKeys, remote
  <2>5. CASE _fallback_to_cached(c)
    <3> DEFINE h == [was[c] EXCEPT !.nofetch = TRUE]
    <3>1. was' = [was EXCEPT ![c] = h]
      BY <2>5 DEF _fallback_to_cached
    <3>2. h \in Histories /\ h.nofetch = TRUE /\ h.rotation = was[c].rotation
      BY <2>1, NoFetchNoted, Zenon DEF SignedType
    <3> HIDE DEF h
    <3>3. was' \in [Calls -> Histories] /\ was'[c] = h
      BY <2>1, <3>1, <3>2 DEF SignedType
    <3>4. call' \in [Calls -> SignedLocals]
      <4>1. CASE call' = call
        BY <2>1, <4>1 DEF SignedType
      <4>2. CASE call' = [call EXCEPT ![c].signed = keys]
        <5>1. [call[c] EXCEPT !.signed = keys] \in SignedLocals
          BY <2>1, LocalsWritten DEF SignedType
        <5>2. call' = [call EXCEPT ![c] = [call[c] EXCEPT !.signed = keys]]
          BY <4>2
        <5> QED  BY <2>1, <5>1, <5>2 DEF SignedType
      <4> QED  BY <2>5, <4>1, <4>2 DEF _fallback_to_cached
    <3>5. pc' \in [Calls -> {"idle", "ok", "error"} \cup Signing]
      BY <2>1, <2>5 DEF SignedType, _fallback_to_cached
    <3>6. SignedType'
      BY <2>1, <2>5, <3>3, <3>4, <3>5 DEF SignedType, _fallback_to_cached, signer, remote
    <3>7. RetryInv(c)'
      BY <2>1, <2>5, <3>2, <3>3
      DEF SignedType, _fallback_to_cached, SignedLocals, signer, remote, RetryInv
    <3> QED
      BY <2>5, <3>1, <3>6, <3>7, StepKeeps
      DEF SignedType, _fallback_to_cached, signer, remote
  <2>6. CASE RequestRetried(c)
    <3>1. was' \in [Calls -> Histories] /\ was'[c].rotation = rotation
      <4> DEFINE h == [was[c] EXCEPT !.rotation = rotation, !.nofetch = FALSE]
      <4>1. was' = [was EXCEPT ![c] = h]
        BY <2>6 DEF RequestRetried
      <4>2. was[c] \in Histories /\ rotation \in Nat
        BY <2>1 DEF SignedType
      <4>3. h \in Histories /\ h.rotation = rotation
        BY <4>2, Zenon DEF Histories
      <4> HIDE DEF h
      <4> QED  BY <2>1, <4>1, <4>3 DEF SignedType
    <3>2. call' = [call EXCEPT ![c] = [call[c] EXCEPT !.attempt = 2, !.asked = clock]]
          /\ pc'[c] = "nav" /\ pc' \in [Calls -> {"idle", "ok", "error"} \cup Signing]
      BY <2>1, <2>6, ClientAssumption
      DEF SignedType, RequestRetried, sign, _is_cache_fresh, Longest
    <3>3. SignedType'
      <4>1. [call[c] EXCEPT !.attempt = 2, !.asked = clock] \in SignedLocals
        BY <2>1, LocalsWritten DEF SignedType
      <4>2. call' \in [Calls -> SignedLocals]
        BY <2>1, <3>2, <4>1 DEF SignedType
      <4>3. UNCHANGED <<clock, keys, rotation>>
        BY <2>6 DEF RequestRetried, remote
      <4> QED  BY <2>1, <3>1, <3>2, <4>2, <4>3 DEF SignedType
    <3>4. RetryInv(c)'
      BY <2>1, <2>6, <3>1, <3>2 DEF SignedType, RequestRetried, remote, RetryInv
    <3>5. ASSUME NEW d \in Calls \ {c}
          PROVE  call'[d] = call[d] /\ pc'[d] = pc[d] /\ was'[d] = was[d]
      BY <2>1, <2>6, <3>2 DEF SignedType, RequestRetried, sign
    <3> QED
      BY <2>6, <3>3, <3>4, <3>5, StepKeeps DEF RequestRetried, remote
  <2>7. CASE NavWithoutKeys(c) \/ RequestAccepted(c) \/ RequestFails(c)
             \/ RequestStaleAgain(c)
    BY <2>1, <2>7
    DEF SignedInv, SignedType, RetryInv, NavWithoutKeys, RequestAccepted, RequestFails,
        RequestStaleAgain, signer, remote
  <2> QED  BY <1>2, <2>2, <2>3, <2>4, <2>5, <2>6, <2>7
           DEF SignedStep, SignedCall, NavAnswers, StoreKeys, _fallback_to_cached,
               RequestRetried
<1>3. CASE Rotate \/ Tick
  <2>1. SignedType' /\ rotation' >= rotation
    BY <1>3, ClientAssumption DEF Rotate, Tick, SignedInv, SignedType, signer, remote
  <2>2. pc' = pc /\ call' = call /\ was' = was /\ kind' = kind
    BY <1>3 DEF Rotate, Tick
  <2>3. \A c \in Calls : was[c].rotation \in Nat
    BY DEF SignedInv, SignedType, Histories
  <2> QED  BY <2>1, <2>2, <2>3 DEF SignedInv, SignedType, RetryInv
<1>4. CASE \E u \in Users : List(u) \/ Unlist(u)
  BY <1>4 DEF List, Unlist
<1>5. CASE UNCHANGED vars
  BY <1>5 DEF vars, signer, remote, SignedInv, SignedType, RetryInv
<1> QED  BY <1>1, <1>2, <1>3, <1>4, <1>5 DEF Next

LEMMA NextIInv == IInv /\ [Next]_vars => IInv'
  BY SignedKeeps, PagedKeeps DEF IInv

(* The single retry of get_danmu_info and get_active_super_chats is signed *)
(* with keys handed out after the refusal, unless /nav failed, however     *)
(* many calls refresh, store and reset the same cache meanwhile.           *)
THEOREM RetryCorrect == Spec => []RetryUsesNewerKeys
<1>1. IInv => RetryUsesNewerKeys
  <2> SUFFICES ASSUME IInv, NEW c \in Calls,
                      pc[c] \in {"request", "stale"}, call[c].attempt = 2,
                      ~was[c].nofetch
               PROVE  call[c].signed >= was[c].rotation
    BY DEF RetryUsesNewerKeys
  <2>1. SignedInv
    BY DEF IInv, PagedInv, PagedType, Ended
  <2>2. was[c].nofetch = FALSE
    BY <2>1, Zenon DEF SignedInv, SignedType, Histories
  <2> QED  BY <2>1, <2>2 DEF SignedInv, RetryInv
<1> QED  BY <1>1, InitIInv, NextIInv, PTL DEF Spec

(* For lists and pages of any length, any number of readers and whatever   *)
(* is added meanwhile: get_ban_list returns everybody who was listed when  *)
(* it began, unless it was cut short or an entry was removed meanwhile.    *)
THEOREM BanListCorrect == Spec => []BanListComplete
<1>1. IInv => BanListComplete
  <2> SUFFICES ASSUME IInv, NEW c \in Calls,
                      pc[c] = "ok", call[c].op = "ban_list", ~was[c].cut, ~was[c].unlisted
               PROVE  was[c].list \subseteq ToSet(call[c].got)
    BY DEF BanListComplete
  <2>1. PagedInv
    BY DEF IInv, SignedInv, SignedType, SignedLocals
  <2>2. was[c].cut = FALSE /\ was[c].unlisted = FALSE
    BY <2>1, ReaderTypes, Zenon DEF Histories
  <2> QED  BY <2>1, <2>2, ReaderTypes DEF ReadInv
<1> QED  BY <1>1, InitIInv, NextIInv, PTL DEF Spec

(* get_room_user_role calls nobody a viewer who was an administrator all   *)
(* the while, whatever page the safety cap or a missing page count meets.  *)
THEOREM RoleCorrect == Spec => []RoleNeverGuessed
<1>1. IInv => RoleNeverGuessed
  <2> SUFFICES ASSUME IInv, NEW c \in Calls, pc[c] = "viewer"
               PROVE  Me \notin was[c].list \/ was[c].unlisted
    BY DEF RoleNeverGuessed
  <2>1. CASE PagedInv
    <3>1. was[c].unlisted = FALSE => Me \notin was[c].list
      BY <2>1, ReaderTypes DEF ReadInv
    <3> QED  BY <2>1, <3>1, ReaderTypes, Zenon DEF Histories
  <2>2. CASE SignedInv
    BY <2>2 DEF SignedInv, SignedType, Signing
  <2> QED  BY <2>1, <2>2 DEF IInv
<1> QED  BY <1>1, InitIInv, NextIInv, PTL DEF Spec

=============================================================================
