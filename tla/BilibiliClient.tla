---------------------------- MODULE BilibiliClient ---------------------------
(***************************************************************************)
(* The calls of BilibiliClient (bilibili/client.py) that take several      *)
(* requests: WBI-signed calls with their shared key cache                  *)
(* (bilibili/wbi.py) and their single retry, and the calls that read a     *)
(* paged list.  Calls interleave at every request; Bilibili rotates its    *)
(* signing keys and its lists change meanwhile.                            *)
(*                                                                         *)
(* A pair of signing keys is the number of the rotation it came with.      *)
(* The ban list and the administrator list are read alike and are one      *)
(* sequence here, the newest entry first.  Signed and paged calls share no *)
(* state, so each behaviour has calls of one kind only.                    *)
(***************************************************************************)
EXTENDS Naturals, Sequences, SequencesExt

CONSTANTS
  Calls,       \* bound: calls made
  Users,       \* users that may be listed
  Me,          \* the user get_room_user_role asks about
  PageSize,    \* rows Bilibili puts on a page
  MaxPages,    \* _BAN_LIST_MAX_PAGES, _ROOM_ADMIN_MAX_PAGES
  Interval,    \* refresh_interval of the signer
  MaxRotation, \* bound: key rotations
  MaxClock     \* bound: clock ticks

ASSUME ClientAssumption ==
  /\ Me \in Users
  /\ {PageSize, MaxPages, Interval, MaxRotation} \subseteq Nat \ {0}
  /\ MaxClock \in Nat
  /\ IsFiniteSet(Users)

NoKeys == 0

Longest == 0   \* last_update = 0.0: longer ago than any interval

VARIABLES
  kind,      \* the calls of this behaviour: "signed" or "paged"
  keys,      \* signer: _img_key, _sub_key
  updated,   \* signer: _last_update
  clock,     \* time.time()
  rotation,  \* Bilibili: the keys it signs with now
  listed,    \* Bilibili: the paged list
  pc,        \* where each call is
  call,      \* its locals: [op, page, got, signed, asked, answer, attempt]
  was        \* history of each call: [list, rotation, unlisted, cut, nofetch]

signer == <<keys, updated>>
remote == <<rotation, listed>>
vars   == <<kind, signer, clock, remote, pc, call, was>>

Goes(c, to) == pc' = [pc EXCEPT ![c] = to]

-----------------------------------------------------------------------------
(* WbiSigner *)

_is_cache_fresh(last) == keys # NoKeys /\ clock - last < Interval

(* sign() up to the next request; get_keys takes the time before the       *)
(* answer comes.  fresh says whether the cache is used.                    *)
sign(c, fresh, locals) ==
  IF fresh
    THEN /\ call' = [call EXCEPT ![c] = [locals EXCEPT !.signed = keys]]
         /\ Goes(c, "request")
    ELSE /\ call' = [call EXCEPT ![c] = [locals EXCEPT !.asked = clock]]
         /\ Goes(c, "nav")

SignedCall(c) ==
  /\ kind = "signed"
  /\ pc[c] = "idle"
  /\ sign(c, _is_cache_fresh(updated), [call[c] EXCEPT !.op = "signed"])
  /\ UNCHANGED <<kind, signer, clock, remote, was>>

NavAnswers(c) ==
  /\ pc[c] = "nav"
  /\ call' = [call EXCEPT ![c].answer = rotation]
  /\ Goes(c, "nav_answered")
  /\ UNCHANGED <<kind, signer, clock, remote, was>>

(* The answer is stored, whatever was stored meanwhile.                    *)
StoreKeys(c) ==
  /\ pc[c] = "nav_answered"
  /\ keys' = call[c].answer
  /\ updated' = call[c].asked
  /\ call' = [call EXCEPT ![c].signed = call[c].answer]
  /\ Goes(c, "request")
  /\ UNCHANGED <<kind, clock, remote, was>>

(* /nav failed or had no keys: the cached ones, if there are any.          *)
_fallback_to_cached(c) ==
  /\ pc[c] = "nav"
  /\ IF keys = NoKeys
       THEN Goes(c, "error") /\ UNCHANGED call
       ELSE /\ call' = [call EXCEPT ![c].signed = keys]
            /\ Goes(c, "request")
  /\ was' = [was EXCEPT ![c].nofetch = TRUE]
  /\ UNCHANGED <<kind, signer, clock, remote>>

(* Code 0 without keys raises, cache or not.                               *)
NavWithoutKeys(c) ==
  /\ pc[c] = "nav"
  /\ Goes(c, "error")
  /\ UNCHANGED <<kind, signer, clock, remote, call, was>>

-----------------------------------------------------------------------------
(* get_danmu_info, get_active_super_chats *)

RequestAccepted(c) ==
  /\ pc[c] = "request"
  /\ call[c].signed = rotation
  /\ Goes(c, "ok")
  /\ UNCHANGED <<kind, signer, clock, remote, call, was>>

(* Another error code, a body without data, or a network error: an         *)
(* exception, or no super chats.                                           *)
RequestFails(c) ==
  /\ pc[c] = "request"
  /\ Goes(c, "error")
  /\ UNCHANGED <<kind, signer, clock, remote, call, was>>

(* Faulty variant: the cached keys are not dropped before the retry. *)
RetryFromCache(c) ==
  /\ pc[c] = "request"
  /\ call[c].attempt = 1
  /\ sign(c, _is_cache_fresh(updated), [call[c] EXCEPT !.attempt = 2])
  /\ was' = [was EXCEPT ![c].rotation = rotation, ![c].nofetch = FALSE]
  /\ UNCHANGED <<kind, signer, clock, remote>>

(* Code -352 the first time: last_update = 0.0, and sign() again at once.  *)
RequestRetried(c) ==
  /\ pc[c] = "request"
  /\ call[c].attempt = 1
  /\ updated' = Longest
  /\ sign(c, _is_cache_fresh(Longest), [call[c] EXCEPT !.attempt = 2])
  /\ was' = [was EXCEPT ![c].rotation = rotation, ![c].nofetch = FALSE]
  /\ UNCHANGED <<kind, keys, clock, remote>>

RequestStaleAgain(c) ==
  /\ pc[c] = "request"
  /\ call[c].attempt = 2
  /\ Goes(c, "stale")
  /\ UNCHANGED <<kind, signer, clock, remote, call, was>>

-----------------------------------------------------------------------------
(* get_ban_list, get_room_user_role with is_room_admin *)

Page(list, n) ==
  SubSeq(list, (n - 1) * PageSize + 1,
         IF n * PageSize > Len(list) THEN Len(list) ELSE n * PageSize)

TotalPage(list) == (Len(list) + PageSize - 1) \div PageSize

BanListCalled(c) ==
  /\ kind = "paged"
  /\ pc[c] = "idle"
  /\ call' = [call EXCEPT ![c].op = "ban_list"]
  /\ was' = [was EXCEPT ![c].list = ToSet(listed)]
  /\ Goes(c, "page")
  /\ UNCHANGED <<kind, signer, clock, remote>>

(* /nav and room_init name the user and the anchor; without either the     *)
(* role is unknown, and the anchor is not looked up any further.           *)
RoleCalled(c) ==
  /\ kind = "paged"
  /\ pc[c] = "idle"
  /\ call' = [call EXCEPT ![c].op = "room_role"]
  /\ was' = [was EXCEPT ![c].list = ToSet(listed)]
  /\ pc' \in {[pc EXCEPT ![c] = next] : next \in {"page", "anchor", "unknown"}}
  /\ UNCHANGED <<kind, signer, clock, remote>>

(* Faulty variant: the last page is taken for one past the end. *)
BanListOverEarly(c, rows) ==
  \/ call[c].page + 1 >= TotalPage(listed)
  \/ Len(call[c].got) + Len(rows) >= Len(listed)
  \/ call[c].page >= MaxPages

(* The rows collected so far and the reported total end the reading.       *)
BanListOver(c, rows) ==
  \/ call[c].page >= TotalPage(listed)
  \/ Len(call[c].got) + Len(rows) >= Len(listed)
  \/ call[c].page >= MaxPages

BanListPage(c) ==
  LET rows == Page(listed, call[c].page)
  IN /\ pc[c] = "page"
     /\ call[c].op = "ban_list"
     /\ IF rows = <<>>
          THEN Goes(c, "ok") /\ UNCHANGED <<call, was>>
          ELSE /\ IF BanListOver(c, rows)
                    THEN /\ call' = [call EXCEPT ![c].got = @ \o rows]
                         /\ Goes(c, "ok")
                    ELSE /\ call' = [call EXCEPT ![c].got = @ \o rows,
                                                 ![c].page = @ + 1]
                         /\ UNCHANGED pc
               /\ was' = [was EXCEPT ![c].cut =
                            @ \/ (call[c].page = MaxPages /\ TotalPage(listed) > MaxPages)]
     /\ UNCHANGED <<kind, signer, clock, remote>>

(* An empty or unreadable body, or is_running() says no: what was          *)
(* collected is returned.                                                  *)
BanListCut(c) ==
  /\ pc[c] = "page"
  /\ call[c].op = "ban_list"
  /\ was' = [was EXCEPT ![c].cut = TRUE]
  /\ Goes(c, "ok")
  /\ UNCHANGED <<kind, signer, clock, remote, call>>

BanListFails(c) ==
  /\ pc[c] = "page"
  /\ call[c].op = "ban_list"
  /\ Goes(c, "error")
  /\ UNCHANGED <<kind, signer, clock, remote, call, was>>

(* Faulty variant: at the safety cap the user is taken for a viewer. *)
AdminVerdictGuessed(c, rows, counted) ==
  CASE Me \in ToSet(rows) -> "admin"
    [] /\ Me \notin ToSet(rows)
       /\ \/ counted /\ call[c].page >= TotalPage(listed)
          \/ rows = <<>> -> "viewer"
    [] OTHER -> IF call[c].page = MaxPages THEN "viewer" ELSE "page"

(* What is_room_admin decides from one page; Bilibili may leave the number *)
(* of pages out.                                                           *)
AdminVerdict(c, rows, counted) ==
  CASE Me \in ToSet(rows) -> "admin"
    [] /\ Me \notin ToSet(rows)
       /\ \/ counted /\ call[c].page >= TotalPage(listed)
          \/ rows = <<>> -> "viewer"
    [] OTHER -> IF call[c].page = MaxPages THEN "unknown" ELSE "page"

AdminPage(c) ==
  /\ pc[c] = "page"
  /\ call[c].op = "room_role"
  /\ \E counted \in BOOLEAN :
       Goes(c, AdminVerdict(c, Page(listed, call[c].page), counted))
  /\ call' = [call EXCEPT ![c].page = @ + 1]
  /\ UNCHANGED <<kind, signer, clock, remote, was>>

AdminListFails(c) ==
  /\ pc[c] = "page"
  /\ call[c].op = "room_role"
  /\ Goes(c, "unknown")
  /\ UNCHANGED <<kind, signer, clock, remote, call, was>>

-----------------------------------------------------------------------------
(* Bilibili *)

Rotate ==
  /\ kind = "signed"
  /\ rotation < MaxRotation
  /\ rotation' = rotation + 1
  /\ UNCHANGED <<kind, signer, clock, listed, pc, call, was>>

Reading == {c \in Calls : pc[c] = "page"}

List(u) ==
  /\ kind = "paged"
  /\ u \notin ToSet(listed)
  /\ listed' = <<u>> \o listed
  /\ UNCHANGED <<kind, signer, clock, rotation, pc, call, was>>

Unlist(u) ==
  /\ kind = "paged"
  /\ \E i \in 1..Len(listed) : listed[i] = u /\ listed' = RemoveAt(listed, i)
  /\ was' = [c \in Calls |->
               IF c \in Reading THEN [was[c] EXCEPT !.unlisted = TRUE]
                                ELSE was[c]]
  /\ UNCHANGED <<kind, signer, clock, rotation, pc, call>>

Tick ==
  /\ kind = "signed"
  /\ clock < Interval + MaxClock
  /\ clock' = clock + 1
  /\ UNCHANGED <<kind, signer, remote, pc, call, was>>

-----------------------------------------------------------------------------
Init ==
  /\ kind \in {"signed", "paged"}
  /\ keys = NoKeys
  /\ updated = Longest
  /\ clock = Interval
  /\ rotation = 1
  /\ listed \in {<<>>, SetToSeq(Users)}
  /\ pc = [c \in Calls |-> "idle"]
  /\ call = [c \in Calls |-> [op |-> "none", page |-> 1, got |-> <<>>,
               signed |-> NoKeys, asked |-> 0, answer |-> NoKeys, attempt |-> 1]]
  /\ was = [c \in Calls |-> [list |-> {}, rotation |-> 0, unlisted |-> FALSE,
                             cut |-> FALSE, nofetch |-> FALSE]]

SignedStep(c) ==
  \/ SignedCall(c)
  \/ NavAnswers(c) \/ StoreKeys(c) \/ _fallback_to_cached(c) \/ NavWithoutKeys(c)
  \/ RequestAccepted(c) \/ RequestFails(c) \/ RequestRetried(c)
  \/ RequestStaleAgain(c)

PagedStep(c) ==
  \/ BanListCalled(c) \/ BanListPage(c) \/ BanListCut(c) \/ BanListFails(c)
  \/ RoleCalled(c) \/ AdminPage(c) \/ AdminListFails(c)

Next ==
  \/ \E c \in Calls : SignedStep(c) \/ PagedStep(c)
  \/ Rotate \/ Tick
  \/ \E u \in Users : List(u) \/ Unlist(u)

Spec == Init /\ [][Next]_vars

-----------------------------------------------------------------------------
(* Type invariant: signer, Bilibili and the calls' locals. *)
TypeOK ==
  /\ keys \in 0..MaxRotation
  /\ updated \in 0..(Interval + MaxClock)
  /\ clock \in Interval..(Interval + MaxClock)
  /\ rotation \in 1..MaxRotation
  /\ listed \in Seq(Users)
  /\ pc \in [Calls -> {"idle", "nav", "nav_answered", "request", "page", "ok",
                       "stale", "error", "anchor", "admin", "viewer", "unknown"}]
  /\ call \in [Calls -> [op : {"none", "signed", "ban_list", "room_role"},
                         page : 1..(MaxPages + 1), got : Seq(Users),
                         signed : 0..MaxRotation, asked : Nat,
                         answer : 0..MaxRotation, attempt : 1..2]]

(* A request refused with -352 is repeated with keys Bilibili handed out   *)
(* after the refusal, even when another call stores an older answer in the *)
(* shared cache meanwhile; only a failing /nav makes the retry reuse       *)
(* cached keys.  Without it the only retry would be wasted.                *)
RetryUsesNewerKeys ==
  \A c \in Calls :
    pc[c] \in {"request", "stale"} /\ call[c].attempt = 2 /\ ~was[c].nofetch
      => call[c].signed >= was[c].rotation

(* get_ban_list misses nobody who was listed all the while, unless the     *)
(* reading was cut short or somebody was unbanned while the pages were     *)
(* fetched (the rows move up); users banned meanwhile only make rows       *)
(* appear twice.                                                           *)
BanListComplete ==
  \A c \in Calls :
    pc[c] = "ok" /\ call[c].op = "ban_list" /\ ~was[c].cut /\ ~was[c].unlisted
      => was[c].list \subseteq ToSet(call[c].got)

(* The user is only called a viewer when not an administrator while the    *)
(* list was read; a list that could not be read to its end gives           *)
(* "unknown", never a confident "viewer".                                  *)
RoleNeverGuessed ==
  \A c \in Calls :
    pc[c] = "viewer" => Me \notin was[c].list \/ was[c].unlisted
=============================================================================
