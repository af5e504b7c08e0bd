---------------------------- MODULE AuthFlowProofs ----------------------------
(***************************************************************************)
(* Proofs about AuthFlow, for any logins, fingerprints, requests and first *)
(* files: the stored login is whole and the one in use, a login is         *)
(* replaced only by one Bilibili vouched for, and a login expires only     *)
(* when Bilibili rejected it.  First what _update_owned_lines writes and   *)
(* ReadKey reads back, then what each place of a request holds ready.      *)
(***************************************************************************)
EXTENDS AuthFlow, TLAPS, WellFoundedInduction, SequenceTheorems

(* The order of the natural numbers as the library's relation. *)
Less == {ss \in Nat \X Nat : ss[1] < ss[2]}

(* A non-empty set of line numbers has a greatest one: the line ReadKey    *)
(* chooses exists.                                                         *)
LEMMA LastOf ==
  ASSUME NEW n \in Nat, NEW S \in SUBSET (1..n), S # {}
  PROVE  \E i \in S : \A j \in S : j <= i
<1>1. IsWellFoundedOn(Less, Nat)
  BY NatLessThanWellFounded, Zenon DEF OpToRel, Less
<1> DEFINE T == {k \in Nat : \A j \in S : j <= k}
<1>2. T \subseteq Nat /\ n \in T
  OBVIOUS
<1>3. PICK k \in T : \A y \in T : ~(<<y, k>> \in Less)
  BY <1>1, <1>2, WFMin, Zenon
<1>4. ASSUME k \notin S PROVE FALSE
  <2>0. PICK j \in S : j \in 1..n /\ j <= k
    BY <1>3
  <2>1. k - 1 \in T
    <3>1. k \in Nat /\ k >= 1 /\ k - 1 \in Nat
      BY <1>3, <2>0
    <3>2. \A i \in S : i \in Nat /\ i <= k /\ i # k
      BY <1>3, <1>4
    <3>3. \A i \in S : i <= k - 1
      BY <3>1, <3>2
    <3> QED  BY <3>1, <3>3
  <2>2. <<k - 1, k>> \in Less
    BY <2>1 DEF Less
  <2> QED  BY <1>3, <2>1, <2>2
<1> QED  BY <1>3, <1>4

-----------------------------------------------------------------------------
(* The lines of .env.                                                      *)

Line == [key : OwnedKeys \cup {"other"}, val : Value \cup Fingers \cup {NoFinger}]

IsLast(lines, key, i) ==
  /\ i \in DOMAIN lines
  /\ lines[i].key = key
  /\ \A j \in DOMAIN lines : lines[j].key = key => j <= i

LEMMA LastLine ==
  ASSUME NEW lines \in Seq(Line), NEW key \in Keys(lines)
  PROVE  \E i \in DOMAIN lines : IsLast(lines, key, i)
<1> DEFINE S == {i \in DOMAIN lines : lines[i].key = key}
<1>1. Len(lines) \in Nat /\ DOMAIN lines = 1..Len(lines)
  OBVIOUS
<1>2. S \in SUBSET (1..Len(lines)) /\ S # {}
  BY <1>1 DEF Keys
<1>3. PICK i \in S : \A j \in S : j <= i
  <2> HIDE DEF S
  <2> QED  BY <1>1, <1>2, LastOf
<1> QED  BY <1>3 DEF IsLast

(* The reader takes the last line of a key.                                *)
LEMMA ReadLast ==
  ASSUME NEW lines \in Seq(Line), NEW key, NEW i, IsLast(lines, key, i), NEW default
  PROVE  ReadKey(lines, key, default) = lines[i].val
<1> DEFINE P(k) == /\ lines[k].key = key
                   /\ \A j \in DOMAIN lines : lines[j].key = key => j <= k
<1> DEFINE m == CHOOSE k \in DOMAIN lines : P(k)
<1>1. i \in DOMAIN lines /\ P(i) /\ key \in Keys(lines)
  BY DEF IsLast, Keys
<1>2. m \in DOMAIN lines /\ P(m)
  <2> HIDE DEF P
  <2> QED  BY <1>1
<1>3. m <= i /\ i <= m
  <2> HIDE DEF m
  <2> QED  BY <1>1, <1>2
<1>4. m = i
  <2> HIDE DEF m, P
  <2>1. i \in Nat /\ m \in Nat
    BY <1>1, <1>2
  <2> QED  BY <1>3, <2>1
<1> QED  BY <1>1, <1>4, Zenon DEF ReadKey

(* What the rewriting of lines by updates has made of old once the missing *)
(* keys of ks were appended.                                               *)
Updated(old, new, updates, ks) ==
  /\ new \in Seq(Line)
  /\ DOMAIN old \subseteq DOMAIN new
  /\ \A i \in DOMAIN old :
       /\ new[i].key = old[i].key
       /\ IF old[i].key \in DOMAIN updates THEN new[i].val = updates[old[i].key]
                                           ELSE new[i] = old[i]
  /\ \A i \in DOMAIN new \ DOMAIN old :
       new[i].key \in DOMAIN updates /\ new[i].val = updates[new[i].key]
  /\ ks \cap DOMAIN updates \subseteq Keys(new)

IsUpdate(updates) ==
  /\ DOMAIN updates \subseteq OwnedKeys
  /\ \A k \in DOMAIN updates : updates[k] \in Value \cup Fingers \cup {NoFinger}

LEMMA RewrittenIs ==
  ASSUME NEW lines \in Seq(Line), NEW updates, IsUpdate(updates)
  PROVE  Updated(lines, Rewritten(lines, updates), updates, {})
<1> DEFINE new == Rewritten(lines, updates)
<1>1. DOMAIN lines = 1..Len(lines) /\ Len(lines) \in Nat
  OBVIOUS
<1>2. \A i \in DOMAIN lines :
        new[i] = IF lines[i].key \in DOMAIN updates
                   THEN LineOf(lines[i].key, updates[lines[i].key]) ELSE lines[i]
  BY DEF Rewritten
<1>3. \A k \in DOMAIN updates :
        /\ LineOf(k, updates[k]) \in Line
        /\ LineOf(k, updates[k]).key = k /\ LineOf(k, updates[k]).val = updates[k]
  BY DEF IsUpdate, LineOf, Line
<1>4. \A i \in DOMAIN lines : new[i] \in Line
  <2>1. \A i \in DOMAIN lines : lines[i] \in Line
    OBVIOUS
  <2> HIDE DEF new
  <2> QED  BY <1>2, <1>3, <2>1
<1>5. new \in Seq(Line) /\ DOMAIN new = DOMAIN lines
  <2>1. new = [i \in 1..Len(lines) |-> new[i]]
    BY <1>1 DEF Rewritten
  <2>2. DOMAIN new = DOMAIN lines
    BY DEF Rewritten
  <2> HIDE DEF new
  <2>3. new \in [1..Len(lines) -> Line]
    BY <1>1, <1>4, <2>1, <2>2
  <2>4. ASSUME NEW n \in Nat, NEW f \in [1..n -> Line] PROVE f \in Seq(Line)
    <3>1. Seq(Line) = UNION {[1..m -> Line] : m \in Nat}
      BY SeqDef
    <3> QED  BY <3>1, Zenon
  <2>5. new \in Seq(Line)
    BY <1>1, <2>3, <2>4, Zenon
  <2> QED  BY <2>2, <2>5
<1>6. new = Rewritten(lines, updates)
  OBVIOUS
<1> HIDE DEF new
<1> QED  BY <1>2, <1>3, <1>5, <1>6 DEF Updated

LEMMA AddMissingIs ==
  ASSUME NEW old \in Seq(Line), NEW lines, NEW updates, NEW ks, NEW key \in OwnedKeys,
         IsUpdate(updates), Updated(old, lines, updates, ks)
  PROVE  Updated(old, AddMissing(lines, updates, key), updates, ks \cup {key})
<1> DEFINE new == AddMissing(lines, updates, key)
<1>1. CASE ~(key \in DOMAIN updates /\ key \notin Keys(lines))
  BY <1>1 DEF AddMissing, Updated
<1>2. CASE key \in DOMAIN updates /\ key \notin Keys(lines)
  <2> DEFINE l == LineOf(key, updates[key])
  <2>1. l \in Line /\ l.key = key /\ l.val = updates[key]
    BY <1>2 DEF IsUpdate, LineOf, Line
  <2> HIDE DEF l
  <2>2. new = Append(lines, l) /\ AddMissing(lines, updates, key) = new
    BY <1>2 DEF AddMissing, l
  <2>3. lines \in Seq(Line)
    BY DEF Updated
  <2> HIDE DEF new
  <2>4. /\ new \in Seq(Line) /\ DOMAIN lines \subseteq DOMAIN new
        /\ \A i \in DOMAIN lines : new[i] = lines[i]
        /\ \A i \in DOMAIN new \ DOMAIN lines : new[i] = l
        /\ \E i \in DOMAIN new : new[i] = l
    BY <2>1, <2>2, <2>3
  <2>5. Keys(lines) \cup {key} \subseteq Keys(new)
    BY <2>1, <2>4 DEF Keys
  <2>6. DOMAIN old \subseteq DOMAIN lines
    BY DEF Updated
  <2>7. \A i \in DOMAIN new \ DOMAIN old :
          new[i].key \in DOMAIN updates /\ new[i].val = updates[new[i].key]
    BY <1>2, <2>1, <2>4 DEF Updated
  <2>8. \A i \in DOMAIN old : new[i] = lines[i]
    BY <2>4, <2>6
  <2>9. DOMAIN old \subseteq DOMAIN new /\ (ks \cup {key}) \cap DOMAIN updates \subseteq Keys(new)
    BY <2>4, <2>5, <2>6 DEF Updated
  <2>10. \A i \in DOMAIN old :
          /\ new[i].key = old[i].key
          /\ IF old[i].key \in DOMAIN updates THEN new[i].val = updates[old[i].key]
                                              ELSE new[i] = old[i]
    BY <2>8 DEF Updated
  <2> QED  BY <2>2, <2>4, <2>7, <2>9, <2>10 DEF Updated
<1> QED  BY <1>1, <1>2

LEMMA UpdateIs ==
  ASSUME NEW lines \in Seq(Line), NEW updates, IsUpdate(updates)
  PROVE  Updated(lines, _update_owned_lines(lines, updates), updates, OwnedKeys)
<1> DEFINE a == Rewritten(lines, updates)
           b == AddMissing(a, updates, "SESSDATA")
           c == AddMissing(b, updates, "BILI_JCT")
           d == AddMissing(c, updates, "BUVID3")
<1>0. d = _update_owned_lines(lines, updates)
  BY DEF _update_owned_lines
<1>1. Updated(lines, a, updates, {})
  BY RewrittenIs
<1>2. Updated(lines, b, updates, {} \cup {"SESSDATA"})
  <2> HIDE DEF a
  <2> QED  BY <1>1, AddMissingIs DEF OwnedKeys
<1>3. Updated(lines, c, updates, ({} \cup {"SESSDATA"}) \cup {"BILI_JCT"})
  <2> HIDE DEF a, b
  <2> QED  BY <1>2, AddMissingIs DEF OwnedKeys
<1>4. Updated(lines, d, updates, (({} \cup {"SESSDATA"}) \cup {"BILI_JCT"}) \cup {"BUVID3"})
  <2> HIDE DEF a, b, c
  <2> QED  BY <1>3, AddMissingIs DEF OwnedKeys
<1>5. (({} \cup {"SESSDATA"}) \cup {"BILI_JCT"}) \cup {"BUVID3"} = OwnedKeys
  BY DEF OwnedKeys
<1> HIDE DEF a, b, c, d
<1> QED  BY <1>0, <1>4, <1>5

(* A key that is written is read back, any other key reads as before.      *)
LEMMA UpdatedReads ==
  ASSUME NEW old \in Seq(Line), NEW new, NEW updates, IsUpdate(updates),
         Updated(old, new, updates, OwnedKeys), NEW key, NEW default
  PROVE  ReadKey(new, key, default) =
           IF key \in DOMAIN updates THEN updates[key] ELSE ReadKey(old, key, default)
<1>0. new \in Seq(Line)
  BY DEF Updated
<1>1. CASE key \in DOMAIN updates
  <2>1. key \in Keys(new)
    BY <1>1 DEF Updated, IsUpdate
  <2>2. PICK i \in DOMAIN new : IsLast(new, key, i)
    BY <1>0, <2>1, LastLine
  <2>3. new[i].key = key /\ new[i].val = updates[key]
    BY <1>1, <2>2 DEF IsLast, Updated
  <2> QED  BY <1>0, <1>1, <2>2, <2>3, ReadLast
<1>2. CASE key \notin DOMAIN updates /\ key \notin Keys(old)
  <2>1. key \notin Keys(new)
    BY <1>2 DEF Keys, Updated
  <2> QED  BY <1>2, <2>1 DEF ReadKey
<1>3. CASE key \notin DOMAIN updates /\ key \in Keys(old)
  <2>1. PICK i \in DOMAIN old : IsLast(old, key, i)
    BY <1>3, LastLine
  <2>2. new[i] = old[i] /\ i \in DOMAIN new
    BY <1>3, <2>1 DEF IsLast, Updated
  <2>3. IsLast(new, key, i)
    BY <1>3, <2>1, <2>2 DEF IsLast, Updated
  <2> QED  BY <1>0, <1>3, <2>1, <2>2, <2>3, ReadLast
<1> QED  BY <1>1, <1>2, <1>3

LEMMA UpdatedKeepsOthers ==
  ASSUME NEW old \in Seq(Line), NEW new, NEW updates, IsUpdate(updates),
         Updated(old, new, updates, OwnedKeys)
  PROVE  OthersKept(old, new)
BY DEF Updated, IsUpdate, OthersKept

LEMMA UpdatesIs ==
  ASSUME NEW login \in Cookies
  PROVE  /\ IsUpdate(Updates(login))
         /\ {"SESSDATA", "BILI_JCT"} \subseteq DOMAIN Updates(login)
         /\ Updates(login)["SESSDATA"] = login.sess
         /\ Updates(login)["BILI_JCT"] = login.jct
         /\ "BUVID3" \in DOMAIN Updates(login) <=> login.finger # NoFinger
         /\ login.finger # NoFinger => Updates(login)["BUVID3"] = login.finger
<1>1. login.sess \in Value /\ login.jct \in Value /\ login.finger \in Fingers \cup {NoFinger}
  BY DEF Cookies
<1>2. CASE login.finger = NoFinger
  <2>1. DOMAIN Updates(login) = {"SESSDATA", "BILI_JCT"}
    BY <1>2 DEF Updates
  <2> QED  BY <1>1, <1>2, <2>1 DEF Updates, IsUpdate, OwnedKeys
<1>3. CASE login.finger # NoFinger
  <2>1. DOMAIN Updates(login) = {"SESSDATA", "BILI_JCT", "BUVID3"}
    BY <1>3 DEF Updates
  <2> QED  BY <1>1, <1>3, <2>1 DEF Updates, IsUpdate, OwnedKeys
<1> QED  BY <1>2, <1>3

(* write_env_atomic: what the next start reads from the new lines.         *)
LEMMA WriteIs ==
  ASSUME NEW lines \in Seq(Line), NEW login \in Cookies, NEW new,
         new = _update_owned_lines(lines, Updates(login))
  PROVE  /\ new \in Seq(Line)
         /\ OthersKept(lines, new)
         /\ ReadKey(new, "SESSDATA", Empty) = login.sess
         /\ ReadKey(new, "BILI_JCT", Empty) = login.jct
         /\ ReadKey(new, "BUVID3", NoFinger) =
              Kept(login.finger, ReadKey(lines, "BUVID3", NoFinger))
<1> DEFINE u == Updates(login)
<1>1. /\ IsUpdate(u)
      /\ {"SESSDATA", "BILI_JCT"} \subseteq DOMAIN u
      /\ u["SESSDATA"] = login.sess
      /\ u["BILI_JCT"] = login.jct
      /\ "BUVID3" \in DOMAIN u <=> login.finger # NoFinger
      /\ login.finger # NoFinger => u["BUVID3"] = login.finger
  BY UpdatesIs
<1>2. new = _update_owned_lines(lines, u)
  OBVIOUS
<1> HIDE DEF u
<1>3. Updated(lines, new, u, OwnedKeys)
  BY <1>1, <1>2, UpdateIs
<1>4. OthersKept(lines, new)
  BY <1>1, <1>3, UpdatedKeepsOthers
<1>8. new \in Seq(Line)
  BY <1>3 DEF Updated
<1>5. \A key, default : ReadKey(new, key, default) =
           IF key \in DOMAIN u THEN u[key] ELSE ReadKey(lines, key, default)
  BY <1>1, <1>3, UpdatedReads
<1>6. /\ ReadKey(new, "SESSDATA", Empty) = login.sess
      /\ ReadKey(new, "BILI_JCT", Empty) = login.jct
  BY <1>1, <1>5
<1>7. ReadKey(new, "BUVID3", NoFinger) =
        Kept(login.finger, ReadKey(lines, "BUVID3", NoFinger))
  BY <1>1, <1>5 DEF Kept
<1> QED  BY <1>4, <1>6, <1>7, <1>8

-----------------------------------------------------------------------------
(* The inductive invariant.                                                *)

ReqRec == [pc : {"idle", "poll", "spi", "validate", "nav", "call"} \cup Exclusive,
           login : Cookies, sent : Value]

(* Both cookies of one login that was vouched for, or none.                *)
Whole(file) ==
  /\ SettingsOf(file) \in Cookies
  /\ SettingsOf(file).sess = SettingsOf(file).jct
  /\ SettingsOf(file).sess \in vouched \cup StartLogins \cup {Empty}

DiskInv ==
  /\ env \in File /\ staging \in File /\ legacy \in File
  /\ env.status # "unsynced" /\ legacy.status # "unsynced"
  /\ env.status = "absent" => env.lines = <<>>
  /\ legacy.status = "absent" => legacy.lines = <<>>
  /\ Whole(env) /\ Whole(legacy)

(* A request about to write carries a whole login that was vouched for;    *)
(* what it staged is .env with that login; what it has replaced is what    *)
(* the settings are about to be.                                           *)
Good(q) ==
  /\ q.pc = "validate" => /\ q.sent \in Logins
                          /\ q.login.sess = q.sent /\ q.login.jct = q.sent
  /\ q.pc \in {"spi"} \cup Exclusive =>
       q.login.jct = q.login.sess /\ q.login.sess \in vouched
  /\ q.pc \in {"staged", "synced"} =>
       staging.lines = _update_owned_lines(env.lines, Updates(q.login))
  /\ q.pc = "synced" => staging.status = "synced"
  /\ q.pc = "replaced" =>
       /\ SettingsOf(env).sess = q.login.sess
       /\ SettingsOf(env).jct = q.login.jct
       /\ migrated = FALSE =>
            SettingsOf(env).finger = Kept(q.login.finger, settings.finger)
  /\ q.pc = "nav" => q.sent \in Logins /\ settings.sess \in vouched

ReqInv ==
  /\ req \in [Requests -> ReqRec]
  /\ \A r \in Requests : req[r].pc # "idle" => phase = "serving"
  /\ \A r, s \in Requests : req[r].pc \in Exclusive /\ req[s].pc \in Exclusive => r = s
  /\ \A r \in Requests : Good(req[r])

(* The cookies in use are the stored ones, but for the step between the    *)
(* replacement of .env and the update of the settings.                     *)
InUse ==
  /\ migrated = FALSE => settings = SettingsOf(env)
  /\ settings.sess # Empty => settings.sess = SettingsOf(env).sess

MemInv ==
  /\ settings \in Cookies /\ jar = settings /\ csrf = settings.jct
  /\ vouched \subseteq Logins
  /\ phase \in {"down", "starting", "serving"}
  /\ phase = "starting" => settings.sess \in Logins
  /\ phase # "down" /\ (\A r \in Requests : req[r].pc # "replaced") => InUse
  /\ state = "authenticated" => settings.sess \in vouched

Inv == DiskInv /\ ReqInv /\ MemInv

LEMMA FileIs == File = [status : {"absent", "unsynced", "synced"}, lines : Seq(Line)]
BY DEF File, Line

(* What is on disk stays whole while nothing on it changes, since a login  *)
(* that was vouched for stays vouched for.                                 *)
LEMMA DiskStays ==
  ASSUME DiskInv, UNCHANGED disk, vouched \subseteq vouched' PROVE DiskInv'
BY DEF DiskInv, disk, Whole, SettingsOf

(* A request at none of the exclusive points only relies on the login in   *)
(* use being vouched for.                                                  *)
LEMMA GoodOutside ==
  ASSUME NEW q, q.pc \notin Exclusive, Good(q), vouched \subseteq vouched',
         settings'.sess \in {settings.sess} \cup vouched'
  PROVE  Good(q)'
BY DEF Good, Exclusive

LEMMA GoodStays ==
  ASSUME NEW q, Good(q), vouched \subseteq vouched',
         UNCHANGED <<env, staging, settings, migrated>>
  PROVE  Good(q)'
BY DEF Good, SettingsOf

-----------------------------------------------------------------------------
(* Steps of one request outside the exclusive points.                      *)

LEMMA MovesTo ==
  ASSUME ReqInv, NEW r \in Requests,
         NEW to \in {"idle", "poll", "spi", "validate", "nav", "call"} \cup Exclusive,
         Goes(r, to)
  PROVE  \E q \in ReqRec : /\ req' = [req EXCEPT ![r] = q] /\ q.pc = to
                           /\ q.login = req[r].login /\ q.sent = req[r].sent
<1> DEFINE q == [req[r] EXCEPT !.pc = to]
<1>1. req[r] \in ReqRec
  BY DEF ReqInv
<1>2. /\ q \in ReqRec /\ q.pc = to
      /\ q.login = req[r].login /\ q.sent = req[r].sent
  BY <1>1 DEF ReqRec
<1>3. req' = [req EXCEPT ![r] = q]
  BY DEF Goes
<1> QED  BY <1>2, <1>3

LEMMA IdleIs == Idle \in ReqRec /\ Idle.pc = "idle" /\ Good(Idle) /\ Good(Idle)'
<1>1. NoCookies \in Cookies /\ Empty \in Value
  BY DEF NoCookies, Cookies, Value
<1>2. Idle \in ReqRec /\ Idle.pc = "idle"
  BY <1>1 DEF Idle, ReqRec
<1>3. \A q : q.pc = "idle" => Good(q) /\ Good(q)'
  BY DEF Good, Exclusive
<1> QED  BY <1>2, <1>3

(* A request goes on, ends or begins; another may have been vouched for.   *)
LEMMA RequestMoves ==
  ASSUME Inv, NEW r \in Requests, NEW q \in ReqRec, req' = [req EXCEPT ![r] = q],
         UNCHANGED <<disk, memory, phase, migrated>>, phase = "serving",
         vouched \subseteq vouched', vouched' \subseteq Logins,
         Good(q)', q.pc # "replaced", req[r].pc # "replaced",
         q.pc \in Exclusive => LoopFree,
         state' = "authenticated" => settings.sess \in vouched'
  PROVE  Inv'
<1>1. DiskInv'
  BY DiskStays DEF Inv
<1>2. /\ req \in [Requests -> ReqRec] /\ req' \in [Requests -> ReqRec]
      /\ req'[r] = q /\ \A s \in Requests \ {r} : req'[s] = req[s]
  BY DEF Inv, ReqInv
<1>3. UNCHANGED <<env, staging, settings>>
  BY DEF disk, memory
<1>4. \A s \in Requests \ {r} : Good(req[s])'
  <2> SUFFICES ASSUME NEW s \in Requests \ {r} PROVE Good(req[s])'
    OBVIOUS
  <2>1. PICK o : o = req[s] /\ o = req'[s]
    BY <1>2
  <2>2. Good(o)
    BY <2>1 DEF Inv, ReqInv
  <2>3. Good(o)'
    BY <1>3, <2>2, GoodStays
  <2> QED  BY <2>1, <2>3 DEF Good
<1>5. \A s \in Requests : Good(req[s])'
  <2>1. Good(req[r])'
    BY <1>2 DEF Good
  <2> QED  BY <1>4, <2>1
<1>6. \A s, t \in Requests : req'[s].pc \in Exclusive /\ req'[t].pc \in Exclusive => s = t
  BY <1>2 DEF LoopFree, Inv, ReqInv
<1>7. ReqInv'
  BY <1>2, <1>5, <1>6 DEF Inv, ReqInv
<1>8. MemInv'
  <2>1. (\A s \in Requests : req'[s].pc # "replaced") => InUse'
    BY <1>2, <1>3 DEF Inv, MemInv, InUse, SettingsOf
  <2> QED  BY <2>1 DEF Inv, MemInv, memory
<1> QED  BY <1>1, <1>7, <1>8 DEF Inv

LEMMA RequestEnds ==
  ASSUME Inv, NEW r \in Requests, Ends(r), phase = "serving",
         UNCHANGED <<disk, memory, phase, migrated>>,
         vouched \subseteq vouched', vouched' \subseteq Logins,
         req[r].pc # "replaced",
         state' = "authenticated" => settings.sess \in vouched'
  PROVE  Inv'
<1>1. PICK q \in ReqRec : q = Idle /\ q.pc = "idle" /\ Good(q)'
  BY IdleIs
<1>2. req' = [req EXCEPT ![r] = q]
  BY <1>1 DEF Ends
<1> QED  BY <1>1, <1>2, RequestMoves DEF Exclusive

LEMMA RequestGoes ==
  ASSUME Inv, NEW r \in Requests, LoopFree,
         NEW to \in {"poll", "write"}, Goes(r, to),
         UNCHANGED <<disk, memory, phase, migrated, state>>,
         vouched \subseteq vouched', vouched' \subseteq Logins,
         to = "write" => /\ req[r].login.jct = req[r].login.sess
                         /\ req[r].login.sess \in vouched'
  PROVE  Inv'
<1>1. PICK q \in ReqRec : /\ req' = [req EXCEPT ![r] = q] /\ q.pc = to
                          /\ q.login = req[r].login /\ q.sent = req[r].sent
  BY MovesTo DEF Inv, Exclusive
<1>2. Good(q)'
  BY <1>1 DEF Good, Exclusive
<1>3. phase = "serving" /\ req[r].pc # "replaced"
  BY DEF LoopFree, Exclusive
<1>4. state' = "authenticated" => settings.sess \in vouched'
  BY DEF Inv, MemInv
<1> QED  BY <1>1, <1>2, <1>3, <1>4, RequestMoves DEF Exclusive

LEMMA PollKeeps ==
  ASSUME Inv, NEW r \in Requests, PollSucceeds(r) PROVE Inv'
<1>1. /\ LoopFree /\ qr \in Logins /\ vouched' = vouched \cup {qr}
      /\ UNCHANGED <<disk, memory, phase, migrated, state>>
  BY DEF PollSucceeds, At
<1>2. PICK setCookie, dataUrl \in SUBSET {"sess", "jct"} :
        /\ Empty \notin {_capture_success_cookies(qr, setCookie, dataUrl).sess,
                         _capture_success_cookies(qr, setCookie, dataUrl).jct}
        /\ req' = [req EXCEPT ![r].pc = "spi",
                              ![r].login = _capture_success_cookies(qr, setCookie, dataUrl)]
  BY DEF PollSucceeds
<1> DEFINE got == _capture_success_cookies(qr, setCookie, dataUrl)
           q == [[req[r] EXCEPT !.pc = "spi"] EXCEPT !.login = got]
<1>3. got \in Cookies /\ got.sess = qr /\ got.jct = qr
  BY <1>1, <1>2 DEF _capture_success_cookies, Cookies, Value
<1> HIDE DEF got
<1>4. req[r] \in ReqRec
  BY DEF Inv, ReqInv
<1>5. q \in ReqRec /\ q.pc = "spi" /\ q.login = got
  BY <1>3, <1>4 DEF ReqRec
<1>6. req' = [req EXCEPT ![r] = q]
  BY <1>2 DEF got, Inv, ReqInv
<1> HIDE DEF q
<1>7. PICK o : o = q
  OBVIOUS
<1>8. Good(o)'
  BY <1>1, <1>3, <1>5, <1>7 DEF Good, Exclusive
<1>9. phase = "serving" /\ req[r].pc # "replaced" /\ vouched' \subseteq Logins
  BY <1>1 DEF LoopFree, Exclusive, Inv, MemInv
<1>10. state' = "authenticated" => settings.sess \in vouched'
  BY <1>1 DEF Inv, MemInv
<1> QED  BY <1>1, <1>5, <1>6, <1>7, <1>8, <1>9, <1>10, RequestMoves DEF Exclusive

LEMMA FingerprintKeeps ==
  ASSUME Inv, NEW r \in Requests, QrFingerprint(r) PROVE Inv'
<1>1. /\ LoopFree /\ req[r].pc = "spi"
      /\ UNCHANGED <<disk, memory, phase, migrated, state, vouched>>
  BY DEF QrFingerprint, At, history
<1>2. PICK f \in Fingers \cup {NoFinger} :
        req' = [req EXCEPT ![r].pc = "write", ![r].login.finger = f]
  BY DEF QrFingerprint
<1> DEFINE l == [req[r].login EXCEPT !.finger = f]
           q == [[req[r] EXCEPT !.pc = "write"] EXCEPT !.login = l]
<1>3. req[r] \in ReqRec /\ req[r].login \in Cookies /\ Good(req[r])
  BY DEF Inv, ReqInv, ReqRec
<1>4. l \in Cookies /\ l.sess = req[r].login.sess /\ l.jct = req[r].login.jct
  BY <1>3 DEF Cookies
<1>5. q \in ReqRec /\ q.pc = "write" /\ q.login = l
  <2> HIDE DEF l
  <2> QED  BY <1>3, <1>4 DEF ReqRec, Exclusive
<1>6. req' = [req EXCEPT ![r] = q]
  BY <1>2, <1>3 DEF Inv, ReqInv, ReqRec
<1> HIDE DEF q, l
<1>7. PICK o : o = q
  OBVIOUS
<1>8. Good(o)'
  BY <1>1, <1>3, <1>4, <1>5, <1>7 DEF Good, Exclusive
<1>9. phase = "serving" /\ vouched' \subseteq Logins
  BY <1>1 DEF LoopFree, Inv, MemInv
<1>10. state' = "authenticated" => settings.sess \in vouched'
  BY <1>1 DEF Inv, MemInv
<1> QED  BY <1>1, <1>5, <1>6, <1>7, <1>8, <1>9, <1>10, RequestMoves

LEMMA ManualKeeps ==
  ASSUME Inv, NEW r \in Requests, ManualCalled(r) PROVE Inv'
<1>1. /\ LoopFree /\ req[r].pc = "idle"
      /\ UNCHANGED <<disk, memory, phase, migrated, state, vouched>>
  BY DEF ManualCalled, At, history
<1>2. PICK l \in Logins, f \in Fingers \cup {NoFinger} :
        req' = [req EXCEPT ![r] = [pc |-> "validate", sent |-> l,
                  login |-> [sess |-> l, jct |-> l, finger |-> f]]]
  BY DEF ManualCalled
<1>3. PICK q : q = [pc |-> "validate", sent |-> l,
                    login |-> [sess |-> l, jct |-> l, finger |-> f]]
  OBVIOUS
<1>4. q \in ReqRec
  BY <1>3 DEF ReqRec, Cookies, Value
<1>5. Good(q)'
  BY <1>3 DEF Good, Exclusive
<1>6. phase = "serving" /\ vouched' \subseteq Logins
  BY <1>1 DEF LoopFree, Inv, MemInv
<1>7. state' = "authenticated" => settings.sess \in vouched'
  BY <1>1 DEF Inv, MemInv
<1> QED  BY <1>1, <1>2, <1>3, <1>4, <1>5, <1>6, <1>7, RequestMoves DEF Exclusive

LEMMA RouteKeeps ==
  ASSUME Inv, NEW r \in Requests, RouteCalled(r) PROVE Inv'
<1>1. /\ LoopFree /\ req[r].pc = "idle"
      /\ UNCHANGED <<disk, memory, phase, migrated, state, vouched>>
      /\ req' = [req EXCEPT ![r].pc = "call", ![r].sent = jar.sess]
  BY DEF RouteCalled, At, history
<1>2. req[r] \in ReqRec /\ jar.sess \in Value
  BY DEF Inv, ReqInv, MemInv, Cookies
<1> DEFINE q == [[req[r] EXCEPT !.pc = "call"] EXCEPT !.sent = jar.sess]
<1>3. q \in ReqRec /\ q.pc = "call"
  BY <1>2 DEF ReqRec
<1>4. req' = [req EXCEPT ![r] = q]
  BY <1>1 DEF Inv, ReqInv
<1> HIDE DEF q
<1>5. PICK o : o = q
  OBVIOUS
<1>6. Good(o)'
  BY <1>3, <1>5 DEF Good, Exclusive
<1>7. phase = "serving" /\ vouched' \subseteq Logins
  BY <1>1 DEF LoopFree, Inv, MemInv
<1>8. state' = "authenticated" => settings.sess \in vouched'
  BY <1>1 DEF Inv, MemInv
<1> QED  BY <1>1, <1>3, <1>4, <1>5, <1>6, <1>7, <1>8, RequestMoves DEF Exclusive

(* Every step of a request at an await.                                    *)
LEMMA AwaitKeeps ==
  ASSUME Inv, NEW r \in Requests,
         \/ qr_start(r) \/ PollCalled(r) \/ PollWithoutLogin(r)
         \/ save_cookies_manual(r) \/ ManualRefused(r)
         \/ CheckAccepted(r) \/ CheckRejected(r) \/ CheckFails(r)
         \/ RouteAnswered(r) \/ handle_auth_expired(r)
  PROVE  Inv'
<1>1. LoopFree /\ phase = "serving" /\ req[r].pc # "replaced"
  BY DEF qr_start, PollCalled, PollWithoutLogin, save_cookies_manual, ManualRefused,
     CheckAccepted, CheckRejected, CheckFails, RouteAnswered, handle_auth_expired,
     At, LoopFree, Exclusive
<1>2. /\ vouched \subseteq Logins
      /\ state = "authenticated" => settings.sess \in vouched
      /\ Good(req[r])
  BY DEF Inv, MemInv, ReqInv
<1>3. CASE qr_start(r)
  BY <1>3, SMTT(30) DEF qr_start, Inv, DiskInv, ReqInv, MemInv, Good, InUse, Whole, SettingsOf,
     disk, memory, history
<1>4. CASE PollCalled(r)
  BY <1>1, <1>2, <1>4, RequestGoes DEF PollCalled, history
<1>5. CASE save_cookies_manual(r)
  <2>1. /\ vouched' = vouched \cup {req[r].sent} /\ Goes(r, "write")
        /\ UNCHANGED <<disk, memory, phase, migrated, state>>
        /\ req[r].sent \in Logins /\ req[r].login.jct = req[r].login.sess
        /\ req[r].login.sess = req[r].sent
    BY <1>2, <1>5 DEF save_cookies_manual, At, Accepts, Good
  <2> QED  BY <1>1, <1>2, <2>1, RequestGoes
<1>6. CASE CheckAccepted(r)
  <2>1. /\ vouched' = vouched \cup {req[r].sent} /\ Ends(r)
        /\ UNCHANGED <<disk, memory, phase, migrated>>
        /\ req[r].sent \in Logins /\ settings.sess \in vouched
    BY <1>2, <1>6 DEF CheckAccepted, At, Accepts, Good
  <2> QED  BY <1>1, <1>2, <2>1, RequestEnds
<1>7. CASE \/ PollWithoutLogin(r) \/ ManualRefused(r) \/ CheckFails(r) \/ RouteAnswered(r)
           \/ CheckRejected(r) \/ handle_auth_expired(r)
  <2>1. /\ Ends(r) /\ UNCHANGED <<disk, memory, phase, migrated, vouched>>
        /\ state' = state \/ state' = "expired"
    BY <1>7 DEF PollWithoutLogin, ManualRefused, CheckFails, RouteAnswered, CheckRejected,
       handle_auth_expired, Rejects, history
  <2> QED  BY <1>1, <1>2, <2>1, RequestEnds
<1> QED  BY <1>3, <1>4, <1>5, <1>6, <1>7

-----------------------------------------------------------------------------
(* Steps at the exclusive points: one request is there, all others only    *)
(* rely on the login in use being vouched for.                             *)

LEMMA ExclusiveMoves ==
  ASSUME Inv, NEW r \in Requests, req[r].pc \in Exclusive,
         NEW q \in ReqRec, req' = [req EXCEPT ![r] = q],
         q.pc \in Exclusive \cup {"nav"}, UNCHANGED <<phase, vouched>>,
         settings'.sess \in {settings.sess} \cup vouched, Good(q)'
  PROVE  ReqInv' /\ \A s \in Requests \ {r} : req'[s].pc \notin Exclusive
<1>1. /\ req' \in [Requests -> ReqRec] /\ phase = "serving"
      /\ req'[r] = q /\ \A s \in Requests \ {r} : req'[s] = req[s]
  BY DEF Inv, ReqInv, Exclusive
<1>2. \A s \in Requests \ {r} : req'[s].pc \notin Exclusive
  BY <1>1 DEF Inv, ReqInv
<1>3. ASSUME NEW s \in Requests PROVE Good(req[s])'
  <2>1. CASE s = r
    BY <1>1, <2>1 DEF Good
  <2>2. CASE s # r
    <3>1. PICK o : o = req[s] /\ o = req'[s]
      BY <1>1, <2>2
    <3>2. Good(o) /\ o.pc \notin Exclusive
      BY <1>2, <2>2, <3>1 DEF Inv, ReqInv
    <3>3. Good(o)'
      BY <3>2, GoodOutside
    <3> QED  BY <3>1, <3>3 DEF Good
  <2> QED  BY <2>1, <2>2
<1> QED  BY <1>1, <1>2, <1>3 DEF ReqInv

LEMMA WriteKeeps ==
  ASSUME Inv, NEW r \in Requests, WriteStaging(r) PROVE Inv'
<1>1. /\ req[r].pc = "write" /\ Goes(r, "staged")
      /\ UNCHANGED <<env, legacy, phase, settings, jar, csrf, state, vouched, migrated>>
      /\ staging' = [status |-> "unsynced",
                     lines |-> _update_owned_lines(env.lines, Updates(req[r].login))]
  BY DEF WriteStaging, memory, history
<1>2. PICK q \in ReqRec : /\ req' = [req EXCEPT ![r] = q] /\ q.pc = "staged"
                          /\ q.login = req[r].login /\ q.sent = req[r].sent
  BY <1>1, MovesTo DEF Inv, Exclusive
<1>3. env.lines \in Seq(Line) /\ req[r].login \in Cookies /\ Good(req[r])
  BY FileIs DEF Inv, DiskInv, ReqInv, ReqRec
<1>4. _update_owned_lines(env.lines, Updates(req[r].login)) \in Seq(Line)
  BY <1>3, WriteIs
<1>5. staging' \in File /\ staging'.lines = _update_owned_lines(env.lines, Updates(q.login))
  BY <1>1, <1>2, <1>4, FileIs
<1>6. DiskInv'
  BY <1>1, <1>5 DEF Inv, DiskInv, Whole, SettingsOf
<1>7. Good(q)'
  BY <1>1, <1>2, <1>3, <1>5 DEF Good, Exclusive
<1>8. ReqInv'
  BY <1>1, <1>2, <1>7, ExclusiveMoves DEF Exclusive
<1>9. MemInv'
  <2>1. (\A s \in Requests : req'[s].pc # "replaced") => InUse'
    BY <1>1, <1>2 DEF Inv, ReqInv, MemInv, InUse, SettingsOf
  <2> QED  BY <1>1, <2>1 DEF Inv, MemInv
<1> QED  BY <1>6, <1>8, <1>9 DEF Inv

LEMMA SyncKeeps ==
  ASSUME Inv, NEW r \in Requests, SyncStaging(r) PROVE Inv'
<1>1. /\ req[r].pc = "staged" /\ Goes(r, "synced")
      /\ UNCHANGED <<env, legacy, phase, settings, jar, csrf, state, vouched, migrated>>
      /\ staging' = [staging EXCEPT !.status = "synced"]
  BY DEF SyncStaging, memory, history
<1>2. PICK q \in ReqRec : /\ req' = [req EXCEPT ![r] = q] /\ q.pc = "synced"
                          /\ q.login = req[r].login /\ q.sent = req[r].sent
  BY <1>1, MovesTo DEF Inv, Exclusive
<1>3. Good(req[r])
  BY DEF Inv, ReqInv
<1>4. staging' \in File /\ staging'.lines = staging.lines /\ staging'.status = "synced"
  BY <1>1, FileIs DEF Inv, DiskInv
<1>5. DiskInv'
  BY <1>1, <1>4 DEF Inv, DiskInv, Whole, SettingsOf
<1>6. Good(q)'
  BY <1>1, <1>2, <1>3, <1>4 DEF Good, Exclusive
<1>7. ReqInv'
  BY <1>1, <1>2, <1>6, ExclusiveMoves DEF Exclusive
<1>8. MemInv'
  <2>1. (\A s \in Requests : req'[s].pc # "replaced") => InUse'
    BY <1>1, <1>2 DEF Inv, ReqInv, MemInv, InUse, SettingsOf
  <2> QED  BY <1>1, <2>1 DEF Inv, MemInv
<1> QED  BY <1>5, <1>7, <1>8 DEF Inv

(* The replacement: what .env holds is the login of the request, with the  *)
(* fingerprint it had where the request has none.                          *)
LEMMA ReplaceIs ==
  ASSUME Inv, NEW r \in Requests, ReplaceEnv(r)
  PROVE  /\ env' \in File /\ env'.status = "synced" /\ OthersKept(env.lines, env'.lines)
         /\ SettingsOf(env').sess = req[r].login.sess
         /\ SettingsOf(env').jct = req[r].login.jct
         /\ SettingsOf(env').finger = Kept(req[r].login.finger, SettingsOf(env).finger)
         /\ req[r].login \in Cookies
         /\ req[r].login.jct = req[r].login.sess /\ req[r].login.sess \in vouched
         /\ SettingsOf(env') \in Cookies
<1>1. env' = staging /\ req[r].pc = "synced" /\ Good(req[r])
  BY DEF ReplaceEnv, Inv, ReqInv
<1>2. /\ staging \in File /\ staging.status = "synced" /\ req[r].login \in Cookies
      /\ staging.lines = _update_owned_lines(env.lines, Updates(req[r].login))
      /\ env.lines \in Seq(Line)
      /\ req[r].login.jct = req[r].login.sess /\ req[r].login.sess \in vouched
      /\ SettingsOf(env) \in Cookies
  BY <1>1, FileIs DEF Good, Inv, DiskInv, ReqInv, ReqRec, Exclusive, Whole
<1>3. /\ OthersKept(env.lines, staging.lines)
      /\ ReadKey(staging.lines, "SESSDATA", Empty) = req[r].login.sess
      /\ ReadKey(staging.lines, "BILI_JCT", Empty) = req[r].login.jct
      /\ ReadKey(staging.lines, "BUVID3", NoFinger) =
           Kept(req[r].login.finger, ReadKey(env.lines, "BUVID3", NoFinger))
  BY <1>2, WriteIs
<1>4. /\ SettingsOf(staging).sess = req[r].login.sess
      /\ SettingsOf(staging).jct = req[r].login.jct
      /\ SettingsOf(staging).finger = Kept(req[r].login.finger, SettingsOf(env).finger)
      /\ SettingsOf(staging) \in Cookies
  BY <1>2, <1>3 DEF SettingsOf, Cookies, Kept
<1>5. SettingsOf(env') = SettingsOf(staging)
  BY <1>1
<1> QED  BY <1>1, <1>2, <1>3, <1>4, <1>5

LEMMA ReplaceKeeps ==
  ASSUME Inv, NEW r \in Requests, ReplaceEnv(r) PROVE Inv'
<1>1. /\ req[r].pc = "synced" /\ Goes(r, "replaced")
      /\ UNCHANGED <<legacy, phase, settings, jar, csrf, state, vouched, migrated>>
      /\ staging' = Absent
  BY DEF ReplaceEnv, memory, history
<1>2. PICK q \in ReqRec : /\ req' = [req EXCEPT ![r] = q] /\ q.pc = "replaced"
                          /\ q.login = req[r].login /\ q.sent = req[r].sent
  BY <1>1, MovesTo DEF Inv, Exclusive
<1>3. /\ env' \in File /\ env'.status = "synced"
      /\ SettingsOf(env').sess = q.login.sess
      /\ SettingsOf(env').jct = q.login.jct
      /\ SettingsOf(env').finger = Kept(q.login.finger, SettingsOf(env).finger)
      /\ q.login.jct = q.login.sess /\ q.login.sess \in vouched
      /\ SettingsOf(env') \in Cookies
  BY <1>2, ReplaceIs
<1>4. staging' \in File
  BY <1>1, FileIs DEF Absent
<1>5. DiskInv'
  BY <1>1, <1>3, <1>4 DEF Inv, DiskInv, Whole, SettingsOf
<1>6. /\ phase = "serving"
      /\ \A s \in Requests : req[s].pc # "replaced"
  BY <1>1 DEF Inv, ReqInv, Exclusive
<1>7. migrated = FALSE => settings = SettingsOf(env)
  BY <1>6 DEF Inv, MemInv, InUse
<1>8. Good(q)'
  <2>1. migrated' = FALSE => SettingsOf(env)'.finger = Kept(q.login.finger, settings'.finger)
    BY <1>1, <1>3, <1>7
  <2> QED  BY <1>1, <1>2, <1>3, <2>1 DEF Good, Exclusive
<1>9. ReqInv'
  BY <1>1, <1>2, <1>8, ExclusiveMoves DEF Exclusive
<1>10. req'[r].pc = "replaced"
  BY <1>2 DEF Inv, ReqInv
<1>11. MemInv'
  BY <1>1, <1>10 DEF Inv, MemInv
<1> QED  BY <1>5, <1>9, <1>11 DEF Inv

LEMMA MarkKeeps ==
  ASSUME Inv, NEW r \in Requests, mark_authenticated_after_login(r) PROVE Inv'
<1> DEFINE l == req[r].login
<1>1. /\ req[r].pc = "replaced" /\ UNCHANGED <<disk, phase, state, vouched, migrated>>
      /\ settings' = [l EXCEPT !.finger = Kept(l.finger, settings.finger)]
      /\ jar' = [settings' EXCEPT !.finger = Kept(settings'.finger, jar.finger)]
      /\ csrf' = IF settings'.jct = Empty THEN csrf ELSE settings'.jct
      /\ req' = [req EXCEPT ![r] = [pc |-> "nav", login |-> NoCookies, sent |-> jar'.sess]]
  BY DEF mark_authenticated_after_login, update_cookies
<1>2. /\ l \in Cookies /\ settings \in Cookies /\ jar = settings
      /\ l.jct = l.sess /\ l.sess \in vouched /\ l.sess \in Logins
      /\ SettingsOf(env).sess = l.sess /\ SettingsOf(env).jct = l.jct
      /\ migrated = FALSE => SettingsOf(env).finger = Kept(l.finger, settings.finger)
      /\ SettingsOf(env) \in Cookies
  BY <1>1 DEF Inv, ReqInv, ReqRec, MemInv, Good, Exclusive, DiskInv, Whole
<1> HIDE DEF l
<1>3. /\ settings' \in Cookies /\ settings'.sess = l.sess /\ settings'.jct = l.sess
      /\ settings'.finger = Kept(l.finger, settings.finger)
  BY <1>1, <1>2 DEF Cookies, Kept
<1>4. jar' = settings'
  <2>1. Kept(settings'.finger, jar.finger) = settings'.finger
    BY <1>2, <1>3 DEF Kept
  <2> QED  BY <1>1, <1>3, <2>1 DEF Cookies
<1>5. csrf' = settings'.jct
  BY <1>1, <1>2, <1>3, AuthAssumption
<1>6. InUse'
  <2>1. SettingsOf(env)' = SettingsOf(env)
    BY <1>1 DEF disk
  <2>2. ASSUME migrated = FALSE PROVE settings' = SettingsOf(env)
    BY <1>2, <1>3, <2>2 DEF Cookies
  <2> QED  BY <1>1, <1>2, <1>3, <2>1, <2>2 DEF InUse
<1>7. PICK q : q = [pc |-> "nav", login |-> NoCookies, sent |-> jar'.sess]
  OBVIOUS
<1>8. q \in ReqRec /\ q.pc = "nav" /\ q.sent = l.sess
  <2>1. NoCookies \in Cookies /\ l.sess \in Value
    BY <1>2 DEF NoCookies, Cookies, Value
  <2> QED  BY <1>3, <1>4, <1>7, <2>1 DEF ReqRec
<1>9. Good(q)'
  BY <1>1, <1>2, <1>3, <1>8 DEF Good, Exclusive
<1>10. ReqInv'
  BY <1>1, <1>2, <1>3, <1>7, <1>8, <1>9, ExclusiveMoves DEF Exclusive
<1>11. MemInv'
  <2>1. UNCHANGED <<phase, state, vouched>>
    BY <1>1
  <2>2. phase \in {"down", "starting", "serving"} /\ vouched \subseteq Logins
    BY DEF Inv, MemInv
  <2>3. settings'.sess \in Logins /\ settings'.sess \in vouched
    BY <1>2, <1>3
  <2>4. settings' \in Cookies
    BY <1>3
  <2> QED  BY <1>4, <1>5, <1>6, <2>1, <2>2, <2>3, <2>4 DEF MemInv
<1>12. DiskInv'
  BY <1>1, DiskStays DEF Inv
<1> QED  BY <1>10, <1>11, <1>12 DEF Inv

LEMMA WriteFailsKeeps ==
  ASSUME Inv, NEW r \in Requests, WriteFails(r) PROVE Inv'
<1>1. /\ Ends(r) /\ UNCHANGED <<disk, memory, phase, migrated, vouched, state>>
      /\ req[r].pc \in {"write", "staged"}
  BY DEF WriteFails, history
<1>2. /\ phase = "serving" /\ vouched \subseteq Logins
      /\ state = "authenticated" => settings.sess \in vouched
  BY <1>1 DEF Inv, ReqInv, MemInv
<1> QED  BY <1>1, <1>2, RequestEnds

-----------------------------------------------------------------------------
(* Start-up and stop.                                                      *)

LEMMA EmptyFile ==
  /\ \A f : f.lines = <<>> => SettingsOf(f) = NoCookies
  /\ NoCookies \in Cookies /\ NoCookies.sess = Empty /\ NoCookies.jct = Empty
  /\ Absent \in File /\ Absent.lines = <<>> /\ Absent.status = "absent"
<1>1. \A key, default : ReadKey(<<>>, key, default) = default
  BY DEF ReadKey, Keys
<1>2. <<>> \in Seq(Line)
  OBVIOUS
<1> QED  BY <1>1, <1>2, FileIs DEF SettingsOf, NoCookies, Cookies, Value, Absent

LEMMA IdleKeeps ==
  ASSUME Inv, phase # "serving"
  PROVE  \A r \in Requests : req[r].pc = "idle"
BY DEF Inv, ReqInv

LEMMA BootKeeps == ASSUME Inv, Boot PROVE Inv'
<1>1. /\ phase = "down" /\ settings' = SettingsOf(env)
      /\ jar' = settings' /\ csrf' = settings'.jct /\ state' = "needs_login"
      /\ UNCHANGED <<staging, req, vouched>>
      /\ \/ phase' = "serving"
         \/ phase' = "starting" /\ settings'.sess # Empty
  BY DEF Boot, ClientBuilt, MissingCookie
<1>2. SettingsOf(env) \in Cookies /\ vouched \subseteq Logins
  BY DEF Inv, DiskInv, MemInv, Whole
<1>3. DiskInv' /\ InUse'
  <2>1. CASE migrate_legacy_env
    <3>1. /\ env' = legacy /\ legacy' = Absent /\ migrated' = TRUE
          /\ env.status = "absent" /\ legacy.status # "absent"
      BY <2>1 DEF migrate_legacy_env
    <3>2. SettingsOf(env) = NoCookies
      BY <3>1, EmptyFile DEF Inv, DiskInv
    <3>3. InUse'
      BY <1>1, <3>1, <3>2, EmptyFile DEF InUse
    <3>4. Whole(legacy)'
      BY <3>1, EmptyFile DEF Whole
    <3>5. Whole(env)'
      <4>1. SettingsOf(env)' = SettingsOf(legacy)
        BY <3>1
      <4> QED  BY <1>1, <4>1 DEF Inv, DiskInv, Whole
    <3> QED  BY <1>1, <3>1, <3>3, <3>4, <3>5, EmptyFile DEF Inv, DiskInv
  <2>2. CASE NoMigration
    <3>1. UNCHANGED <<env, legacy, staging, vouched>>
      BY <1>1, <2>2 DEF NoMigration
    <3>2. DiskInv'
      BY <3>1, DiskStays DEF Inv, disk
    <3>3. settings' = SettingsOf(env)'
      BY <1>1, <3>1
    <3> QED  BY <3>2, <3>3 DEF InUse
  <2> QED  BY <2>1, <2>2 DEF Boot
<1>4. ReqInv'
  <2>1. \A r \in Requests : req'[r].pc = "idle"
    BY <1>1, IdleKeeps
  <2>2. \A r \in Requests : Good(req[r])'
    BY <2>1 DEF Good, Exclusive
  <2> QED  BY <1>1, <2>1, <2>2 DEF Inv, ReqInv, Exclusive
<1>5. MemInv'
  <2>1. settings' \in Cookies /\ (settings'.sess # Empty => settings'.sess \in Logins)
    BY <1>1, <1>2 DEF Cookies, Value
  <2> QED  BY <1>1, <1>2, <1>3, <2>1 DEF MemInv
<1> QED  BY <1>3, <1>4, <1>5 DEF Inv

LEMMA StartupKeeps ==
  ASSUME Inv, StartupAccepted \/ StartupRejected PROVE Inv'
<1>1. /\ phase = "starting" /\ phase' = "serving"
      /\ UNCHANGED <<disk, settings, jar, csrf, req, migrated>>
      /\ \/ state' = "authenticated" /\ vouched' = vouched \cup {jar.sess}
         \/ state' = "expired" /\ vouched' = vouched
  BY DEF StartupAccepted, StartupRejected, Accepts, Rejects, memory
<1>2. jar = settings /\ settings.sess \in Logins /\ vouched \subseteq Logins
  BY <1>1 DEF Inv, MemInv
<1>3. DiskInv'
  BY <1>1, DiskStays DEF Inv
<1>4. \A r \in Requests : req'[r].pc = "idle"
  BY <1>1, IdleKeeps
<1>5. ReqInv'
  <2>1. \A r \in Requests : Good(req[r])'
    BY <1>4 DEF Good, Exclusive
  <2> QED  BY <1>1, <1>4, <2>1 DEF Inv, ReqInv, Exclusive
<1>6. InUse'
  <2>1. InUse
    BY <1>1, <1>4 DEF Inv, MemInv
  <2> QED  BY <1>1, <2>1 DEF InUse, disk, SettingsOf
<1>7. MemInv'
  BY <1>1, <1>2, <1>6 DEF Inv, MemInv
<1> QED  BY <1>3, <1>5, <1>7 DEF Inv

LEMMA StopKeeps == ASSUME Inv, Stop PROVE Inv'
<1>1. /\ phase' = "down" /\ req' = [r \in Requests |-> Idle]
      /\ settings' = NoCookies /\ jar' = NoCookies /\ csrf' = Empty
      /\ state' = "needs_login" /\ UNCHANGED <<legacy, vouched>>
      /\ env' \in AfterStop(env) /\ staging' \in AfterStop(staging)
  BY DEF Stop
<1>2. env' = env
  BY <1>1 DEF AfterStop, Inv, DiskInv
<1>3. staging' \in File
  <2>1. \A f \in File : [f EXCEPT !.lines = <<>>] \in File
    <3>1. <<>> \in Seq(Line)
      OBVIOUS
    <3> QED  BY <3>1, FileIs
  <2> QED  BY <1>1, <2>1 DEF AfterStop, Inv, DiskInv
<1>4. DiskInv'
  BY <1>1, <1>2, <1>3 DEF Inv, DiskInv, Whole
<1>5. ReqInv'
  <2>1. \A r \in Requests : req'[r] = Idle /\ req'[r].pc = "idle"
    BY <1>1, IdleIs
  <2>2. \A r \in Requests : Good(req[r])'
    BY <2>1 DEF Good, Exclusive
  <2>3. req' \in [Requests -> ReqRec]
    BY <1>1, IdleIs
  <2> QED  BY <2>1, <2>2, <2>3 DEF ReqInv, Exclusive
<1>6. MemInv'
  BY <1>1, EmptyFile DEF Inv, MemInv
<1> QED  BY <1>4, <1>5, <1>6 DEF Inv

LEMMA UnchangedKeeps ==
  ASSUME Inv, UNCHANGED <<disk, phase, memory, state, req, history>> PROVE Inv'
<1>1. DiskInv'
  BY DiskStays DEF Inv, history
<1>2. UNCHANGED <<env, staging, settings, jar, csrf, phase, state, req, vouched, migrated>>
  BY DEF disk, memory, history
<1>3. ReqInv'
  BY <1>2 DEF Inv, ReqInv, Good, SettingsOf
<1>4. MemInv'
  BY <1>2 DEF Inv, MemInv, InUse, SettingsOf
<1> QED  BY <1>1, <1>3, <1>4 DEF Inv

LEMMA NextInv == Inv /\ [Next]_vars => Inv'
<1> SUFFICES ASSUME Inv, [Next]_vars PROVE Inv'
  OBVIOUS
<1>1. CASE QrExpires \/ UNCHANGED vars
  BY <1>1, UnchangedKeeps DEF QrExpires, vars
<1>2. ASSUME NEW l \in Logins, Confirm(l) \/ Revoke(l) PROVE Inv'
  BY <1>2, UnchangedKeeps DEF Confirm, Revoke
<1>3. ASSUME NEW r \in Requests, Login(r) \/ Session(r) PROVE Inv'
  BY <1>3, AwaitKeeps, PollKeeps, FingerprintKeeps, ManualKeeps, RouteKeeps, WriteKeeps,
     SyncKeeps, ReplaceKeeps, MarkKeeps, WriteFailsKeeps DEF Login, Session
<1> QED  BY <1>1, <1>2, <1>3, BootKeeps, StartupKeeps, StopKeeps DEF Next

LEMMA InitInv == Init => Inv
<1> SUFFICES ASSUME Init PROVE Inv
  OBVIOUS
<1>1. ASSUME NEW f \in Files \cup {Absent}
      PROVE  /\ f \in File /\ f.status # "unsynced" /\ Whole(f)
             /\ f.status = "absent" => f.lines = <<>>
  <2>1. CASE f = Absent
    BY <2>1, EmptyFile DEF Whole
  <2>2. CASE f \in Files
    <3>1. f.status = "synced" /\ f \in File
      BY <2>2, StartAssumption DEF Files
    <3>2. SettingsOf(f).sess \in StartLogins \cup {Empty}
      BY <2>2 DEF StartLogins
    <3> QED  BY <2>2, <3>1, <3>2, StartAssumption DEF Whole
  <2> QED  BY <2>1, <2>2
<1>2. DiskInv
  BY <1>1, EmptyFile DEF Init, DiskInv
<1>3. ReqInv
  <2>1. \A r \in Requests : req[r] = Idle /\ req[r].pc = "idle" /\ Good(req[r])
    BY IdleIs DEF Init
  <2> QED  BY <2>1, IdleIs DEF Init, ReqInv, Exclusive
<1>4. MemInv
  BY EmptyFile DEF Init, MemInv
<1> QED  BY <1>2, <1>3, <1>4 DEF Inv

Known == migrated \in BOOLEAN

LEMMA NextKnown == Known /\ [Next]_vars => Known'
  BY DEF Known, Next, Boot, migrate_legacy_env, NoMigration, StartupAccepted, StartupRejected,
     Stop, QrExpires, Confirm, Revoke, Login, Session, qr_start, PollCalled,
     PollWithoutLogin, PollSucceeds, QrFingerprint, ManualCalled, save_cookies_manual,
     ManualRefused, WriteStaging, SyncStaging, ReplaceEnv, WriteFails,
     mark_authenticated_after_login, CheckAccepted, CheckRejected, CheckFails,
     RouteCalled, RouteAnswered, handle_auth_expired, history, vars

LEMMA InitKnown == Init => Known
BY DEF Init, Known

-----------------------------------------------------------------------------
(* The results.                                                            *)

(* For any number of overlapping logins, and a stop of the machine at any  *)
(* point of the write: the next start finds both cookies of one login that *)
(* Bilibili vouched for, or of the first file, or none.                    *)
THEOREM StoredPairCorrect == Spec => []StoredPairIsWhole
<1>1. Inv => StoredPairIsWhole
  BY DEF Inv, DiskInv, Whole, StoredPairIsWhole
<1> QED  BY <1>1, InitInv, NextInv, PTL DEF Spec

(* Between two steps of the event loop the settings, the client's cookies  *)
(* and its write token are those a restart would read.                     *)
THEOREM InUseCorrect == Spec => []LoginInUseIsStored
<1>1. Inv /\ Known => LoginInUseIsStored
  <2> SUFFICES ASSUME Inv, Known, LoopFree
               PROVE  /\ jar = settings
                      /\ csrf = settings.jct
                      /\ ~migrated => settings = SettingsOf(env)
                      /\ settings.sess # Empty => settings.sess = SettingsOf(env).sess
    BY DEF LoginInUseIsStored
  <2>1. jar = settings /\ csrf = settings.jct
    BY DEF Inv, MemInv
  <2>2. phase # "down" /\ \A r \in Requests : req[r].pc # "replaced"
    BY DEF LoopFree, Exclusive
  <2>3. InUse
    BY <2>2 DEF Inv, MemInv
  <2>4. ~migrated => migrated = FALSE
    BY Zenon DEF Known
  <2> QED  BY <2>1, <2>3, <2>4, Zenon DEF InUse
<1> QED  BY <1>1, InitInv, NextInv, InitKnown, NextKnown, PTL DEF Spec

(* The state only says "authenticated" when the cookies in use are ones    *)
(* Bilibili granted or accepted, however late an answer arrives.           *)
THEOREM VouchedCorrect == Spec => []AuthenticatedIsVouched
<1>1. Inv => AuthenticatedIsVouched
  BY DEF Inv, MemInv, AuthenticatedIsVouched
<1> QED  BY <1>1, InitInv, NextInv, PTL DEF Spec

(* Only a start that finds no .env and the replacement at the end of a     *)
(* write change .env.                                                      *)
LEMMA EnvChanges ==
  ASSUME Inv, [Next]_vars, env' # env
  PROVE  migrate_legacy_env \/ \E r \in Requests : ReplaceEnv(r)
<1>1. CASE Boot
  BY <1>1 DEF Boot, NoMigration
<1>2. CASE Stop
  BY <1>2 DEF Stop, AfterStop, Inv, DiskInv
<1>3. CASE StartupAccepted \/ StartupRejected \/ QrExpires
           \/ \E l \in Logins : Confirm(l) \/ Revoke(l)
  BY <1>3 DEF StartupAccepted, StartupRejected, QrExpires, Confirm, Revoke, disk
<1>4. ASSUME NEW r \in Requests, Login(r) \/ Session(r) PROVE ReplaceEnv(r)
  BY <1>4 DEF Login, Session, qr_start, PollCalled, PollWithoutLogin, PollSucceeds,
     QrFingerprint, ManualCalled, save_cookies_manual, ManualRefused, WriteStaging,
     SyncStaging, WriteFails, mark_authenticated_after_login, CheckAccepted,
     CheckRejected, CheckFails, RouteCalled, RouteAnswered, handle_auth_expired, disk
<1>5. Next
  BY DEF vars, disk
<1> QED  BY <1>1, <1>2, <1>3, <1>4, <1>5 DEF Next

(* A stored login is only ever replaced by one Bilibili vouched for, and   *)
(* the lines write_env_atomic does not own stay what and where they are:   *)
(* for any file, any overlap of logins and a stop at any point.            *)
THEOREM StoredLoginCorrect == Spec => StoredLoginSafe
<1> DEFINE A == /\ SettingsOf(env).sess # Empty =>
                     SettingsOf(env').sess \in {SettingsOf(env).sess} \cup vouched'
                /\ env.status # "absent" => OthersKept(env.lines, env'.lines)
<1>1. ASSUME Inv, [Next]_vars PROVE [A]_env
  <2> SUFFICES ASSUME env' # env PROVE A
    OBVIOUS
  <2>1. CASE migrate_legacy_env
    <3>1. env.status = "absent"
      BY <2>1 DEF migrate_legacy_env
    <3>2. SettingsOf(env).sess = Empty
      BY <1>1, <3>1, EmptyFile DEF Inv, DiskInv
    <3> QED  BY <3>1, <3>2
  <2>2. ASSUME NEW r \in Requests, ReplaceEnv(r) PROVE A
    <3>1. vouched' = vouched
      BY <2>2 DEF ReplaceEnv, history
    <3> QED  BY <1>1, <2>2, <3>1, ReplaceIs
  <2> QED  BY <1>1, <2>1, <2>2, EnvChanges
<1> HIDE DEF A
<1>2. StoredLoginSafe <=> [][A]_env
  BY PTL DEF StoredLoginSafe, A
<1> QED  BY <1>1, <1>2, InitInv, NextInv, PTL DEF Spec

LEMMA RejectedAnswer ==
  ASSUME Inv, NEW r \in Requests, req[r].pc \in AwaitingAnswer, Rejects(req[r].sent), Ends(r)
  PROVE  rejected' \/ LateAnswer
<1>1. CASE req[r].sent = jar.sess
  BY <1>1, Zenon DEF Rejects
<1>2. CASE req[r].sent # jar.sess
  <2>1. req'[r].pc = "idle"
    BY IdleIs DEF Ends, Inv, ReqInv
  <2>2. req[r].sent # settings.sess
    BY <1>2 DEF Inv, MemInv
  <2> QED  BY <2>1, <2>2 DEF LateAnswer
<1> QED  BY <1>1, <1>2

(* The user is only logged out by an error answer of Bilibili to the       *)
(* cookies in use or by a late answer about earlier ones.                  *)
THEOREM ExpiryCorrect == Spec => ExpiresOnlyIfRejected
<1> DEFINE A == state # "expired" /\ state' = "expired" => rejected' \/ LateAnswer
<1>1. ASSUME Inv, [Next]_vars PROVE [A]_vars
  <2> SUFFICES ASSUME Next, state # "expired", state' = "expired"
               PROVE  rejected' \/ LateAnswer
    BY <1>1
  <2>1. CASE StartupRejected
    BY <2>1, Zenon DEF StartupRejected, Rejects
  <2>2. ASSUME NEW r \in Requests, CheckRejected(r) \/ handle_auth_expired(r)
        PROVE  rejected' \/ LateAnswer
    BY <1>1, <2>2, RejectedAnswer DEF CheckRejected, handle_auth_expired, At, AwaitingAnswer
  <2>3. CASE Boot \/ Stop \/ StartupAccepted \/ QrExpires
             \/ \E l \in Logins : Confirm(l) \/ Revoke(l)
    BY <2>3 DEF Boot, Stop, StartupAccepted, QrExpires, Confirm, Revoke
  <2>4. ASSUME NEW r \in Requests, Login(r) \/ Session(r)
        PROVE  CheckRejected(r) \/ handle_auth_expired(r)
    BY <2>4 DEF Login, Session, qr_start, PollCalled, PollWithoutLogin, PollSucceeds,
       QrFingerprint, ManualCalled, save_cookies_manual, ManualRefused, WriteStaging,
       SyncStaging, ReplaceEnv, WriteFails, mark_authenticated_after_login, CheckAccepted,
       CheckFails, RouteCalled, RouteAnswered
  <2> QED  BY <2>1, <2>2, <2>3, <2>4 DEF Next
<1> HIDE DEF A
<1>2. ExpiresOnlyIfRejected <=> [][A]_vars
  BY PTL DEF ExpiresOnlyIfRejected, A
<1> QED  BY <1>1, <1>2, InitInv, NextInv, PTL DEF Spec

=============================================================================
