------------------------------- MODULE AuthFlow ------------------------------
(***************************************************************************)
(* Logging in: the QR and the pasted-cookie flow (bilibili/auth.py,        *)
(* api/auth_routes.py), the login state (auth/session.py), the cookies the *)
(* long-lived client sends (bilibili/client.py), the settings they come    *)
(* from (config.py) and start-up (main.py), over crashes and restarts.     *)
(*                                                                         *)
(* Handlers interleave at every await.  write_env_atomic and the update of *)
(* settings and cookie jar run without one, so while a request is at one   *)
(* of the Exclusive points no other coroutine moves; the machine may still *)
(* stop there.                                                             *)
(*                                                                         *)
(* A login is one SESSDATA / bili_jct pair: both cookies of login l have   *)
(* the value l.  Empty is the empty string, NoFinger is BUVID3 = None.     *)
(***************************************************************************)
EXTENDS EnvFile

CONSTANTS
  Requests,    \* bound: HTTP requests in progress at once
  Logins,      \* logins that exist or may be granted
  Fingers,     \* device fingerprints (buvid3)
  StartFiles,  \* line sequences .env may hold at first, or the legacy file
  Empty, NoFinger

Value == Logins \cup {Empty}

ASSUME AuthAssumption ==
  /\ Empty \notin Logins
  /\ NoFinger \notin Fingers

VARIABLES
  env,       \* <repo>/.env
  staging,   \* .env.tmp
  legacy,    \* <repo>/backend/.env, left by an older release
  phase,     \* the process: "down", "starting" (lifespan) or "serving"
  settings,  \* the Settings singleton: [sess, jct, finger]
  jar,       \* cookies of the shared BilibiliClient: [sess, jct, finger]
  csrf,      \* its _csrf_token
  state,     \* auth_session.state
  req,       \* requests in progress: [pc, login, finger, sent]
  server,    \* Bilibili's view of each login
  qr,        \* Bilibili's view of the QR code
  vouched,   \* history: logins Bilibili granted or accepted
  rejected,  \* history: it answered the login in use with a non-zero code
  migrated   \* history: this process moved the legacy file

disk    == <<env, staging, legacy>>
memory  == <<settings, jar, csrf>>
remote  == <<server, qr>>
history == <<vouched, rejected, migrated>>
vars    == <<disk, phase, memory, state, req, remote, history>>

Absent == [status |-> "absent", lines |-> <<>>]

NoCookies == [sess |-> Empty, jct |-> Empty, finger |-> NoFinger]

Idle == [pc |-> "idle", login |-> NoCookies, sent |-> Empty]

Exclusive == {"write", "staged", "synced", "replaced"}

AwaitingAnswer == {"nav", "call"}

LoopFree == phase = "serving" /\ \A r \in Requests : req[r].pc \notin Exclusive

Goes(r, to) == req' = [req EXCEPT ![r].pc = to]

Ends(r) == req' = [req EXCEPT ![r] = Idle]

At(r, pc) == LoopFree /\ req[r].pc = pc

-----------------------------------------------------------------------------
(* Start-up *)

(* Settings(): what the process reads from .env when it is imported.       *)
SettingsOf(file) ==
  [sess   |-> ReadKey(file.lines, "SESSDATA", Empty),
   jct    |-> ReadKey(file.lines, "BILI_JCT", Empty),
   finger |-> ReadKey(file.lines, "BUVID3", NoFinger)]

(* The legacy file is moved, unless there is a target.                     *)
migrate_legacy_env ==
  /\ legacy.status # "absent"
  /\ env.status = "absent"
  /\ env' = legacy
  /\ legacy' = Absent
  /\ migrated' = TRUE

(* No legacy file, a target already present, a packaged release, or the    *)
(* move failed.                                                            *)
NoMigration == UNCHANGED <<env, legacy>> /\ migrated' = FALSE

(* The shared BilibiliClient takes its cookies and token from settings.    *)
ClientBuilt == jar' = settings' /\ csrf' = settings'.jct

MissingCookie == Empty \in {settings'.sess, settings'.jct}

(* The modules are imported, then lifespan runs up to check_on_startup's   *)
(* request: without both cookies there is none.                            *)
Boot ==
  /\ phase = "down"
  /\ settings' = SettingsOf(env)
  /\ ClientBuilt
  /\ state' = "needs_login"
  /\ phase' = IF MissingCookie THEN "serving" ELSE "starting"
  /\ migrate_legacy_env \/ NoMigration
  /\ UNCHANGED <<staging, req, remote, vouched, rejected>>

(* /nav answers a request that carried login l: its user record, or a      *)
(* non-zero code, which the client turns into None whatever the code is.   *)
Accepts(l) == server[l] = "valid" /\ vouched' = vouched \cup {l}
                                  /\ UNCHANGED rejected
Rejects(l) == rejected' = (rejected \/ l = jar.sess) /\ UNCHANGED vouched

StartupAccepted ==
  /\ phase = "starting"
  /\ Accepts(jar.sess)
  /\ state' = "authenticated"
  /\ phase' = "serving"
  /\ UNCHANGED <<disk, memory, req, remote, migrated>>

StartupRejected ==
  /\ phase = "starting"
  /\ Rejects(jar.sess)
  /\ state' = "expired"
  /\ phase' = "serving"
  /\ UNCHANGED <<disk, memory, req, remote, migrated>>

(* A network error leaves lifespan, or the machine stops at any point:     *)
(* file data that was not synced may be lost.                              *)
AfterStop(file) == IF file.status = "unsynced"
                     THEN {file, [file EXCEPT !.lines = <<>>]} ELSE {file}

Stop ==
  /\ phase # "down"
  /\ phase' = "down"
  /\ env' \in AfterStop(env)
  /\ staging' \in AfterStop(staging)
  /\ req' = [r \in Requests |-> Idle]
  /\ settings' = NoCookies
  /\ jar' = NoCookies
  /\ csrf' = Empty
  /\ state' = "needs_login"
  /\ rejected' = FALSE
  /\ migrated' = FALSE
  /\ UNCHANGED <<legacy, remote, vouched>>

-----------------------------------------------------------------------------
(* Bilibili and the user's phone *)

(* Scanned and confirmed in the app: a fresh login is granted.             *)
Confirm(l) ==
  /\ qr = "pending"
  /\ server[l] = "unissued"
  /\ server' = [server EXCEPT ![l] = "valid"]
  /\ qr' = l
  /\ UNCHANGED <<disk, phase, memory, state, req, history>>

QrExpires ==
  /\ qr = "pending"
  /\ qr' = "expired"
  /\ UNCHANGED <<disk, phase, memory, state, req, server, history>>

Revoke(l) ==
  /\ server[l] = "valid"
  /\ server' = [server EXCEPT ![l] = "revoked"]
  /\ UNCHANGED <<disk, phase, memory, state, req, qr, history>>

-----------------------------------------------------------------------------
(* QR login *)

(* A usable answer carries a new code; any other one raises.               *)
qr_generate == qr' = "pending" /\ UNCHANGED server

qr_start(r) ==
  /\ At(r, "idle")
  /\ qr_generate
  /\ UNCHANGED <<disk, phase, memory, state, req, history>>

PollCalled(r) ==
  /\ At(r, "idle")
  /\ qr # "none"
  /\ Goes(r, "poll")
  /\ UNCHANGED <<disk, phase, memory, state, remote, history>>

(* Codes 86101, 86090 and 86038, an unknown code, a network error, or      *)
(* success with a cookie missing: nothing changes.                         *)
PollWithoutLogin(r) ==
  /\ At(r, "poll")
  /\ Ends(r)
  /\ UNCHANGED <<disk, phase, memory, state, remote, history>>

(* Each cookie is taken from Set-Cookie, else from data.url.               *)
_capture_success_cookies(l, setCookie, dataUrl) ==
  [sess   |-> IF "sess" \in setCookie \cup dataUrl THEN l ELSE Empty,
   jct    |-> IF "jct" \in setCookie \cup dataUrl THEN l ELSE Empty,
   finger |-> NoFinger]

(* Faulty variant: a missing bili_jct is not noticed. *)
PollTrusting(r) ==
  /\ At(r, "poll")
  /\ qr \in Logins
  /\ \E setCookie, dataUrl \in SUBSET {"sess", "jct"} :
       LET got == _capture_success_cookies(qr, setCookie, dataUrl)
       IN /\ got.sess # Empty
          /\ req' = [req EXCEPT ![r].pc = "spi", ![r].login = got]
  /\ vouched' = vouched \cup {qr}
  /\ UNCHANGED <<disk, phase, memory, state, remote, rejected, migrated>>

(* Code 0 with both cookies; the fingerprint is fetched next.              *)
PollSucceeds(r) ==
  /\ At(r, "poll")
  /\ qr \in Logins
  /\ \E setCookie, dataUrl \in SUBSET {"sess", "jct"} :
       LET got == _capture_success_cookies(qr, setCookie, dataUrl)
       IN /\ Empty \notin {got.sess, got.jct}
          /\ req' = [req EXCEPT ![r].pc = "spi", ![r].login = got]
  /\ vouched' = vouched \cup {qr}
  /\ UNCHANGED <<disk, phase, memory, state, remote, rejected, migrated>>

(* fetch_buvid3 answers, or fails and gives None; write_env_atomic starts. *)
QrFingerprint(r) ==
  /\ At(r, "spi")
  /\ \E f \in Fingers \cup {NoFinger} :
       req' = [req EXCEPT ![r].pc = "write", ![r].login.finger = f]
  /\ UNCHANGED <<disk, phase, memory, state, remote, history>>

-----------------------------------------------------------------------------
(* Pasted cookies *)

(* manual_cookies: a missing buvid3 is fetched first; the pair is then     *)
(* checked on a one-shot client.                                           *)
ManualCalled(r) ==
  /\ At(r, "idle")
  /\ \E l \in Logins, f \in Fingers \cup {NoFinger} :
       req' = [req EXCEPT ![r] = [pc |-> "validate", sent |-> l,
                     login |-> [sess |-> l, jct |-> l, finger |-> f]]]
  /\ UNCHANGED <<disk, phase, memory, state, remote, history>>

(* Faulty variant: the cookies are stored whatever /nav says. *)
ManualUnchecked(r) ==
  /\ At(r, "validate")
  /\ Goes(r, "write")
  /\ UNCHANGED <<disk, phase, memory, state, remote, history>>

save_cookies_manual(r) ==
  /\ At(r, "validate")
  /\ Accepts(req[r].sent)
  /\ Goes(r, "write")
  /\ UNCHANGED <<disk, phase, memory, state, remote, migrated>>

(* /nav has no user record for them (400), or the request failed (500).    *)
ManualRefused(r) ==
  /\ At(r, "validate")
  /\ Ends(r)
  /\ UNCHANGED <<disk, phase, memory, state, remote, history>>

-----------------------------------------------------------------------------
(* write_env_atomic *)

(* buvid3 = None leaves the BUVID3 line alone.                             *)
Updates(login) ==
  [k \in {"SESSDATA", "BILI_JCT"} \cup
         (IF login.finger = NoFinger THEN {} ELSE {"BUVID3"}) |->
     CASE k = "SESSDATA" -> login.sess
       [] k = "BILI_JCT" -> login.jct
       [] k = "BUVID3"   -> login.finger]

(* Faulty variant: .env itself is opened for writing. *)
WriteInPlace(r) ==
  /\ req[r].pc = "write"
  /\ env' = [status |-> "unsynced",
             lines |-> _update_owned_lines(env.lines, Updates(req[r].login))]
  /\ staging' = env'
  /\ Goes(r, "staged")
  /\ UNCHANGED <<legacy, phase, memory, state, remote, history>>

WriteStaging(r) ==
  /\ req[r].pc = "write"
  /\ staging' = [status |-> "unsynced",
                 lines |-> _update_owned_lines(env.lines,
                                               Updates(req[r].login))]
  /\ Goes(r, "staged")
  /\ UNCHANGED <<env, legacy, phase, memory, state, remote, history>>

SyncStaging(r) ==
  /\ req[r].pc = "staged"
  /\ staging' = [staging EXCEPT !.status = "synced"]
  /\ Goes(r, "synced")
  /\ UNCHANGED <<env, legacy, phase, memory, state, remote, history>>

ReplaceEnv(r) ==
  /\ req[r].pc = "synced"
  /\ env' = staging
  /\ staging' = Absent
  /\ Goes(r, "replaced")
  /\ UNCHANGED <<legacy, phase, memory, state, remote, history>>

(* OSError while staging: the request fails, .env is as it was.            *)
WriteFails(r) ==
  /\ req[r].pc \in {"write", "staged"}
  /\ Ends(r)
  /\ UNCHANGED <<disk, phase, memory, state, remote, history>>

-----------------------------------------------------------------------------
(* AuthSession *)

Kept(finger, old) == IF finger = NoFinger THEN old ELSE finger

(* Faulty variant: the write token of the long-lived client is not renewed. *)
update_cookies_jar_only ==
  /\ jar' = [settings' EXCEPT !.finger = Kept(settings'.finger, jar.finger)]
  /\ UNCHANGED csrf

(* Cookies are replaced one by one; a missing buvid3 stays as it was.      *)
update_cookies ==
  /\ jar' = [settings' EXCEPT !.finger = Kept(settings'.finger, jar.finger)]
  /\ csrf' = IF settings'.jct = Empty THEN csrf ELSE settings'.jct

(* Live settings and cookies, up to check_on_startup's /nav request.       *)
mark_authenticated_after_login(r) ==
  /\ req[r].pc = "replaced"
  /\ settings' = [req[r].login EXCEPT
                    !.finger = Kept(req[r].login.finger, settings.finger)]
  /\ update_cookies
  /\ req' = [req EXCEPT ![r] = [pc |-> "nav", login |-> NoCookies,
                               sent |-> jar'.sess]]
  /\ rejected' = FALSE
  /\ UNCHANGED <<disk, phase, state, remote, vouched, migrated>>

CheckAccepted(r) ==
  /\ At(r, "nav")
  /\ Accepts(req[r].sent)
  /\ state' = "authenticated"
  /\ Ends(r)
  /\ UNCHANGED <<disk, phase, memory, remote, migrated>>

CheckRejected(r) ==
  /\ At(r, "nav")
  /\ Rejects(req[r].sent)
  /\ state' = "expired"
  /\ Ends(r)
  /\ UNCHANGED <<disk, phase, memory, remote, migrated>>

(* Faulty variant: an unreachable /nav counts as an expired login. *)
CheckFailsExpired(r) ==
  /\ At(r, "nav")
  /\ state' = "expired"
  /\ Ends(r)
  /\ UNCHANGED <<disk, phase, memory, remote, history>>

(* A network error: the route logs it and still reports success.           *)
CheckFails(r) ==
  /\ At(r, "nav")
  /\ Ends(r)
  /\ UNCHANGED <<disk, phase, memory, state, remote, history>>

(* /auth/me, or any room or ban route: require_authenticated holds and a   *)
(* request goes out with the cookies of the moment.                        *)
RouteCalled(r) ==
  /\ At(r, "idle")
  /\ state = "authenticated"
  /\ req' = [req EXCEPT ![r].pc = "call", ![r].sent = jar.sess]
  /\ UNCHANGED <<disk, phase, memory, state, remote, history>>

RouteAnswered(r) ==
  /\ At(r, "call")
  /\ Ends(r)
  /\ UNCHANGED <<disk, phase, memory, state, remote, history>>

(* handle_auth_expired; the callbacks are RoomLifecycle's AuthExpires.     *)
handle_auth_expired(r) ==
  /\ At(r, "call")
  /\ Rejects(req[r].sent)
  /\ state' = "expired"
  /\ Ends(r)
  /\ UNCHANGED <<disk, phase, memory, remote, migrated>>

-----------------------------------------------------------------------------
File == [status : {"absent", "unsynced", "synced"},
         lines : Seq([key : OwnedKeys \cup {"other"},
                      val : Value \cup Fingers \cup {NoFinger}])]

Files == {[status |-> "synced", lines |-> l] : l \in StartFiles}

StartLogins == {SettingsOf(f).sess : f \in Files} \ {Empty}

Cookies == [sess : Value, jct : Value, finger : Fingers \cup {NoFinger}]

(* A user completes the example file with both cookies of a login, or with *)
(* none.                                                                   *)
ASSUME StartAssumption ==
  /\ Files \subseteq File
  /\ \A f \in Files : /\ SettingsOf(f) \in Cookies
                      /\ SettingsOf(f).sess = SettingsOf(f).jct

(* The first start after an installation or an upgrade.                    *)
Init ==
  /\ env \in Files \cup {Absent}
  /\ legacy \in Files \cup {Absent}
  /\ staging = Absent
  /\ phase = "down"
  /\ settings = NoCookies
  /\ jar = NoCookies
  /\ csrf = Empty
  /\ state = "needs_login"
  /\ req = [r \in Requests |-> Idle]
  /\ server = [l \in Logins |-> IF l \in StartLogins THEN "valid"
                                                    ELSE "unissued"]
  /\ qr = "none"
  /\ vouched = {}
  /\ rejected = FALSE
  /\ migrated = FALSE

Login(r) ==
  \/ qr_start(r) \/ PollCalled(r) \/ PollWithoutLogin(r) \/ PollSucceeds(r)
  \/ QrFingerprint(r)
  \/ ManualCalled(r) \/ save_cookies_manual(r) \/ ManualRefused(r)
  \/ WriteStaging(r) \/ SyncStaging(r) \/ ReplaceEnv(r) \/ WriteFails(r)
  \/ mark_authenticated_after_login(r)

Session(r) ==
  \/ CheckAccepted(r) \/ CheckRejected(r) \/ CheckFails(r)
  \/ RouteCalled(r) \/ RouteAnswered(r) \/ handle_auth_expired(r)

Next ==
  \/ Boot \/ StartupAccepted \/ StartupRejected \/ Stop
  \/ QrExpires
  \/ \E l \in Logins : Confirm(l) \/ Revoke(l)
  \/ \E r \in Requests : Login(r) \/ Session(r)

Spec == Init /\ [][Next]_vars

-----------------------------------------------------------------------------
(* Type invariant of the login flow's state. *)
TypeOK ==
  /\ env \in File
  /\ staging \in File
  /\ legacy \in File
  /\ phase \in {"down", "starting", "serving"}
  /\ settings \in Cookies
  /\ jar \in Cookies
  /\ csrf \in Value
  /\ state \in {"needs_login", "authenticated", "expired"}
  /\ req \in [Requests -> [pc : {"idle", "poll", "spi", "validate", "nav", "call"}
                                  \cup Exclusive,
                            login : Cookies, sent : Value]]
  /\ server \in [Logins -> {"unissued", "valid", "revoked"}]
  /\ qr \in {"none", "pending", "expired"} \cup Logins
  /\ vouched \in SUBSET Logins
  /\ rejected \in BOOLEAN
  /\ migrated \in BOOLEAN

(* Whatever was interrupted, and however logins overlapped, the next start *)
(* finds the two cookies of one login in .env: never half a credential     *)
(* set (LoginIncompleteError), never a pair Bilibili did not vouch for.    *)
StoredPairIsWhole ==
  LET stored == SettingsOf(env)
  IN /\ stored.sess = stored.jct
     /\ stored.sess \in vouched \cup StartLogins \cup {Empty}

(* A stored login is only ever replaced by one Bilibili vouched for, and   *)
(* lines write_env_atomic does not own stay as they are: not by a crash    *)
(* before, during or after the replacement, nor by a legacy file.          *)
StoredLoginSafe ==
  [][/\ SettingsOf(env).sess # Empty =>
          SettingsOf(env').sess \in {SettingsOf(env).sess} \cup vouched'
     /\ env.status # "absent" => OthersKept(env.lines, env'.lines)]_env

(* Between two steps of the event loop the settings, the client's cookies  *)
(* and its CSRF token are those a restart would read from .env, whichever  *)
(* of several logins came last: a ban is never signed with the token of a  *)
(* previous login.  A legacy file moved by this process is not in use      *)
(* until a login replaces it.                                              *)
LoginInUseIsStored ==
  LoopFree =>
    /\ jar = settings
    /\ csrf = settings.jct
    /\ ~migrated => settings = SettingsOf(env)
    /\ settings.sess # Empty => settings.sess = SettingsOf(env).sess

(* The state only says "authenticated" when the cookies in use are ones    *)
(* Bilibili granted or accepted, also when an answer about earlier cookies *)
(* arrives late.                                                           *)
AuthenticatedIsVouched ==
  LoopFree /\ state = "authenticated" => settings.sess \in vouched

(* An answer about cookies that a later login has replaced.                *)
LateAnswer ==
  \E r \in Requests : /\ req[r].pc \in AwaitingAnswer
                      /\ req[r].sent # settings.sess
                      /\ req'[r].pc = "idle"

(* The user is only logged out by an error answer of Bilibili to the       *)
(* cookies in use, never by a network failure, a refused login or a        *)
(* restart.  The exception is a late answer, which the code applies to     *)
(* whatever login is in use by then.                                       *)
ExpiresOnlyIfRejected ==
  [][state # "expired" /\ state' = "expired" => rejected' \/ LateAnswer]_vars

(* "On the first boot of the fixed build, lift any pre-existing            *)
(* backend/.env into <repo>/.env so users who already QR-scanned once      *)
(* don't have to re-scan after the upgrade": a process that serves uses    *)
(* the login stored in .env.                                               *)
NoRescanAfterUpgrade ==
  LoopFree => settings.sess = SettingsOf(env).sess
=============================================================================
