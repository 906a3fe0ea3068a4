------------------------------- MODULE Access -------------------------------
(***************************************************************************)
(* Who is let in: the login and guest handlers (backend/login.py), session *)
(* tokens and the middleware in front of every route (backend/session.py)  *)
(* and the password test (backend/auth.py), over the users table of an     *)
(* external database whose rows another program writes too.                *)
(*                                                                         *)
(* login_post awaits nothing, so the event loop runs no other handler      *)
(* beside it; but it is several statements in autocommit mode, and time,   *)
(* the other program, a failing query or the end of the process may come   *)
(* between any two.  A random secret is a number never used before, so a   *)
(* signature is the secret it was made with.  Tokens are never forgotten:  *)
(* /logout tells one browser to drop its copy and changes nothing here.    *)
(***************************************************************************)
EXTENDS Integers, Sequences, FiniteSets, SequenceFilter

CONSTANTS
  Users,        \* user ids the users table may hold
  Guest,        \* GUEST_USER_ID, or any other user id that is no positive number
  Passwords,
  NoPassword,   \* a config without hash or salt
  Ips,
  NoCookie,     \* no cookie, or one that parse_session_token does not read
  MaxAge,       \* SESSION_COOKIE_MAX_AGE
  Skew,         \* how far in the future a token may be issued: 60 s in the source
  Window,       \* _LOGIN_WINDOW_SECONDS
  MaxFailures,  \* _LOGIN_MAX_FAILURES
  MaxBack,      \* by how much, in all, the machine's clock is set back
  MaxTime, MaxBoots, MaxSecrets, MaxTokens  \* bounds

ASSUME UsersAssumption == Guest \notin Users /\ NoPassword \notin Passwords
ASSUME ClockAssumption ==
  /\ MaxAge \in Nat /\ Skew \in Nat /\ Window \in Nat /\ MaxFailures \in Nat
  /\ MaxBack \in 0..Skew
ASSUME BoundsAssumption ==
  MaxTime \in Nat /\ MaxBoots \in Nat /\ MaxSecrets \in Nat /\ MaxTokens \in Nat

VARIABLES
  real,         \* seconds gone by
  back,         \* by how much the clock the program reads is behind `real`
  users,        \* the users table: uid -> row, as a config
  minted,       \* random secrets drawn so far
  guestSecret,  \* _GUEST_SECRET
  failures,     \* _LOGIN_FAILURES: ip -> times of the clock
  login,        \* the login_post under way
  tokens,       \* every token handed out
  boot,         \* history: how often the process has started
  wrong         \* history: ip -> when this process refused it a password

clocks  == <<real, back>>
process == <<guestSecret, failures, boot, wrong>>
vars    == <<clocks, users, minted, process, login, tokens>>

now == real - back

Config == [row: BOOLEAN, password: Passwords \cup {NoPassword}, secret: Nat]
Absent == [row |-> FALSE, password |-> NoPassword, secret |-> 0]
Token  == [uid: Users \cup {Guest}, issued: Int, secret: Nat, born: Nat, boot: Nat]
Idle   == [pc |-> "idle"]

ASSUME CookieAssumption == NoCookie \notin Token

Init ==
  /\ real = 0 /\ back = 0
  /\ users \in [Users -> {Absent} \cup
                  [row: {TRUE}, password: Passwords \cup {NoPassword}, secret: {0}]]
  /\ minted = 1 /\ guestSecret = 1 /\ boot = 1
  /\ failures = [i \in Ips |-> <<>>]
  /\ wrong = [i \in Ips |-> <<>>]
  /\ login = Idle
  /\ tokens = {}

-----------------------------------------------------------------------------
(* Tokens.                                                                 *)

MakeSessionToken(uid, secret) ==
  [uid |-> uid, issued |-> now, secret |-> secret, born |-> real, boot |-> boot]

\* The secret a token of uid is verified with; 0 is none, or a blank one.
SecretOf(uid) == IF uid = Guest THEN guestSecret ELSE users[uid].secret

\* Mutant of VerifySessionToken: no allowance for a token from the future.
VerifyNoSkew(t, secret) ==
  /\ t.issued <= now
  /\ now - t.issued <= MaxAge
  /\ t.secret = secret

VerifySessionToken(t, secret) ==
  /\ t.issued <= now + Skew
  /\ now - t.issued <= MaxAge
  /\ t.secret = secret

\* resolve_session_user_id returns t's uid
Resolves(t) ==
  /\ t # NoCookie
  /\ SecretOf(t.uid) # 0
  /\ VerifySessionToken(t, SecretOf(t.uid))

-----------------------------------------------------------------------------
(* The middleware.  It reads the users table at every request and keeps    *)
(* nothing, so it is no action: Answer is what a request gets.             *)

\* A Request has: path, one of "public", "admin", "projects", "sessions", "api"
\* for the rest of /api/, and "page"; safe, a GET, HEAD or OPTIONS; origin and
\* referer, "none", "host" or "other"; host, whether it names one; admin,
\* whether x-admin-token is the non-empty ADMIN_TOKEN; project, whether the
\* query has a project; cookie.
CheckOrigin(r) ==
  \/ r.safe
  \/ ~r.host
  \/ r.origin = "host"
  \/ r.origin = "none" /\ r.referer = "host"

GuestForbidden(r) == r.path \in {"projects", "sessions"} \/ r.project

Answer(r) ==
  CASE r.path = "public" -> "served"
    [] r.path = "admin" -> IF ~r.admin THEN "401"
                           ELSE IF CheckOrigin(r) THEN "served" ELSE "403"
    [] OTHER ->
         CASE ~CheckOrigin(r)    -> "403"
           [] CheckOrigin(r) /\ ~Resolves(r.cookie) ->
                IF r.path = "page" THEN "to login" ELSE "401"
           [] OTHER -> IF r.cookie.uid = Guest /\ GuestForbidden(r)
                       THEN "403" ELSE "served"

-----------------------------------------------------------------------------
(* POST /login, statement by statement.                                    *)

\* The failures that still count.
Recent(ip) == Keep(failures[ip], {t \in Int : now - t < Window})

Limited(ip) == Len(Recent(ip)) >= MaxFailures

\* 429, 400 and 404 end the handler.
LoginPost(ip, uid, password) ==
  /\ login = Idle
  /\ failures' = [failures EXCEPT ![ip] = Recent(ip)]
  /\ login' = IF Limited(ip) \/ uid = Guest \/ (uid \in Users /\ ~users[uid].row)
              THEN Idle
              ELSE [pc |-> "load", ip |-> ip, uid |-> uid, password |-> password,
                    config |-> Absent]
  /\ UNCHANGED <<clocks, users, minted, guestSecret, boot, wrong, tokens>>

\* Mutant of RecordLoginFailure: it starts the list anew.
RecordLast(ip) == failures' = [failures EXCEPT ![ip] = <<now>>]

RecordLoginFailure(ip) ==
  failures' = [failures EXCEPT ![ip] = Append(Recent(ip), now)]

\* load_user_config and what is decided from it: 503, 401 or on.
LoginVerify ==
  /\ login.pc = "load"
  /\ LET config == users[login.uid]
     IN  \/ /\ config.password = NoPassword
            /\ login' = Idle
            /\ UNCHANGED <<failures, wrong>>
         \/ /\ config.password \notin {NoPassword, login.password}
            /\ RecordLoginFailure(login.ip)
            /\ wrong' = [wrong EXCEPT ![login.ip] = Append(@, real)]
            /\ login' = Idle
         \/ /\ config.password = login.password
            /\ login' = [login EXCEPT !.pc = "write", !.config = config]
            /\ UNCHANGED <<failures, wrong>>
  /\ UNCHANGED <<clocks, users, minted, guestSecret, boot, tokens>>

\* Mutants of GetOrCreateSecret: no secret is created; one at every login; one
\* for all.
GetSecret(config) == config.secret
AlwaysCreateSecret(config) == minted + 1
GetSharedSecret(config) == IF config.secret # 0 THEN config.secret ELSE 2

GetOrCreateSecret(config) ==
  IF config.secret # 0 THEN config.secret ELSE minted + 1

\* write_user_config: the whole config as it was read, with the secret.  It
\* changes no row if the row has gone.
LoginWrite ==
  /\ login.pc = "write"
  /\ minted < MaxSecrets
  /\ LET config == [login.config EXCEPT !.secret = GetOrCreateSecret(login.config)]
     IN  /\ users' = IF users[login.uid].row
                     THEN [users EXCEPT ![login.uid] = config] ELSE users
         /\ minted' = IF config.secret > minted THEN config.secret ELSE minted
         /\ login' = [login EXCEPT !.pc = "mint", !.config = config]
  /\ UNCHANGED <<clocks, process, tokens>>

LoginMint ==
  /\ login.pc = "mint"
  /\ Cardinality(tokens) < MaxTokens
  /\ tokens' = tokens \cup {MakeSessionToken(login.uid, login.config.secret)}
  /\ login' = Idle
  /\ UNCHANGED <<clocks, users, minted, process>>

\* A query raises, the answer is 500.
LoginFails ==
  /\ login # Idle
  /\ login' = Idle
  /\ UNCHANGED <<clocks, users, minted, process, tokens>>

LoginGuest ==
  /\ login = Idle
  /\ Cardinality(tokens) < MaxTokens
  /\ tokens' = tokens \cup {MakeSessionToken(Guest, guestSecret)}
  /\ UNCHANGED <<clocks, users, minted, process, login>>

-----------------------------------------------------------------------------
(* Around the handlers.                                                    *)

\* The process ends, whatever it is doing, and starts again.
Restart ==
  /\ boot < MaxBoots /\ minted < MaxSecrets
  /\ boot' = boot + 1
  /\ guestSecret' = minted + 1
  /\ minted' = minted + 1
  /\ failures' = [i \in Ips |-> <<>>]
  /\ wrong' = [i \in Ips |-> <<>>]
  /\ login' = Idle
  /\ UNCHANGED <<clocks, users, tokens>>

\* The user-management program creates, changes or deletes a user: it sets the
\* password and keeps or clears the session secret.
UpstreamWrites(uid) ==
  /\ \/ users' = [users EXCEPT ![uid] = Absent]
     \/ \E p \in Passwords \cup {NoPassword}, s \in {0, users[uid].secret} :
          users' = [users EXCEPT ![uid] = [row |-> TRUE, password |-> p, secret |-> s]]
  /\ UNCHANGED <<clocks, minted, process, login, tokens>>

Tick ==
  /\ real < MaxTime
  /\ real' = real + 1
  /\ UNCHANGED <<back, users, minted, process, login, tokens>>

\* The system's clock is corrected.
SetBack ==
  /\ back < MaxBack
  /\ back' = back + 1
  /\ UNCHANGED <<real, users, minted, process, login, tokens>>

Next ==
  \/ \E ip \in Ips, uid \in Users \cup {Guest}, p \in Passwords : LoginPost(ip, uid, p)
  \/ LoginVerify \/ LoginWrite \/ LoginMint \/ LoginFails \/ LoginGuest
  \/ Restart \/ \E uid \in Users : UpstreamWrites(uid)
  \/ Tick \/ SetBack

Spec == Init /\ [][Next]_vars

-----------------------------------------------------------------------------
(* Properties.                                                             *)

LoginStates ==
  {Idle} \cup [pc: {"load", "write", "mint"}, ip: Ips, uid: Users,
               password: Passwords, config: Config]

\* Types, and that no secret in use is one that has not been drawn yet.
TypeOK ==
  /\ real \in Nat /\ back \in 0..MaxBack
  /\ users \in [Users -> Config]
  /\ minted \in Nat \ {0} /\ guestSecret \in 1..minted /\ boot \in Nat
  /\ failures \in [Ips -> Seq(Int)] /\ wrong \in [Ips -> Seq(Nat)]
  /\ login \in LoginStates
  /\ tokens \in SUBSET Token
  /\ \A t \in tokens : t.secret \in 1..minted
  /\ \A u \in Users : users[u].secret <= minted
  /\ login # Idle => login.config.secret <= minted

\* How many passwords of ip were refused less than d seconds ago
WrongWithin(ip, d) == Cardinality({n \in DOMAIN wrong[ip] : real - wrong[ip][n] < d})

\* The limit of login.py:5-6, "5 failures per IP per 5-minute window", in seconds
\* that really pass: no address is refused more passwords than that in any
\* window, though the list is pruned and written at two places and by a clock
\* that may be set back.
WrongPasswordsLimited == \A ip \in Ips : WrongWithin(ip, Window) <= MaxFailures

\* Nobody is locked out by less than MaxFailures refused passwords, or by old
\* ones: requests answered 429, unknown users and successes do not count, and a
\* clock set back lengthens the window by that much only.
LockoutIsEarned ==
  \A ip \in Ips : Limited(ip) => WrongWithin(ip, Window + MaxBack) >= MaxFailures

\* The limit is what login.py:5-6 says, and no tighter.
LimitIsExact == WrongPasswordsLimited /\ LockoutIsEarned

Get(path, cookie) ==
  [path |-> path, safe |-> TRUE, origin |-> "none", referer |-> "none",
   host |-> TRUE, admin |-> FALSE, project |-> FALSE, cookie |-> cookie]

Form(path, cookie, safe, origin, project) ==
  [Get(path, cookie) EXCEPT !.safe = safe, !.origin = origin, !.project = project]

\* A session lasts MaxAge seconds, also when the clock was set back below the
\* time its token was issued, and no more than the correction longer.  It ends
\* before that only with its user, its user's secret or, a guest's, its process
\* (login.py:165-167).
CookieLifetime ==
  \A t \in tokens :
    LET age  == real - t.born
        ends == IF t.uid = Guest THEN t.boot # boot
                ELSE users[t.uid].secret # t.secret
    IN  /\ age <= MaxAge /\ ~ends => Answer(Get("api", t)) = "served"
        /\ age > MaxAge + MaxBack \/ ends =>
             \A path \in {"api", "page", "sessions"}, origin \in {"none", "host", "other"},
                safe, project \in BOOLEAN :
               Answer(Form(path, t, safe, origin, project)) # "served"

\* LoginWrite overwrites what the user-management program wrote since the read.
StaleWrite ==
  /\ login.pc = "write" /\ login'.pc = "mint"
  /\ users[login.uid] # login.config

Revoked(t) == t.secret # SecretOf(t.uid)

\* A session whose user was deleted, or whose secret was cleared, or a guest's of
\* an earlier process, never comes back, however often the user logs in, is
\* created anew or the process restarts; except by a login that had read the
\* config before the change and writes it back (session.py:102).
RevokedForGood ==
  [][StaleWrite \/ \A t \in tokens : Revoked(t) => Revoked(t)']_vars

\* Logging in ends no other session: neither the user's on another machine nor
\* anybody else's, whether the config had a secret or gets one now.
LoginKeepsSessions ==
  [][boot' = boot /\ (login' # login \/ tokens' # tokens) =>
       StaleWrite \/ \A t \in tokens : Resolves(t) => Resolves(t)']_vars

\* Signing secrets are nobody else's: a token of one user, or of a guest, is never
\* valid for another, whoever logged in first and whichever config was restored.
SecretsApart ==
  /\ \A u \in Users : users[u].secret # guestSecret
  /\ \A u, v \in Users : u # v /\ users[u].secret # 0 => users[u].secret # users[v].secret
  /\ \A t \in tokens : t.uid # Guest =>
       \A u \in Users \ {t.uid} : users[u].secret # t.secret
=============================================================================
