---------------------------- MODULE AccessProofs ----------------------------
(***************************************************************************)
(* Secrets never cross from one user to another, a revoked session never   *)
(* comes back, a cookie lives as long as the code says, and the lockout    *)
(* counts what it is to count, for any number of users, addresses, logins  *)
(* and restarts.                                                           *)
(*                                                                         *)
(* The first two rest on one fact about every place a secret can be: the   *)
(* users table, a token, the config a login carries and the guest secret.  *)
(* A secret found at two of them has one owner, and none of them holds a   *)
(* number not drawn yet; the next number is therefore new to all.  The     *)
(* lifetime rests on what a token's iat says of the login it comes from    *)
(* (Dated), the lockout on how the list that the code keeps is the end of  *)
(* the list of every failure (Lists).                                      *)
(***************************************************************************)
EXTENDS Access, DataLemmas, FiniteSetTheorems, TLAPS

People == Users \cup {Guest}

\* The secret s is somewhere where it is, or may again become, uid's.
Belongs(s, uid) ==
  \/ uid \in Users /\ users[uid].secret = s
  \/ uid = Guest /\ guestSecret = s
  \/ login # Idle /\ login.uid = uid /\ login.config.secret = s
  \/ \E t \in tokens : t.uid = uid /\ t.secret = s

Types ==
  /\ real \in Nat /\ back \in Nat /\ boot \in Nat /\ minted \in Nat
  /\ users \in [Users -> Config]
  /\ guestSecret \in Nat \ {0}
  /\ login \in LoginStates
  /\ tokens \in SUBSET Token
  /\ \A t \in tokens : t.secret # 0
  /\ login # Idle /\ login.pc = "mint" => login.config.secret # 0

Drawn == \A uid \in People, s \in Nat : Belongs(s, uid) => s <= minted

OneOwner ==
  \A p, q \in People, s \in Nat \ {0} : Belongs(s, p) /\ Belongs(s, q) => p = q

IInv == Types /\ Drawn /\ OneOwner

LEMMA AbsentIsConfig == Absent \in Config
<1>1. FALSE \in BOOLEAN
  OBVIOUS
<1> QED
  BY <1>1 DEF Absent, Config

-----------------------------------------------------------------------------
(* Initially only the guest has a secret.                                  *)
LEMMA InitIInv == Init => IInv
<1> SUFFICES ASSUME Init PROVE IInv
  OBVIOUS
<1> USE DEF Init
<1>1. users \in [Users -> Config] /\ \A u \in Users : users[u].secret = 0
  <2> DEFINE Rows == [row: {TRUE}, password: Passwords \cup {NoPassword}, secret: {0}]
  <2>1. ASSUME NEW c \in Rows PROVE c \in Config /\ c.secret = 0
    <3>1. TRUE \in BOOLEAN
      OBVIOUS
    <3>2. c = [row |-> TRUE, password |-> c.password, secret |-> 0]
      OBVIOUS
    <3>3. c.password \in Passwords \cup {NoPassword}
      OBVIOUS
    <3>4. [row |-> TRUE, password |-> c.password, secret |-> 0] \in Config
      BY <3>1, <3>3 DEF Config
    <3> QED
      BY <3>2, <3>4
  <2>2. users \in [Users -> {Absent} \cup Rows]
    OBVIOUS
  <2>3. Absent.secret = 0
    BY DEF Absent
  <2> HIDE DEF Rows
  <2> QED
    BY <2>1, <2>2, <2>3, AbsentIsConfig
<1>2. Types
  BY <1>1 DEF Types, LoginStates, Idle
<1>3. Drawn
  BY <1>1 DEF Drawn, Belongs, Idle
<1>4. OneOwner
  BY <1>1 DEF OneOwner, Belongs, Idle
<1> QED
  BY <1>2, <1>3, <1>4 DEF IInv

\* A step preserves the two facts about owners when whatever is anybody's secret
\* after it was theirs before, or is the number the step draws, for one owner.
LEMMA OwnersKept ==
  ASSUME Types, Drawn, OneOwner, minted' \in Nat, minted' >= minted,
         NEW who,
         \A s \in Nat \ {0}, p \in People :
           Belongs(s, p)' => Belongs(s, p) \/ (s = minted + 1 /\ s <= minted' /\ p = who)
  PROVE  Drawn' /\ OneOwner'
<1>1. minted \in Nat
  BY DEF Types
<1>2. Drawn'
  <2> SUFFICES ASSUME NEW p \in People, NEW s \in Nat, Belongs(s, p)' PROVE s <= minted'
    BY DEF Drawn, People
  <2>1. CASE s = 0
    BY <2>1
  <2>2. CASE s # 0
    BY <1>1, <2>2 DEF Drawn
  <2> QED
    BY <2>1, <2>2
<1>3. OneOwner'
  <2> SUFFICES ASSUME NEW p \in People, NEW q \in People, NEW s \in Nat \ {0},
                      Belongs(s, p)', Belongs(s, q)'
               PROVE  p = q
    BY DEF OneOwner, People
  <2>1. CASE s = minted + 1
    <3>1. ~Belongs(s, p) /\ ~Belongs(s, q)
      BY <1>1, <2>1 DEF Drawn
    <3> QED
      BY <3>1
  <2>2. CASE s # minted + 1
    BY <2>2 DEF OneOwner
  <2> QED
    BY <2>1, <2>2
<1> QED
  BY <1>2, <1>3

-----------------------------------------------------------------------------
LEMMA NextIInv == IInv /\ [Next]_vars => IInv'
<1> SUFFICES ASSUME IInv, [Next]_vars PROVE IInv'
  OBVIOUS
<1> USE DEF IInv, clocks, process
<1>0. /\ Types /\ Drawn /\ OneOwner
      /\ minted \in Nat
  BY DEF Types
<1>1. ASSUME NEW ip \in Ips, NEW uid \in Users \cup {Guest}, NEW p \in Passwords,
             LoginPost(ip, uid, p)
      PROVE  IInv'
  <2>1. login' \in LoginStates
    BY <1>1, UsersAssumption DEF LoginPost, LoginStates, Idle, Config, Absent
  <2>2. login' # Idle => login'.config.secret = 0 /\ login'.pc = "load"
    BY <1>1 DEF LoginPost, Idle, Absent
  <2>3. Types'
    BY <1>1, <2>1, <2>2 DEF LoginPost, Types
  <2>4. \A s \in Nat \ {0}, q \in People : Belongs(s, q)' => Belongs(s, q)
    BY <1>1, <2>2 DEF LoginPost, Belongs
  <2> QED
    BY <1>0, <2>3, <2>4, OwnersKept, <1>1 DEF LoginPost
<1>2. CASE LoginVerify
  <2>1. /\ login # Idle /\ login \in LoginStates /\ users \in [Users -> Config]
        /\ login.uid \in Users
    BY <1>2 DEF LoginVerify, Types, LoginStates, Idle
  <2>2. /\ login' \in LoginStates
        /\ login' # Idle => /\ login'.pc = "write" /\ login'.uid = login.uid
                            /\ login'.config.secret = users[login.uid].secret
    BY <1>2, <2>1 DEF LoginVerify, LoginStates, Idle
  <2>3. Types'
    BY <1>2, <2>2 DEF LoginVerify, Types
  <2>4. \A s \in Nat \ {0}, q \in People : Belongs(s, q)' => Belongs(s, q)
    BY <1>2, <2>1, <2>2 DEF LoginVerify, Belongs
  <2> QED
    BY <1>0, <2>3, <2>4, OwnersKept, <1>2 DEF LoginVerify
<1>3. CASE LoginWrite
  <2> DEFINE new == GetOrCreateSecret(login.config)
             config == [login.config EXCEPT !.secret = new]
  <2>1. /\ login # Idle /\ login \in LoginStates
        /\ login.uid \in Users /\ login.config \in Config
    BY <1>3 DEF LoginWrite, Types, LoginStates, Idle
  <2>2. /\ new \in Nat \ {0}
        /\ new = login.config.secret \/ new = minted + 1
    BY <2>1, <1>0 DEF GetOrCreateSecret, Config
  <2>3. config \in Config /\ config.secret = new
    BY <2>1, <2>2 DEF Config
  <2> HIDE DEF new
  <2>4. /\ minted' \in Nat /\ minted' >= minted /\ new <= minted'
        /\ UNCHANGED <<real, back, boot, guestSecret, tokens>>
    BY <1>3, <1>0, <2>2, <2>3 DEF LoginWrite, new
  <2>5. users' = users \/ users' = [users EXCEPT ![login.uid] = config]
    BY <1>3 DEF LoginWrite, new
  <2>6. login' = [login EXCEPT !.pc = "mint", !.config = config]
    BY <1>3 DEF LoginWrite, new
  <2> HIDE DEF config
  <2>7. /\ login' \in LoginStates
        /\ login'.uid = login.uid /\ login'.config = config
    BY <2>1, <2>3, <2>6 DEF LoginStates, Idle
  <2>8. users' \in [Users -> Config]
    BY <2>1, <2>3, <2>5 DEF Types
  <2>9. Types'
    BY <2>2, <2>3, <2>4, <2>7, <2>8 DEF Types
  <2>10. ASSUME NEW s \in Nat \ {0}, NEW q \in People, Belongs(s, q)'
         PROVE  Belongs(s, q) \/ (s = minted + 1 /\ s <= minted' /\ q = login.uid)
    <3>1. \/ Belongs(s, q)
          \/ q = login.uid /\ s = new
      <4>1. q \in Users /\ users'[q].secret = s => Belongs(s, q) \/ (q = login.uid /\ s = new)
        BY <2>1, <2>3, <2>5 DEF Types, Belongs
      <4>2. login'.uid = q /\ login'.config.secret = s => q = login.uid /\ s = new
        BY <2>3, <2>7
      <4> QED
        BY <2>4, <2>10, <4>1, <4>2 DEF Belongs
    <3>2. CASE new = login.config.secret
      BY <3>1, <3>2, <2>1 DEF Belongs
    <3>3. CASE new = minted + 1
      BY <3>1, <3>3, <2>4
    <3> QED
      BY <2>2, <3>2, <3>3
  <2> QED
    BY <1>0, <2>4, <2>9, <2>10, OwnersKept
<1>4. CASE LoginMint
  <2> DEFINE t == MakeSessionToken(login.uid, login.config.secret)
  <2>1. /\ login # Idle /\ login \in LoginStates
        /\ login.uid \in Users /\ login.config.secret \in Nat \ {0}
    BY <1>4 DEF LoginMint, Types, LoginStates, Idle, Config
  <2>2. t \in Token /\ t.uid = login.uid /\ t.secret = login.config.secret
    BY <2>1 DEF MakeSessionToken, Token, Types, now
  <2> HIDE DEF t
  <2>3. /\ tokens' = tokens \cup {t} /\ login' = Idle
        /\ UNCHANGED <<real, back, boot, users, guestSecret, minted>>
    BY <1>4 DEF LoginMint, t
  <2>4. Types'
    BY <2>1, <2>2, <2>3 DEF Types, LoginStates
  <2>5. \A s \in Nat \ {0}, q \in People : Belongs(s, q)' => Belongs(s, q)
    BY <2>1, <2>2, <2>3 DEF Belongs
  <2> QED
    BY <1>0, <2>3, <2>4, <2>5, OwnersKept
<1>5. CASE LoginFails
  <2>1. /\ login' = Idle
        /\ UNCHANGED <<real, back, boot, users, guestSecret, minted, tokens>>
    BY <1>5 DEF LoginFails
  <2>2. Types'
    BY <2>1 DEF Types, LoginStates
  <2>3. \A s \in Nat \ {0}, q \in People : Belongs(s, q)' => Belongs(s, q)
    BY <2>1 DEF Belongs
  <2> QED
    BY <1>0, <2>1, <2>2, <2>3, OwnersKept
<1>6. CASE LoginGuest
  <2> DEFINE t == MakeSessionToken(Guest, guestSecret)
  <2>1. t \in Token /\ t.uid = Guest /\ t.secret = guestSecret /\ t.secret # 0
    BY DEF MakeSessionToken, Token, Types, now
  <2> HIDE DEF t
  <2>2. /\ tokens' = tokens \cup {t}
        /\ UNCHANGED <<real, back, boot, users, guestSecret, minted, login>>
    BY <1>6 DEF LoginGuest, t
  <2>3. Types'
    BY <2>1, <2>2 DEF Types
  <2>4. \A s \in Nat \ {0}, q \in People : Belongs(s, q)' => Belongs(s, q)
    BY <2>1, <2>2 DEF Belongs
  <2> QED
    BY <1>0, <2>2, <2>3, <2>4, OwnersKept
<1>7. CASE Restart
  <2>1. /\ guestSecret' = minted + 1 /\ minted' = minted + 1 /\ boot' = boot + 1
        /\ login' = Idle
        /\ UNCHANGED <<real, back, users, tokens>>
    BY <1>7 DEF Restart
  <2>2. Types'
    BY <2>1, <1>0 DEF Types, LoginStates
  <2>3. \A s \in Nat \ {0}, q \in People :
          Belongs(s, q)' => Belongs(s, q) \/ (s = minted + 1 /\ s <= minted' /\ q = Guest)
    BY <2>1, <1>0 DEF Belongs
  <2>4. minted' \in Nat /\ minted' >= minted
    BY <1>0, <2>1
  <2> QED
    BY <1>0, <2>2, <2>3, <2>4, OwnersKept
<1>8. ASSUME NEW uid \in Users, UpstreamWrites(uid) PROVE IInv'
  <2>1. PICK c \in Config : /\ users' = [users EXCEPT ![uid] = c]
                            /\ c.secret \in {0, users[uid].secret}
    <3>1. CASE users' = [users EXCEPT ![uid] = Absent]
      BY <3>1, AbsentIsConfig DEF Absent
    <3>2. ASSUME NEW p \in Passwords \cup {NoPassword}, NEW s \in {0, users[uid].secret},
                 users' = [users EXCEPT ![uid] = [row |-> TRUE, password |-> p, secret |-> s]]
          PROVE  \E c \in Config : /\ users' = [users EXCEPT ![uid] = c]
                                   /\ c.secret \in {0, users[uid].secret}
      <4>1. s \in Nat
        BY DEF Types, Config
      <4>2. [row |-> TRUE, password |-> p, secret |-> s] \in Config
        BY <4>1 DEF Config
      <4> QED
        BY <3>2, <4>2
    <3> QED
      BY <1>8, <3>1, <3>2 DEF UpstreamWrites
  <2>2. UNCHANGED <<real, back, boot, guestSecret, minted, tokens, login>>
    BY <1>8 DEF UpstreamWrites
  <2>3. Types'
    BY <2>1, <2>2 DEF Types
  <2>4. \A s \in Nat \ {0}, q \in People : Belongs(s, q)' => Belongs(s, q)
    BY <2>1, <2>2 DEF Belongs, Types
  <2> QED
    BY <1>0, <2>2, <2>3, <2>4, OwnersKept
<1>9. CASE Tick \/ SetBack \/ UNCHANGED vars
  <2>1. UNCHANGED <<boot, users, guestSecret, minted, tokens, login>>
    BY <1>9 DEF Tick, SetBack, vars
  <2>2. real' \in Nat /\ back' \in Nat
    BY <1>9 DEF Tick, SetBack, vars, Types
  <2>3. Types'
    BY <2>1, <2>2 DEF Types
  <2>4. \A s \in Nat \ {0}, q \in People : Belongs(s, q)' => Belongs(s, q)
    BY <2>1 DEF Belongs
  <2> QED
    BY <1>0, <2>1, <2>3, <2>4, OwnersKept
<1> QED
  BY <1>1, <1>2, <1>3, <1>4, <1>5, <1>6, <1>7, <1>8, <1>9 DEF Next

LEMMA InductiveInvariant == Spec => []IInv
<1> QED
  BY InitIInv, NextIInv, PTL DEF Spec

LEMMA ApartFollows == IInv => SecretsApart
<1> SUFFICES ASSUME IInv PROVE SecretsApart
  OBVIOUS
<1>1. /\ users \in [Users -> Config] /\ guestSecret \in Nat \ {0}
      /\ tokens \in SUBSET Token /\ \A t \in tokens : t.secret # 0
      /\ OneOwner
  BY DEF IInv, Types
<1>2. \A u \in Users : users[u].secret \in Nat /\ Belongs(users[u].secret, u)
  BY <1>1 DEF Config, Belongs
<1>3. Belongs(guestSecret, Guest)
  BY DEF Belongs
<1>4. \A t \in tokens : t.secret \in Nat \ {0} /\ t.uid \in People /\ Belongs(t.secret, t.uid)
  BY <1>1 DEF Token, Belongs, People
<1>5. \A u \in Users : users[u].secret # guestSecret
  BY <1>1, <1>2, <1>3, UsersAssumption DEF OneOwner, People
<1>6. \A u, v \in Users : u # v /\ users[u].secret # 0 => users[u].secret # users[v].secret
  BY <1>1, <1>2 DEF OneOwner, People
<1>7. \A t \in tokens : t.uid # Guest =>
        \A u \in Users \ {t.uid} : users[u].secret # t.secret
  BY <1>1, <1>2, <1>4 DEF OneOwner, People
<1> QED
  BY <1>5, <1>6, <1>7 DEF SecretsApart

\* A token of one user or guest is never signed with the secret another's tokens
\* are verified with (session.py: get_or_create_session_secret,
\* resolve_session_user_id), however many users there are.
THEOREM SecretsStayApart == Spec => []SecretsApart
<1> QED
  BY InductiveInvariant, ApartFollows, PTL

-----------------------------------------------------------------------------
LEMMA RevokedStep ==
  IInv /\ [Next]_vars =>
    [StaleWrite \/ \A t \in tokens : Revoked(t) => Revoked(t)']_vars
<1> SUFFICES ASSUME IInv, Next, ~StaleWrite, NEW t \in tokens, Revoked(t)
             PROVE  Revoked(t)'
  BY DEF vars
<1> USE DEF clocks, process
<1>1. /\ minted \in Nat /\ users \in [Users -> Config]
      /\ t.uid \in People /\ t.secret \in Nat \ {0}
      /\ t.secret <= minted
  <2>1. t \in Token /\ t.secret # 0 /\ minted \in Nat /\ users \in [Users -> Config]
    BY DEF IInv, Types
  <2>2. t.uid \in People /\ t.secret \in Nat /\ Belongs(t.secret, t.uid)
    BY <2>1 DEF Token, People, Belongs
  <2> QED
    BY <2>1, <2>2 DEF IInv, Drawn
<1>2. SUFFICES SecretOf(t.uid)' \in {SecretOf(t.uid), 0, minted + 1}
  BY <1>1, <1>2 DEF Revoked
<1>3. CASE UNCHANGED <<users, guestSecret>>
  BY <1>3 DEF SecretOf
<1>4. CASE LoginWrite
  <2>1. /\ login # Idle /\ login.uid \in Users /\ login \in LoginStates
        /\ login.config \in Config
    BY <1>4 DEF LoginWrite, IInv, Types, LoginStates, Idle
  <2>2. login'.pc = "mint"
    BY <1>4, <2>1 DEF LoginWrite, LoginStates, Idle
  <2>3. users[login.uid] = login.config
    BY <1>4, <2>2 DEF LoginWrite, StaleWrite
  <2>4. /\ guestSecret' = guestSecret
        /\ \/ users' = users
           \/ users' = [users EXCEPT ![login.uid] =
                 [login.config EXCEPT !.secret = GetOrCreateSecret(login.config)]]
    BY <1>4 DEF LoginWrite
  <2>5. [login.config EXCEPT !.secret = GetOrCreateSecret(login.config)].secret
          \in {users[login.uid].secret, minted + 1}
    BY <2>1, <2>3 DEF GetOrCreateSecret, Config
  <2>6. \A u \in Users : users'[u].secret \in {users[u].secret, minted + 1}
    BY <1>1, <2>1, <2>4, <2>5
  <2> QED
    BY <1>1, <2>4, <2>6 DEF SecretOf, People
<1>5. CASE Restart
  BY <1>5 DEF Restart, SecretOf
<1>6. ASSUME NEW uid \in Users, UpstreamWrites(uid)
      PROVE  SecretOf(t.uid)' \in {SecretOf(t.uid), 0, minted + 1}
  <2>1. /\ guestSecret' = guestSecret
        /\ \A u \in Users : users'[u].secret \in {users[u].secret, 0}
    BY <1>1, <1>6 DEF UpstreamWrites, Absent
  <2> QED
    BY <1>1, <2>1 DEF SecretOf, People
<1> QED
  BY <1>3, <1>4, <1>5, <1>6
  DEF Next, LoginPost, LoginVerify, LoginMint, LoginFails, LoginGuest, Tick, SetBack

\* A session ended by the deletion of its user, by the loss of its secret or by a
\* restart stays ended (session.py: resolve_session_user_id), whatever the table's
\* other writer does, unless a login writes back a config it read before
\* (session.py: write_user_config).
THEOREM RevokedStaysRevoked == Spec => RevokedForGood
<1> QED
  BY InductiveInvariant, RevokedStep, PTL DEF Spec, RevokedForGood

-----------------------------------------------------------------------------
LEMMA KeepsStep ==
  IInv /\ [Next]_vars =>
    [boot' = boot /\ (login' # login \/ tokens' # tokens) =>
       StaleWrite \/ \A t \in tokens : Resolves(t) => Resolves(t)']_vars
<1> SUFFICES ASSUME IInv, Next, boot' = boot, login' # login \/ tokens' # tokens,
                    ~StaleWrite, NEW t \in tokens, Resolves(t)
             PROVE  Resolves(t)'
  BY DEF vars
<1> USE DEF clocks, process
<1>1. /\ users \in [Users -> Config] /\ t.uid \in People /\ boot \in Nat
  BY DEF IInv, Types, Token, People
<1>2. UNCHANGED <<real, back, guestSecret>> /\ (UNCHANGED users \/ LoginWrite)
  <2>1. ~Restart
    BY <1>1 DEF Restart
  <2> QED
    BY <2>1 DEF Next, LoginPost, LoginVerify, LoginWrite, LoginMint, LoginFails,
                LoginGuest, UpstreamWrites, Tick, SetBack
<1>3. SecretOf(t.uid)' = SecretOf(t.uid)
  <2>1. CASE UNCHANGED users
    BY <1>2, <2>1 DEF SecretOf
  <2>2. CASE LoginWrite
    <3>1. /\ login.uid \in Users /\ login \in LoginStates /\ login # Idle
          /\ login.config \in Config
      BY <2>2 DEF LoginWrite, IInv, Types, LoginStates, Idle
    <3>2. users[login.uid] = login.config
      BY <2>2, <3>1 DEF LoginWrite, StaleWrite, LoginStates, Idle
    <3>3. \/ users' = users
          \/ users' = [users EXCEPT ![login.uid] =
                [login.config EXCEPT !.secret = GetOrCreateSecret(login.config)]]
      BY <2>2 DEF LoginWrite
    <3>4. users[login.uid].secret # 0 =>
            [login.config EXCEPT !.secret = GetOrCreateSecret(login.config)].secret
              = users[login.uid].secret
      BY <3>1, <3>2 DEF GetOrCreateSecret, Config
    <3>5. \A u \in Users : users[u].secret # 0 => users'[u].secret = users[u].secret
      BY <1>1, <3>1, <3>3, <3>4
    <3> QED
      BY <1>1, <1>2, <3>5 DEF SecretOf, Resolves, People
  <2> QED
    BY <1>2, <2>1, <2>2
<1> QED
  BY <1>2, <1>3 DEF Resolves, VerifySessionToken, now

\* A login ends no session that is valid (login.py: login_post), the user's own
\* others included, unless it writes back a config that has changed since.
THEOREM SessionsKept == Spec => LoginKeepsSessions
<1> QED
  BY InductiveInvariant, KeepsStep, PTL DEF Spec, LoginKeepsSessions

-----------------------------------------------------------------------------
(* How long a session lasts.  A token carries the second it was made in, by *)
(* the clock of that time, which since then can only have been set back;    *)
(* and the guest secret of a process is the one its guests' tokens carry.   *)

Dated ==
  /\ back <= MaxBack
  /\ \A t \in tokens :
       /\ t.born <= real /\ t.issued <= t.born /\ t.born <= t.issued + back
       /\ t.boot <= boot
       /\ t.uid = Guest => (t.boot = boot <=> t.secret = guestSecret)

LEMMA DatedInit == Init => Dated
<1> QED
  BY ClockAssumption DEF Init, Dated

LEMMA DatedStep == IInv /\ Dated /\ [Next]_vars => Dated'
<1> SUFFICES ASSUME IInv, Dated, [Next]_vars PROVE Dated'
  OBVIOUS
<1> USE DEF clocks, process
<1>1. /\ real \in Nat /\ back \in Nat /\ boot \in Nat /\ minted \in Nat
      /\ MaxBack \in Nat
      /\ \A t \in tokens : /\ t.born \in Nat /\ t.issued \in Int /\ t.boot \in Nat
                           /\ t.secret \in Nat /\ t.uid \in People
  BY ClockAssumption DEF IInv, Types, Token, People
<1>2. ASSUME UNCHANGED <<boot, guestSecret>>, real' \in {real, real + 1}, back' \in {back, back + 1},
             back' <= MaxBack,
             \A t \in tokens' \ tokens :
               /\ t.born = real /\ t.issued = real - back /\ t.boot = boot
               /\ t.uid = Guest => t.secret = guestSecret
      PROVE  Dated'
  <2> SUFFICES ASSUME NEW t \in tokens'
               PROVE  /\ t.born <= real' /\ t.issued <= t.born /\ t.born <= t.issued + back'
                      /\ t.boot <= boot
                      /\ t.uid = Guest => (t.boot = boot <=> t.secret = guestSecret)
    BY <1>2 DEF Dated
  <2>1. CASE t \in tokens
    BY <2>1, <1>1, <1>2 DEF Dated
  <2>2. CASE t \notin tokens
    BY <2>2, <1>1, <1>2
  <2> QED
    BY <2>1, <2>2
<1>3. CASE LoginMint
  <2>1. login.uid \in Users
    BY <1>3 DEF LoginMint, IInv, Types, LoginStates, Idle
  <2> DEFINE t == MakeSessionToken(login.uid, login.config.secret)
  <2>2. /\ t.born = real /\ t.issued = real - back /\ t.boot = boot /\ t.uid # Guest
    BY <2>1, UsersAssumption DEF MakeSessionToken, now
  <2> HIDE DEF t
  <2>3. tokens' = tokens \cup {t} /\ UNCHANGED <<real, back, boot, guestSecret>>
    BY <1>3 DEF LoginMint, t
  <2> QED
    BY <1>1, <1>2, <2>2, <2>3 DEF Dated
<1>4. CASE LoginGuest
  <2> DEFINE t == MakeSessionToken(Guest, guestSecret)
  <2>2. /\ t.born = real /\ t.issued = real - back /\ t.boot = boot /\ t.secret = guestSecret
    BY DEF MakeSessionToken, now
  <2> HIDE DEF t
  <2>3. tokens' = tokens \cup {t} /\ UNCHANGED <<real, back, boot, guestSecret>>
    BY <1>4 DEF LoginGuest, t
  <2> QED
    BY <1>1, <1>2, <2>2, <2>3 DEF Dated
<1>5. CASE Restart
  <2>1. /\ boot' = boot + 1 /\ guestSecret' = minted + 1
        /\ UNCHANGED <<real, back, tokens>>
    BY <1>5 DEF Restart
  <2>2. \A t \in tokens : t.secret <= minted
    BY <1>1 DEF IInv, Drawn, Belongs, People
  <2>3. \A t \in tokens : t.boot # boot' /\ t.secret # guestSecret'
    BY <1>1, <2>1, <2>2 DEF Dated
  <2> QED
    BY <1>1, <2>1, <2>3 DEF Dated
<1>6. CASE Tick \/ SetBack
  BY <1>1, <1>2, <1>6 DEF Tick, SetBack, Dated
<1>7. CASE UNCHANGED <<real, back, boot, guestSecret, tokens>>
  BY <1>7 DEF Dated
<1> QED
  BY <1>3, <1>4, <1>5, <1>6, <1>7
  DEF Next, vars, LoginPost, LoginVerify, LoginWrite, LoginFails, UpstreamWrites

LEMMA LifetimeFollows == IInv /\ Dated => CookieLifetime
<1> SUFFICES ASSUME IInv, Dated, NEW t \in tokens
             PROVE  LET age  == real - t.born
                        ends == IF t.uid = Guest THEN t.boot # boot
                                ELSE users[t.uid].secret # t.secret
                    IN  /\ age <= MaxAge /\ ~ends => Answer(Get("api", t)) = "served"
                        /\ age > MaxAge + MaxBack \/ ends =>
                             \A path \in {"api", "page", "sessions"},
                                origin \in {"none", "host", "other"}, safe, project \in BOOLEAN :
                               Answer(Form(path, t, safe, origin, project)) # "served"
  BY DEF CookieLifetime
<1> DEFINE age  == real - t.born
           ends == IF t.uid = Guest THEN t.boot # boot ELSE users[t.uid].secret # t.secret
<1>1. /\ real \in Nat /\ back \in Nat /\ boot \in Nat /\ MaxAge \in Nat /\ Skew \in Nat
      /\ MaxBack \in 0..Skew /\ back <= MaxBack
      /\ t.born \in Nat /\ t.issued \in Int /\ t.secret \in Nat \ {0} /\ t.uid \in People
      /\ t # NoCookie
      /\ t.born <= real /\ t.issued <= t.born /\ t.born <= t.issued + back
      /\ t.uid = Guest => (t.boot = boot <=> t.secret = guestSecret)
  BY ClockAssumption, CookieAssumption DEF IInv, Dated, Types, Token, People
<1>2. ends <=> SecretOf(t.uid) # t.secret
  BY <1>1 DEF SecretOf, People
<1>3. age <= MaxAge /\ ~ends => Resolves(t)
  BY <1>1, <1>2 DEF Resolves, VerifySessionToken, now
<1>4. age > MaxAge + MaxBack \/ ends => ~Resolves(t)
  BY <1>1, <1>2 DEF Resolves, VerifySessionToken, now
<1> HIDE DEF age, ends
<1>5. Resolves(t) => Answer(Get("api", t)) = "served"
  BY DEF Answer, Get, CheckOrigin, GuestForbidden
<1>6. ASSUME ~Resolves(t), NEW path \in {"api", "page", "sessions"},
             NEW origin, NEW safe, NEW project
      PROVE  Answer(Form(path, t, safe, origin, project)) # "served"
  <2> DEFINE r == Form(path, t, safe, origin, project)
  <2>1. r.cookie = t /\ r.path = path
    BY DEF Form, Get
  <2> HIDE DEF r
  <2>2. Answer(r) # "served"
    BY <1>6, <2>1 DEF Answer
  <2> QED
    BY <2>2 DEF r
<1> QED
  BY <1>3, <1>4, <1>5, <1>6 DEF age, ends

LEMMA DatedInvariant == Spec => []Dated
<1> QED
  BY InductiveInvariant, DatedInit, DatedStep, PTL DEF Spec

\* A session lasts as long as its cookie, whatever correction of the clock the
\* tolerance of session.py:parse_session_token covers, and no request gets
\* through with a token that is too old or whose secret has gone.
THEOREM CookiesLive == Spec => []CookieLifetime
<1> QED
  BY InductiveInvariant, DatedInvariant, LifetimeFollows, PTL

-----------------------------------------------------------------------------
(* How many passwords an address may try.  `failures` is what the program   *)
(* remembers of `wrong`: f is written for w, when the clock was behind by    *)
(* what it is behind now or, before it was set back, less.  r and b stand   *)
(* for `real` and `back`.                                                   *)

Of(f, w, b) == f \in (w - b) .. w

InOrder(w, r) == /\ \A n \in 1..Len(w) : w[n] <= r
                 /\ \A m, n \in 1..Len(w) : m <= n => w[m] <= w[n]

\* Every refusal of the last Window seconds is still in f, at the same distance
\* from the end.
Alongside(f, w, r, b) ==
  \A j \in 0..(Len(w) - 1) :
    r - w[Len(w) - j] < Window => j < Len(f) /\ Of(f[Len(f) - j], w[Len(w) - j], b)

\* Each element of f is there for a refusal of its own.
Accounts(e, f, w, b) ==
  /\ e \in [1..Len(f) -> 1..Len(w)]
  /\ \A i, j \in 1..Len(f) : i # j => e[i] # e[j]
  /\ \A i \in 1..Len(f) : Of(f[i], w[e[i]], b)

Remembers(f, w, r, b) ==
  InOrder(w, r) /\ Alongside(f, w, r, b) /\ \E e : Accounts(e, f, w, b)

Lists ==
  /\ failures \in [Ips -> Seq(Int)] /\ wrong \in [Ips -> Seq(Nat)]
  /\ \A ip \in Ips : /\ Len(failures[ip]) <= MaxFailures
                     /\ Remembers(failures[ip], wrong[ip], real, back)
  /\ login # Idle /\ login.pc = "load" => Len(failures[login.ip]) < MaxFailures

Counting(r, b) == {t \in Int : (r - b) - t < Window}

\* Forgetting what no longer counts forgets no refusal that does.
LEMMA KeepRemembers ==
  ASSUME NEW f \in Seq(Int), NEW w \in Seq(Nat), NEW r \in Nat, NEW b \in Nat,
         Remembers(f, w, r, b)
  PROVE  /\ Keep(f, Counting(r, b)) \in Seq(Int) /\ Len(Keep(f, Counting(r, b))) <= Len(f)
         /\ Remembers(Keep(f, Counting(r, b)), w, r, b)
<1> DEFINE q == Keep(f, Counting(r, b))
<1>0. \A x, y \in Nat : r - x < Window /\ x <= y => r - y < Window
  BY ClockAssumption
<1>1. \A y \in Nat, x \in Int : r - y < Window /\ Of(x, y, b) => x \in Counting(r, b)
  BY ClockAssumption DEF Of, Counting
<1>2. q \in Seq(Int) /\ Len(q) <= Len(f)
  <2>1. EndsIn(f, 0, Counting(r, b))
    BY DEF EndsIn
  <2>2. 0 \in 0..Len(f)
    OBVIOUS
  <2> QED
    BY <2>1, <2>2, KeepEnd
<1>3. Alongside(q, w, r, b)
  <2> SUFFICES ASSUME NEW j \in 0..(Len(w) - 1), r - w[Len(w) - j] < Window
               PROVE  j < Len(q) /\ Of(q[Len(q) - j], w[Len(w) - j], b)
    BY DEF Alongside
  <2>1. ASSUME NEW i \in 0..j
        PROVE  i < Len(f) /\ Of(f[Len(f) - i], w[Len(w) - i], b) /\ f[Len(f) - i] \in Counting(r, b)
    <3>1. Len(w) - j \in 1..Len(w) /\ Len(w) - i \in 1..Len(w) /\ i \in 0..(Len(w) - 1)
      OBVIOUS
    <3>2. w[Len(w) - i] \in Nat /\ w[Len(w) - j] \in Nat
      BY <3>1, ElementOfSeq
    <3>3. Len(w) - j <= Len(w) - i
      OBVIOUS
    <3>4. w[Len(w) - j] <= w[Len(w) - i]
      BY <3>1, <3>3 DEF Remembers, InOrder
    <3>5. r - w[Len(w) - i] < Window
      BY <1>0, <3>2, <3>4
    <3>6. i < Len(f) /\ Of(f[Len(f) - i], w[Len(w) - i], b)
      BY <3>1, <3>5 DEF Remembers, Alongside
    <3>7. f[Len(f) - i] \in Int
      <4>1. Len(f) - i \in 1..Len(f)
        BY <3>6
      <4> QED
        BY <4>1, ElementOfSeq
    <3>8. f[Len(f) - i] \in Counting(r, b)
      BY <1>1, <3>2, <3>5, <3>6, <3>7
    <3> QED
      BY <3>6, <3>8
  <2>2. j < Len(f) /\ Of(f[Len(f) - j], w[Len(w) - j], b)
    <3>1. j \in 0..j
      OBVIOUS
    <3> QED
      BY <2>1, <3>1
  <2> DEFINE c == j + 1
  <2>3. c \in 0..Len(f) /\ \A i \in 0..(c - 1) : i \in 0..j
    BY <2>2
  <2>4. j \in 0..(c - 1) /\ j < c
    OBVIOUS
  <2> HIDE DEF c
  <2>5. \A i \in 0..(c - 1) : f[Len(f) - i] \in Counting(r, b)
    BY <2>1, <2>3
  <2>6. c <= Len(q) /\ \A i \in 0..(c - 1) : q[Len(q) - i] = f[Len(f) - i]
    <3>1. c \in 0..Len(f) /\ EndsIn(f, c, Counting(r, b))
      BY <2>3, <2>5 DEF EndsIn
    <3>2. SameEnd(q, f, c)
      BY <3>1, KeepEnd
    <3> HIDE DEF q
    <3> QED
      BY <3>2 DEF SameEnd
  <2>7. q[Len(q) - j] = f[Len(f) - j]
    BY <2>4, <2>6
  <2>8. j < Len(q)
    BY <1>2, <2>3, <2>4, <2>6
  <2> QED
    BY <2>2, <2>7, <2>8
<1>4. \E e : Accounts(e, q, w, b)
  <2>1. PICK e : Accounts(e, f, w, b)
    BY DEF Remembers
  <2>2. PICK g : Embeds(g, q, Len(f), f, Counting(r, b))
    BY KeepEmbeds
  <2> DEFINE h == [i \in 1..Len(q) |-> e[g[i]]]
  <2>3. \A i \in 1..Len(q) : g[i] \in 1..Len(f) /\ q[i] = f[g[i]]
    BY <2>2 DEF Embeds
  <2>4. \A i, j \in 1..Len(q) : i # j => g[i] # g[j]
    <3> DEFINE n == Len(q)
    <3>1. \A i, j \in 1..n : i < j => g[i] < g[j]
      BY <2>2 DEF Embeds
    <3>2. \A i \in 1..n : g[i] \in Int
      BY <1>1, <2>3
    <3>3. n \in Nat
      BY <1>2
    <3> HIDE DEF q, n
    <3>4. ASSUME NEW i \in 1..n, NEW j \in 1..n, i # j PROVE g[i] # g[j]
      <4>1. i < j \/ j < i
        BY <3>3, <3>4
      <4> QED
        BY <3>1, <3>2, <4>1
    <3> QED
      BY <3>4 DEF n
  <2>5. Accounts(h, q, w, b)
    <3> HIDE DEF q
    <3> QED
      BY <2>1, <2>3, <2>4 DEF Accounts
  <2> QED
    BY <2>5
<1> QED
  BY <1>2, <1>3, <1>4 DEF Remembers

\* A refusal is remembered with the others.
LEMMA AppendRemembers ==
  ASSUME NEW f \in Seq(Int), NEW w \in Seq(Nat), NEW r \in Nat, NEW b \in Nat,
         Remembers(f, w, r, b)
  PROVE  Remembers(Append(f, r - b), Append(w, r), r, b)
<1> DEFINE q == Append(f, r - b)
           v == Append(w, r)
<1>1. r - b \in Int /\ Of(r - b, r, b) /\ Window \in Nat
  BY ClockAssumption DEF Of
<1>2. /\ q \in Seq(Int) /\ v \in Seq(Nat)
      /\ Len(q) = Len(f) + 1 /\ Len(v) = Len(w) + 1
      /\ Len(f) \in Nat /\ Len(w) \in Nat
      /\ \A i \in 1..Len(f) : q[i] = f[i]
      /\ \A i \in 1..Len(w) : v[i] = w[i]
      /\ q[Len(f) + 1] = r - b /\ v[Len(w) + 1] = r
  BY <1>1, AppendProperties
<1> HIDE DEF q, v
<1>3. InOrder(v, r)
  <2>1. ASSUME NEW n \in 1..Len(v) PROVE v[n] <= r
    <3>1. CASE n = Len(w) + 1
      BY <3>1, <1>2
    <3>2. CASE n \in 1..Len(w)
      BY <3>2, <1>2 DEF Remembers, InOrder
    <3> QED
      BY <1>2, <3>1, <3>2
  <2>2. ASSUME NEW m \in 1..Len(v), NEW n \in 1..Len(v), m <= n
        PROVE  v[m] <= v[n]
    <3>1. CASE n = Len(w) + 1
      <4>1. v[n] = r
        BY <3>1, <1>2
      <4> QED
        BY <2>1, <4>1
    <3>2. CASE n \in 1..Len(w)
      <4>0. m \in 1..Len(w)
        BY <3>2, <2>2
      <4>1. m \in 1..Len(w) /\ v[m] = w[m] /\ v[n] = w[n]
        BY <3>2, <4>0, <1>2
      <4> QED
        BY <3>2, <2>2, <4>1 DEF Remembers, InOrder
    <3> QED
      BY <1>2, <3>1, <3>2
  <2> QED
    BY <2>1, <2>2 DEF InOrder
<1>4. Alongside(q, v, r, b)
  <2> SUFFICES ASSUME NEW j \in 0..(Len(v) - 1), r - v[Len(v) - j] < Window
               PROVE  j < Len(q) /\ Of(q[Len(q) - j], v[Len(v) - j], b)
    BY DEF Alongside
  <2>1. CASE j = 0
    BY <2>1, <1>1, <1>2
  <2>2. CASE j # 0
    <3>1. /\ j - 1 \in 0..(Len(w) - 1) /\ Len(v) - j = Len(w) - (j - 1)
          /\ Len(q) - j = Len(f) - (j - 1) /\ Len(w) - (j - 1) \in 1..Len(w)
      BY <2>2, <1>2
    <3>2. v[Len(v) - j] = w[Len(w) - (j - 1)]
      BY <3>1, <1>2
    <3>3. j - 1 < Len(f) /\ Of(f[Len(f) - (j - 1)], w[Len(w) - (j - 1)], b)
      BY <3>1, <3>2 DEF Remembers, Alongside
    <3>4. q[Len(q) - j] = f[Len(f) - (j - 1)]
      <4>1. Len(f) - (j - 1) \in 1..Len(f)
        BY <3>1, <3>3, <1>2
      <4> QED
        BY <3>1, <4>1, <1>2
    <3> QED
      BY <3>1, <3>2, <3>3, <3>4, <1>2
  <2> QED
    BY <2>1, <2>2
<1>5. \E e : Accounts(e, q, v, b)
  <2>1. PICK e : Accounts(e, f, w, b)
    BY DEF Remembers
  <2> DEFINE m == Len(f)
             n == Len(w)
             h == [i \in 1..(m + 1) |-> IF i = m + 1 THEN n + 1 ELSE e[i]]
  <2>2. m \in Nat /\ n \in Nat /\ Len(q) = m + 1 /\ Len(v) = n + 1
    BY <1>2
  <2>3. e \in [1..m -> 1..n]
    BY <2>1 DEF Accounts
  <2>4. /\ h[Len(q)] = Len(v)
        /\ \A i \in 1..Len(f) : h[i] = e[i] /\ e[i] \in 1..Len(w)
    <3> HIDE DEF m, n
    <3>1. h[m + 1] = n + 1
      BY <2>2
    <3>2. \A i \in 1..m : h[i] = e[i] /\ e[i] \in 1..n
      BY <2>2, <2>3
    <3> QED
      BY <3>1, <3>2, <2>2 DEF m, n
  <2>5. h \in [1..Len(q) -> 1..Len(v)]
    <3> HIDE DEF m, n
    <3>1. h \in [1..(m + 1) -> 1..(n + 1)]
      BY <2>2, <2>3
    <3> QED
      BY <3>1, <2>2
  <2> HIDE DEF m, n, h
  <2>6. \A i, j \in 1..Len(q) : i # j => h[i] # h[j]
    <3> SUFFICES ASSUME NEW i \in 1..Len(q), NEW j \in 1..Len(q), i # j PROVE h[i] # h[j]
      OBVIOUS
    <3>1. CASE i \in 1..Len(f) /\ j \in 1..Len(f)
      BY <3>1, <2>1, <2>4 DEF Accounts
    <3>2. CASE i = Len(q) /\ j \in 1..Len(f)
      <4>1. h[j] \in 1..Len(w) /\ h[i] = Len(w) + 1
        BY <3>2, <2>4, <2>2 DEF m, n
      <4> QED
        BY <4>1, <2>2 DEF n
    <3>3. CASE j = Len(q) /\ i \in 1..Len(f)
      <4>1. h[i] \in 1..Len(w) /\ h[j] = Len(w) + 1
        BY <3>3, <2>4, <2>2 DEF m, n
      <4> QED
        BY <4>1, <2>2 DEF n
    <3>4. \A k \in 1..Len(q) : k \in 1..Len(f) \/ k = Len(q)
      BY <2>2 DEF m
    <3> QED
      BY <3>1, <3>2, <3>3, <3>4
  <2>7. \A i \in 1..Len(q) : Of(q[i], v[h[i]], b)
    <3> TAKE i \in 1..Len(q)
    <3>1. CASE i \in 1..Len(f)
      BY <3>1, <2>1, <2>4, <1>2 DEF Accounts
    <3>2. CASE i = Len(q)
      BY <3>2, <2>4, <1>1, <1>2
    <3> QED
      BY <3>1, <3>2, <1>2
  <2> QED
    BY <2>5, <2>6, <2>7 DEF Accounts
<1> QED
  BY <1>3, <1>4, <1>5 DEF Remembers, q, v

LEMMA EmptyRemembers == \A r, b : Remembers(<<>>, <<>>, r, b)
<1> TAKE r, b
<1>1. Len(<<>>) = 0
  OBVIOUS
<1>2. InOrder(<<>>, r) /\ Alongside(<<>>, <<>>, r, b)
  BY <1>1 DEF InOrder, Alongside
<1> DEFINE e == [i \in 1..0 |-> 0]
<1>3. e \in [1..0 -> 1..0]
  OBVIOUS
<1> HIDE DEF e
<1>4. Accounts(e, <<>>, <<>>, b)
  BY <1>1, <1>3 DEF Accounts
<1> QED
  BY <1>2, <1>4 DEF Remembers

LEMMA ListsInit == Init => Lists
<1> SUFFICES ASSUME Init PROVE Lists
  OBVIOUS
<1>1. \A ip \in Ips : failures[ip] = <<>> /\ wrong[ip] = <<>>
  BY DEF Init
<1>2. Len(<<>>) = 0 /\ <<>> \in Seq(Int) /\ <<>> \in Seq(Nat)
  OBVIOUS
<1>3. Remembers(<<>>, <<>>, real, back)
  BY EmptyRemembers
<1>4. MaxFailures \in Nat
  BY ClockAssumption
<1>5. failures \in [Ips -> Seq(Int)] /\ wrong \in [Ips -> Seq(Nat)]
  BY <1>2 DEF Init
<1> QED
  BY <1>1, <1>2, <1>3, <1>4, <1>5 DEF Init, Lists, Idle

\* The passing of time, or a correction of the clock, leaves what is remembered as
\* good as it was.
LEMMA ClockRemembers ==
  ASSUME NEW f \in Seq(Int), NEW w \in Seq(Nat), NEW r \in Nat, NEW b \in Nat,
         Remembers(f, w, r, b),
         NEW r2 \in {r, r + 1}, NEW b2 \in {b, b + 1}
  PROVE  Remembers(f, w, r2, b2)
<1>1. /\ \A i \in 1..Len(w) : w[i] \in Nat
      /\ \A j \in 0..(Len(w) - 1) : Len(w) - j \in 1..Len(w)
  BY ElementOfSeq
<1>2. \A x \in Int, y \in Nat : Of(x, y, b) => Of(x, y, b2)
  BY DEF Of
<1>3. /\ \A y \in Nat : y <= r => y <= r2
      /\ \A y \in Nat : r2 - y < Window => r - y < Window
  BY ClockAssumption
<1>4. InOrder(w, r2)
  BY <1>1, <1>3 DEF Remembers, InOrder
<1>5. Alongside(f, w, r2, b2)
  <2> SUFFICES ASSUME NEW j \in 0..(Len(w) - 1), r2 - w[Len(w) - j] < Window
               PROVE  j < Len(f) /\ Of(f[Len(f) - j], w[Len(w) - j], b2)
    BY DEF Alongside
  <2>1. w[Len(w) - j] \in Nat
    BY <1>1
  <2>2. j < Len(f) /\ Of(f[Len(f) - j], w[Len(w) - j], b)
    BY <1>3, <2>1 DEF Remembers, Alongside
  <2>3. Len(f) - j \in 1..Len(f)
    BY <2>2
  <2>4. f[Len(f) - j] \in Int
    BY <2>3, ElementOfSeq
  <2> QED
    BY <1>2, <2>1, <2>2, <2>4
<1>6. PICK e : Accounts(e, f, w, b)
  BY DEF Remembers
<1>7. \A i \in 1..Len(f) : f[i] \in Int /\ w[e[i]] \in Nat
  <2> TAKE i \in 1..Len(f)
  <2>1. e[i] \in 1..Len(w)
    BY <1>6 DEF Accounts
  <2> QED
    BY <1>1, <2>1, ElementOfSeq
<1>8. Accounts(e, f, w, b2)
  BY <1>2, <1>6, <1>7 DEF Accounts
<1> QED
  BY <1>4, <1>5, <1>8 DEF Remembers

LEMMA ListsStep == IInv /\ Lists /\ [Next]_vars => Lists'
<1> SUFFICES ASSUME IInv, Lists, [Next]_vars PROVE Lists'
  OBVIOUS
<1> USE DEF clocks, process
<1>1. real \in Nat /\ back \in Nat /\ MaxFailures \in Nat
  BY ClockAssumption DEF IInv, Types
<1>2. \A ip \in Ips :
        /\ failures[ip] \in Seq(Int) /\ wrong[ip] \in Seq(Nat)
        /\ Len(failures[ip]) \in Nat /\ Len(failures[ip]) <= MaxFailures
        /\ Remembers(failures[ip], wrong[ip], real, back)
        /\ Recent(ip) \in Seq(Int) /\ Len(Recent(ip)) <= Len(failures[ip])
        /\ Remembers(Recent(ip), wrong[ip], real, back)
  <2> TAKE ip \in Ips
  <2>1. /\ failures[ip] \in Seq(Int) /\ wrong[ip] \in Seq(Nat)
        /\ Len(failures[ip]) <= MaxFailures
        /\ Remembers(failures[ip], wrong[ip], real, back)
    BY DEF Lists
  <2>2. Recent(ip) = Keep(failures[ip], Counting(real, back))
    BY DEF Recent, Counting, now
  <2>3. Len(failures[ip]) \in Nat
    BY <2>1
  <2> QED
    BY <1>1, <2>1, <2>2, <2>3, KeepRemembers
<1>3. ASSUME NEW ip \in Ips, NEW uid \in Users \cup {Guest}, NEW p \in Passwords,
             LoginPost(ip, uid, p)
      PROVE  Lists'
  <2>1. /\ failures' = [failures EXCEPT ![ip] = Recent(ip)]
        /\ UNCHANGED <<real, back, wrong>>
    BY <1>3 DEF LoginPost
  <2>2. login' # Idle => login'.ip = ip /\ ~Limited(ip)
    BY <1>3 DEF LoginPost
  <2> DEFINE q == Recent(ip)
  <2>3. /\ q \in Seq(Int) /\ Len(q) <= MaxFailures /\ Remembers(q, wrong[ip], real, back)
        /\ ~Limited(ip) => Len(q) < MaxFailures
    <3>1. q \in Seq(Int) /\ Len(q) <= Len(failures[ip]) /\ Remembers(q, wrong[ip], real, back)
      BY <1>2
    <3>2. Len(q) \in Nat
      BY <3>1
    <3> QED
      BY <1>1, <1>2, <3>1, <3>2 DEF Limited
  <2> HIDE DEF q
  <2>4. failures' \in [Ips -> Seq(Int)]
    BY <2>1, <2>3 DEF Lists, q
  <2>5. failures'[ip] = q /\ \A i \in Ips \ {ip} : failures'[i] = failures[i]
    BY <2>1 DEF Lists, q
  <2> QED
    BY <2>1, <2>2, <2>3, <2>4, <2>5 DEF Lists
<1>4. CASE LoginVerify
  <2>1. login # Idle /\ login.pc = "load" /\ login.ip \in Ips
    BY <1>4 DEF LoginVerify, IInv, Types, LoginStates, Idle
  <2>2. login' # Idle => login'.pc = "write"
    BY <1>4, <2>1 DEF LoginVerify, IInv, Types, LoginStates, Idle
  <2>3. CASE UNCHANGED <<failures, wrong>>
    BY <1>4, <2>2, <2>3 DEF LoginVerify, Lists
  <2>4. CASE /\ RecordLoginFailure(login.ip)
             /\ wrong' = [wrong EXCEPT ![login.ip] = Append(@, real)]
    <3> DEFINE ip == login.ip
               q == Append(Recent(ip), real - back)
               v == Append(wrong[ip], real)
    <3>1. failures' = [failures EXCEPT ![ip] = q] /\ wrong' = [wrong EXCEPT ![ip] = v]
      BY <2>4 DEF RecordLoginFailure, now
    <3>2. UNCHANGED <<real, back>>
      BY <1>4 DEF LoginVerify
    <3>3. /\ q \in Seq(Int) /\ v \in Seq(Nat) /\ Len(q) <= MaxFailures
          /\ Remembers(q, v, real, back)
      <4>1. /\ Recent(ip) \in Seq(Int) /\ Len(Recent(ip)) < MaxFailures
            /\ wrong[ip] \in Seq(Nat) /\ Remembers(Recent(ip), wrong[ip], real, back)
        <5>1. Len(failures[ip]) < MaxFailures
          BY <2>1 DEF Lists
        <5>2. Recent(ip) \in Seq(Int) /\ Len(Recent(ip)) <= Len(failures[ip])
          BY <1>2, <2>1
        <5>3. Len(Recent(ip)) \in Nat /\ Len(failures[ip]) \in Nat
          BY <1>2, <2>1, <5>2
        <5> QED
          BY <1>1, <1>2, <2>1, <5>1, <5>2, <5>3
      <4>2. real - back \in Int
        BY <1>1
      <4>3. q \in Seq(Int) /\ v \in Seq(Nat) /\ Len(q) = Len(Recent(ip)) + 1
        BY <1>1, <4>1, <4>2, AppendProperties
      <4>4. Len(Recent(ip)) \in Nat
        BY <4>1
      <4>5. Remembers(q, v, real, back)
        BY <1>1, <4>1, AppendRemembers
      <4> QED
        BY <1>1, <4>1, <4>3, <4>4, <4>5
    <3> HIDE DEF q, v, ip
    <3>4. ip \in Ips
      BY <2>1 DEF ip
    <3>5. failures' \in [Ips -> Seq(Int)] /\ wrong' \in [Ips -> Seq(Nat)]
      BY <3>1, <3>3, <3>4 DEF Lists
    <3>6. /\ failures'[ip] = q /\ wrong'[ip] = v
          /\ \A i \in Ips \ {ip} : failures'[i] = failures[i] /\ wrong'[i] = wrong[i]
      BY <3>1, <3>4 DEF Lists
    <3> QED
      BY <2>2, <3>2, <3>3, <3>4, <3>5, <3>6 DEF Lists
  <2> QED
    BY <1>4, <2>3, <2>4 DEF LoginVerify
<1>5. CASE LoginWrite
  <2>1. login # Idle /\ login'.pc = "mint"
    BY <1>5 DEF LoginWrite, IInv, Types, LoginStates, Idle
  <2> QED
    BY <1>5, <2>1 DEF LoginWrite, Lists
<1>6. CASE LoginMint \/ LoginFails
  BY <1>6 DEF LoginMint, LoginFails, Lists
<1>7. CASE Restart
  <2>1. \A ip \in Ips : failures'[ip] = <<>> /\ wrong'[ip] = <<>>
    BY <1>7 DEF Restart
  <2>2. login' = Idle /\ failures' = [i \in Ips |-> <<>>] /\ wrong' = [i \in Ips |-> <<>>]
    BY <1>7 DEF Restart
  <2>3. Len(<<>>) = 0 /\ <<>> \in Seq(Int) /\ <<>> \in Seq(Nat)
    OBVIOUS
  <2>4. failures' \in [Ips -> Seq(Int)] /\ wrong' \in [Ips -> Seq(Nat)]
    BY <2>2, <2>3
  <2> QED
    BY <1>1, <2>1, <2>2, <2>3, <2>4, EmptyRemembers DEF Lists
<1>8. CASE Tick \/ SetBack
  <2>1. real' \in {real, real + 1} /\ back' \in {back, back + 1}
        /\ UNCHANGED <<failures, wrong, login>>
    BY <1>8 DEF Tick, SetBack
  <2>2. \A ip \in Ips : Remembers(failures[ip], wrong[ip], real', back')
    BY <1>1, <1>2, <2>1, ClockRemembers
  <2> QED
    BY <2>1, <2>2 DEF Lists
<1>9. CASE UNCHANGED <<real, back, failures, wrong, login>>
  BY <1>9 DEF Lists
<1> QED
  BY <1>3, <1>4, <1>5, <1>6, <1>7, <1>8, <1>9
  DEF Next, vars, LoginGuest, UpstreamWrites

LEMMA ListsInvariant == Spec => []Lists
<1> QED
  BY InductiveInvariant, ListsInit, ListsStep, PTL DEF Spec

LEMMA LimitFollows == IInv /\ Dated /\ Lists => LimitIsExact
<1> SUFFICES ASSUME IInv, Dated, Lists, NEW ip \in Ips
             PROVE  /\ WrongWithin(ip, Window) <= MaxFailures
                    /\ Limited(ip) => WrongWithin(ip, Window + MaxBack) >= MaxFailures
  BY DEF LimitIsExact, WrongPasswordsLimited, LockoutIsEarned
<1> DEFINE f == failures[ip]
           w == wrong[ip]
           q == Recent(ip)
           Within(d) == {n \in DOMAIN w : real - w[n] < d}
<1>1. /\ real \in Nat /\ back \in Nat /\ back <= MaxBack
      /\ Window \in Nat /\ MaxFailures \in Nat /\ MaxBack \in Nat
  BY ClockAssumption DEF IInv, Types, Dated
<1>2. /\ f \in Seq(Int) /\ w \in Seq(Nat) /\ Len(f) <= MaxFailures
      /\ InOrder(w, real) /\ Alongside(f, w, real, back) /\ \E e : Accounts(e, f, w, back)
  BY DEF Lists, Remembers
<1>3. q = Keep(f, Counting(real, back))
  BY DEF Recent, Counting, now
<1>4. WrongWithin(ip, Window) = Cardinality(Within(Window))
      /\ WrongWithin(ip, Window + MaxBack) = Cardinality(Within(Window + MaxBack))
      /\ (Limited(ip) => Len(q) >= MaxFailures)
  BY DEF WrongWithin, Limited
<1> HIDE DEF f, w, q
<1>5. /\ Len(f) \in Nat /\ Len(w) \in Nat /\ DOMAIN w = 1..Len(w)
      /\ \A n \in 1..Len(w) : w[n] \in Nat
  BY <1>2, ElementOfSeq, LenProperties
<1>6. Cardinality(Within(Window)) <= MaxFailures
  <2> DEFINE End == (Len(w) - Len(f) + 1)..Len(w)
  <2>1. ASSUME NEW n \in Within(Window) PROVE n \in End
    <3>1. n \in 1..Len(w) /\ real - w[n] < Window
      BY <1>5
    <3>2. Len(w) - n \in 0..(Len(w) - 1) /\ Len(w) - (Len(w) - n) = n
      BY <1>5, <3>1
    <3>3. Len(w) - n < Len(f)
      BY <1>2, <3>1, <3>2 DEF Alongside
    <3> QED
      BY <1>5, <3>1, <3>3
  <2>2. /\ IsFiniteSet(End) /\ Cardinality(End) = Len(f)
    <3>1. Len(w) - Len(f) + 1 \in Int /\ Len(w) \in Int
      BY <1>5
    <3>2. /\ IsFiniteSet(End)
          /\ Cardinality(End) = IF Len(w) - Len(f) + 1 > Len(w) THEN 0
                                ELSE Len(w) - (Len(w) - Len(f) + 1) + 1
      BY <3>1, FS_Interval
    <3> HIDE DEF End
    <3> QED
      BY <1>5, <3>2
  <2>3. Within(Window) \in SUBSET End
    BY <2>1
  <2> HIDE DEF Within, End
  <2>4. Cardinality(Within(Window)) <= Cardinality(End) /\ IsFiniteSet(Within(Window))
    BY <2>2, <2>3, FS_Subset
  <2>5. Cardinality(Within(Window)) \in Nat
    BY <2>4, FS_CardinalityType
  <2> QED
    BY <1>1, <1>2, <1>5, <2>2, <2>4, <2>5
<1>7. ASSUME Len(q) >= MaxFailures
      PROVE  Cardinality(Within(Window + MaxBack)) >= MaxFailures
  <2> DEFINE W == Within(Window + MaxBack)
  <2>1. PICK e : Accounts(e, f, w, back)
    BY <1>2
  <2>2. PICK g : q \in Seq(Int) /\ Embeds(g, q, Len(f), f, Counting(real, back))
    BY <1>2, <1>3, KeepEmbeds
  <2> DEFINE h == [i \in 1..Len(q) |-> e[g[i]]]
  <2>3. ASSUME NEW i \in 1..Len(q) PROVE h[i] \in W
    <3>1. g[i] \in 1..Len(f) /\ q[i] = f[g[i]] /\ q[i] \in Counting(real, back)
      BY <2>2 DEF Embeds
    <3>2. e[g[i]] \in 1..Len(w) /\ Of(f[g[i]], w[e[g[i]]], back)
      BY <2>1, <3>1 DEF Accounts
    <3>3. w[e[g[i]]] \in Nat /\ q[i] \in Int /\ (real - back) - q[i] < Window
      BY <1>5, <3>1, <3>2 DEF Counting
    <3>4. q[i] <= w[e[g[i]]]
      BY <3>1, <3>2, <3>3 DEF Of
    <3>5. real - w[e[g[i]]] < Window + MaxBack
      BY <1>1, <3>3, <3>4
    <3> QED
      BY <1>5, <3>2, <3>5
  <2>4. \A i, j \in 1..Len(q) : i # j => h[i] # h[j]
    <3> SUFFICES ASSUME NEW i \in 1..Len(q), NEW j \in 1..Len(q), i # j PROVE h[i] # h[j]
      OBVIOUS
    <3>1. g[i] \in 1..Len(f) /\ g[j] \in 1..Len(f)
      BY <2>2 DEF Embeds
    <3>2. g[i] # g[j]
      BY <2>2, <3>1 DEF Embeds
    <3> QED
      BY <2>1, <3>1, <3>2 DEF Accounts
  <2>5. h \in Injection(1..Len(q), W)
    <3>1. h = [i \in 1..Len(q) |-> h[i]]
      OBVIOUS
    <3> HIDE DEF h, W
    <3>2. h \in [1..Len(q) -> W]
      BY <2>3, <3>1
    <3> QED
      BY <2>4, <3>2 DEF Injection, IsInjective
  <2>6. IsFiniteSet(W)
    <3>1. IsFiniteSet(1..Len(w))
      BY <1>5, FS_Interval
    <3>2. W \in SUBSET (1..Len(w))
      BY <1>5
    <3> HIDE DEF W
    <3> QED
      BY <3>1, <3>2, FS_Subset
  <2>7. Cardinality(1..Len(q)) <= Cardinality(W)
    <3> HIDE DEF h, W
    <3> QED
      BY <2>5, <2>6, FS_Injection
  <2>8. Len(q) \in Nat
    BY <2>2
  <2>9. Cardinality(1..Len(q)) = Len(q)
    <3>1. 1 \in Int /\ Len(q) \in Int
      BY <2>8
    <3>2. Cardinality(1..Len(q)) = IF 1 > Len(q) THEN 0 ELSE Len(q) - 1 + 1
      BY <3>1, FS_Interval
    <3> QED
      BY <2>8, <3>2
  <2>10. Cardinality(W) \in Nat
    <3> HIDE DEF W
    <3> QED
      BY <2>6, FS_CardinalityType
  <2> HIDE DEF W
  <2>11. Cardinality(W) >= MaxFailures
    BY <1>1, <1>7, <2>7, <2>8, <2>9, <2>10
  <2> QED
    BY <2>11 DEF W
<1> HIDE DEF Within
<1> QED
  BY <1>4, <1>6, <1>7

\* An address is refused as many passwords in a window as login.py:_login_limited
\* allows, never more, and locked out only by so many: for any limit and window,
\* whatever the clock's corrections, and although the list of failures is pruned
\* when it is read and when it is written.
THEOREM LimitHolds == Spec => []LimitIsExact
<1> QED
  BY InductiveInvariant, DatedInvariant, ListsInvariant, LimitFollows, PTL

-----------------------------------------------------------------------------
LEMMA TypeFollows == IInv /\ Dated /\ Lists => TypeOK
<1> SUFFICES ASSUME IInv, Dated, Lists PROVE TypeOK
  OBVIOUS
<1>1. /\ real \in Nat /\ back \in 0..MaxBack /\ boot \in Nat /\ minted \in Nat
      /\ users \in [Users -> Config] /\ guestSecret \in Nat \ {0}
      /\ login \in LoginStates /\ tokens \in SUBSET Token /\ \A t \in tokens : t.secret # 0
  BY ClockAssumption DEF IInv, Types, Dated
<1>2. guestSecret \in 1..minted /\ minted \in Nat \ {0}
  <2>1. guestSecret <= minted
    BY <1>1 DEF IInv, Drawn, Belongs, People
  <2> QED
    BY <1>1, <2>1
<1>3. \A t \in tokens : t.secret \in 1..minted
  <2> TAKE t \in tokens
  <2>1. t.uid \in People /\ t.secret \in Nat
    BY <1>1 DEF Token, People
  <2>2. t.secret <= minted
    BY <2>1 DEF IInv, Drawn, Belongs
  <2> QED
    BY <1>1, <2>1, <2>2
<1>4. \A u \in Users : users[u].secret <= minted
  BY <1>1 DEF IInv, Drawn, Belongs, People, Config
<1>5. login # Idle => login.config.secret <= minted
  <2> SUFFICES ASSUME login # Idle PROVE login.config.secret <= minted
    OBVIOUS
  <2>1. login.uid \in People /\ login.config.secret \in Nat
    BY <1>1 DEF LoginStates, Config, People
  <2> QED
    BY <2>1 DEF IInv, Drawn, Belongs
<1> QED
  BY <1>1, <1>2, <1>3, <1>4, <1>5 DEF TypeOK, Lists

\* The states of login.py and session.py have their types, and no secret in use is
\* one that is still to be drawn.
THEOREM TypeCorrect == Spec => []TypeOK
<1> QED
  BY InductiveInvariant, DatedInvariant, ListsInvariant, TypeFollows, PTL
=============================================================================
