SPECIFICATION Spec
CONSTANTS
  Users = {u1, u2}
  Guest = Guest
  Passwords = {p1, p2}
  NoPassword = NoPassword
  Ips = {i1}
  NoCookie = NoCookie
  MaxAge = 1
  Skew = 1
  Window = 2
  MaxFailures = 2
  MaxBack = 1
  MaxTime = 3
  MaxBoots = 2
  MaxSecrets = 3
  MaxTokens = 1
SYMMETRY Symmetry
CHECK_DEADLOCK FALSE
INVARIANTS
  TypeOK
  LimitIsExact
  CookieLifetime
  SecretsApart
PROPERTIES
  RevokedForGood
  LoginKeepsSessions
