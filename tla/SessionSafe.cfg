SPECIFICATION Spec
CONSTANTS
  Tokens = {t1, t2}
  TTL = 1
  MaxTime = 2
  Clients = {c1}
  Requests = {r1, r2}
  NoToken = NoToken
  MaxCsrf = 3
SYMMETRY Symmetry
INVARIANTS TypeOK LoggedOutStaysOut KeptUnlessTimedOut CookieHasUser CsrfAgrees
