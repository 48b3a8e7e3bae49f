SPECIFICATION Spec
CONSTANTS
  Tokens = {t1}
  TTL = 1
  MaxTime = 3
  Clients = {c1}
  Requests = {r1}
  NoToken = NoToken
  MaxCsrf = 3
SYMMETRY Symmetry
INVARIANTS LiveIsKept
