SPECIFICATION FairSpec
CONSTANTS
  Tokens = {t1, t2}
  TTL = 1
  MaxTime = 3
  Clients = {c1}
  Requests = {r1}
  NoToken = NoToken
  MaxCsrf = 4
PROPERTIES ExpiredIsRemoved
