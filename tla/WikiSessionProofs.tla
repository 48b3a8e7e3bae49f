--------------------------- MODULE WikiSessionProofs ---------------------------
(***************************************************************************)
(* Theorems about requests and sessions, for every number of tokens,       *)
(* browsers and requests, every SESSION_TTL and every bound.               *)
(***************************************************************************)
EXTENDS WikiSession, FiniteSetTheorems, TLAPS

USE SessionAssumption, WikiSessionAssumption
USE DEF browserVars

Stages == {"idle", "lookup", "check", "drop", "renew", "guest", "acc", "csrf",
           "verify", "destroy", "answer"}

Cookies == [token : Tokens \cup {NoToken, Keep}, csrf : Nat]

Request ==
  [at : Stages, kind : Kinds, client : Clients \cup {NoToken},
   token : Tokens \cup {NoToken}, form : Nat, out : Cookies]

(* A token whose session has a user, if it is one.                         *)
Known(t) == t \in Tokens => acc[t]

(* What a handler may rely on at each of its steps: it has found its token *)
(* in the map, it has found it timed out, or it has just drawn it and set  *)
(* no user yet.                                                            *)
RequestOK(q) ==
  /\ q.at \in {"check", "drop", "renew", "verify", "destroy"} => q.token \in used
  /\ q.at = "drop" => q.token \in timedOut
  /\ q.at = "acc" => q.token \in Tokens /\ q.out.token = q.token
  /\ q.at # "acc" => Known(q.token) /\ Known(q.out.token)

WikiShape ==
  /\ acc \in [Tokens -> BOOLEAN]
  /\ csrf \in [Tokens -> Nat]
  /\ drawn \in Nat
  /\ jar \in [Clients -> [token : Tokens \cup {NoToken}, csrf : Nat]]
  /\ req \in [Requests -> Request]

TokensOK ==
  /\ cookie \subseteq used
  /\ used \subseteq Tokens
  /\ destroyed \subseteq used
  /\ sweep.rm \subseteq timedOut

Inv ==
  /\ WikiShape
  /\ TokensOK
  /\ LoggedOutStaysOut
  /\ KeptUnlessTimedOut
  /\ CookieHasUser
  /\ \A r \in Requests : RequestOK(req[r])

(* Histories and user names are only added to.                             *)
Grows ==
  /\ used \subseteq used'
  /\ timedOut \subseteq timedOut'
  /\ \A t \in Tokens : acc[t] => acc'[t]

(* The other requests stay right when one of them moves.                   *)
LEMMA OneMoves ==
  ASSUME Inv, NEW r \in Requests, \A p \in Requests \ {r} : req'[p] = req[p],
         RequestOK(req[r])', Grows
  PROVE  (\A p \in Requests : RequestOK(req[p]))'
<1> SUFFICES ASSUME NEW p \in Requests \ {r} PROVE RequestOK(req[p])'
  OBVIOUS
<1>1. req'[p] = req[p] /\ RequestOK(req[p]) /\ req[p] \in Request
  BY DEF Inv, WikiShape
<1> QED BY <1>1 DEF RequestOK, Known, Grows, Request, Cookies

(* A step of the clock or of the cleaner, or none at all.                  *)
LEMMA NoneMoves ==
  ASSUME Inv, UNCHANGED wikiVars, Grows
  PROVE  WikiShape' /\ CookieHasUser' /\ (\A r \in Requests : RequestOK(req[r]))'
  BY DEF Inv, WikiShape, CookieHasUser, wikiVars, Grows, RequestOK, Known

(* With no session and no request, everything holds.                       *)
LEMMA InvInit == Init => Inv
<1> SUFFICES ASSUME Init PROVE Inv
  OBVIOUS
<1>1. Quiet \in Request /\ Quiet.at = "idle"
  BY DEF Quiet, Request, Cookies, Stages, Kinds, Keep
<1>2. Known(Quiet.token) /\ Known(Quiet.out.token)
  BY DEF Quiet, Keep, Known
<1>3. RequestOK(Quiet)
  BY <1>1, <1>2 DEF RequestOK
<1>4. WikiShape /\ \A r \in Requests : RequestOK(req[r])
  BY <1>1, <1>3 DEF Init, WikiShape
<1> QED
  BY <1>4 DEF Inv, Init, SessInit, TokensOK, LoggedOutStaysOut, KeptUnlessTimedOut,
              CookieHasUser

-----------------------------------------------------------------------------
(* A step of one request that leaves the cookies of the browsers alone.    *)
LEMMA Moves ==
  ASSUME Inv, NEW r \in Requests, req' \in [Requests -> Request],
         \A p \in Requests \ {r} : req'[p] = req[p],
         RequestOK(req[r])', Grows, UNCHANGED jar,
         acc' \in [Tokens -> BOOLEAN], csrf' \in [Tokens -> Nat], drawn' \in Nat,
         TokensOK', LoggedOutStaysOut', KeptUnlessTimedOut'
  PROVE  Inv'
<1>1. WikiShape' /\ (\A p \in Requests : RequestOK(req[p]))'
  BY OneMoves DEF Inv, WikiShape
<1>2. CookieHasUser'
  BY DEF Inv, WikiShape, CookieHasUser, Grows
<1> QED BY <1>1, <1>2 DEF Inv

(* A handler goes on to a stage: what that stage relies on must hold.      *)
LEMMA GoesTo ==
  ASSUME Inv, NEW r \in Requests, NEW s \in Stages, GoTo(r, s), s # "acc",
         UNCHANGED jar, Grows,
         s \in {"check", "drop", "renew", "verify", "destroy"} => req[r].token \in used',
         s = "drop" => req[r].token \in timedOut',
         req[r].at = "acc" => acc'[req[r].token],
         acc' \in [Tokens -> BOOLEAN], csrf' \in [Tokens -> Nat], drawn' \in Nat,
         TokensOK', LoggedOutStaysOut', KeptUnlessTimedOut'
  PROVE  Inv'
<1>1. req \in [Requests -> Request] /\ req[r] \in Request /\ RequestOK(req[r])
  BY DEF Inv, WikiShape
<1>2. PICK q \in Request : q = [req[r] EXCEPT !.at = s]
  BY <1>1 DEF Request
<1>3. q.at = s /\ q.token = req[r].token /\ q.out = req[r].out
  BY <1>1, <1>2 DEF Request
<1>4. req' = [req EXCEPT ![r] = q]
  BY <1>2 DEF GoTo
<1>5. req'[r] = q
  BY <1>1, <1>4
<1>6. Known(req[r].token)' /\ Known(req[r].out.token)'
  <2>1. CASE req[r].at = "acc"
    BY <1>1, <1>3, <1>5, <2>1 DEF RequestOK, Known
  <2>2. CASE req[r].at # "acc"
    BY <1>1, <1>3, <1>5, <2>2 DEF RequestOK, Known, Grows
  <2> QED BY <2>1, <2>2
<1>7. RequestOK(req[r])'
  BY <1>3, <1>5, <1>6 DEF RequestOK
<1> QED BY <1>1, <1>4, <1>7, Moves

(* Steps of a handler that read the session store and change nothing in it.*)
LEMMA ReadStep ==
  ASSUME Inv, NEW r \in Requests, Lookup(r) \/ Guest(r) \/ Verify(r)
  PROVE  Inv'
<1>1. Grows /\ TokensOK' /\ LoggedOutStaysOut' /\ KeptUnlessTimedOut' /\ UNCHANGED jar
  BY DEF Inv, Lookup, Guest, Verify, sessVars, Grows, TokensOK, LoggedOutStaysOut,
         KeptUnlessTimedOut
<1>2. acc' \in [Tokens -> BOOLEAN] /\ csrf' \in [Tokens -> Nat] /\ drawn' \in Nat
  BY DEF Inv, WikiShape, Lookup, Guest, Verify
<1>3. used' = used /\ cookie \subseteq used /\ RequestOK(req[r])
  BY DEF Inv, TokensOK, Lookup, Guest, Verify, sessVars
<1>4. CASE Lookup(r)
  <2>1. PICK s \in {"check", "guest"} :
          GoTo(r, s) /\ (s = "check" => req[r].token \in cookie)
    BY <1>4 DEF Lookup
  <2> QED BY <1>1, <1>2, <1>3, <1>4, <2>1, GoesTo DEF Lookup, Stages
<1>5. CASE Guest(r)
  BY <1>1, <1>2, <1>5, GoesTo DEF Guest, Stages
<1>6. CASE Verify(r)
  <2>1. PICK s \in {"destroy", "answer"} : GoTo(r, s)
    BY <1>6 DEF Verify
  <2> QED BY <1>1, <1>2, <1>3, <1>6, <2>1, GoesTo DEF Verify, Stages, RequestOK
<1> QED BY <1>4, <1>5, <1>6

(* GetOrRenew: what was found timed out is noted before it is deleted.     *)
LEMMA GetStep ==
  ASSUME Inv, NEW r \in Requests, Check(r) \/ DropSess(r)
  PROVE  Inv'
<1>1. RequestOK(req[r]) /\ UNCHANGED jar
  BY DEF Inv, Check, DropSess
<1>2. acc' \in [Tokens -> BOOLEAN] /\ csrf' \in [Tokens -> Nat] /\ drawn' \in Nat
  BY DEF Inv, WikiShape, Check, DropSess
<1>3. Grows /\ TokensOK' /\ used' = used
  BY DEF Inv, Check, CheckTimeout, DropSess, Drop, Grows, TokensOK
<1>4. LoggedOutStaysOut' /\ KeptUnlessTimedOut'
  BY <1>1 DEF Inv, Check, CheckTimeout, DropSess, Drop, RequestOK, LoggedOutStaysOut,
              KeptUnlessTimedOut
<1>5. CASE Check(r)
  <2>1. PICK s \in {"drop", "renew"} :
          GoTo(r, s) /\ (s = "drop" => req[r].token \in timedOut')
    BY <1>5 DEF Check, CheckTimeout
  <2> QED BY <1>1, <1>2, <1>3, <1>4, <1>5, <2>1, GoesTo DEF Check, Stages, RequestOK
<1>6. CASE DropSess(r)
  BY <1>1, <1>2, <1>3, <1>4, <1>6, GoesTo DEF DropSess, Stages
<1> QED BY <1>5, <1>6

(* The session a handler renews, names or gives a CSRF token is not taken  *)
(* out of the map or put back into it.                                     *)
LEMMA UseStep ==
  ASSUME Inv, NEW r \in Requests, RenewSess(r) \/ SetAcc(r) \/ UpdateCSRF(r)
  PROVE  Inv'
<1>1. /\ req \in [Requests -> Request] /\ req[r] \in Request /\ RequestOK(req[r])
      /\ acc \in [Tokens -> BOOLEAN] /\ csrf \in [Tokens -> Nat] /\ drawn \in Nat
  BY DEF Inv, WikiShape
<1>2. UNCHANGED <<jar, cookie, used, timedOut, destroyed, sweep>>
  BY DEF RenewSess, Renew, SetAcc, UpdateCSRF, sessVars
<1>3. Grows /\ TokensOK' /\ LoggedOutStaysOut' /\ KeptUnlessTimedOut'
  BY <1>1, <1>2 DEF Inv, Grows, TokensOK, LoggedOutStaysOut, KeptUnlessTimedOut,
                    RenewSess, SetAcc, UpdateCSRF
<1>4. CASE RenewSess(r)
  <2>1. PICK stage \in {"csrf", "answer", "verify"} : stage = AfterGetSess[req[r].kind]
    BY <1>1 DEF AfterGetSess, Request, Kinds
  <2>2. PICK q \in Request :
          q = [req[r] EXCEPT !.at = stage, !.out.token = req[r].token]
    BY <1>1 DEF Request, Cookies, Stages
  <2>3. /\ q.at = stage /\ q.token = req[r].token /\ q.out.token = req[r].token
    BY <1>1, <2>2 DEF Request, Cookies
  <2>4. req' = [req EXCEPT ![r] = q]
    BY <1>4, <2>1, <2>2 DEF RenewSess
  <2>5. req'[r] = q /\ req' \in [Requests -> Request]
    BY <1>1, <2>4
  <2>6. req[r].at = "renew" /\ acc' = acc
    BY <1>4 DEF RenewSess
  <2>7. RequestOK(req[r])'
    BY <1>1, <1>2, <2>3, <2>5, <2>6 DEF RequestOK, Known
  <2> QED BY <1>1, <1>2, <1>3, <1>4, <2>4, <2>5, <2>7, Moves DEF RenewSess
<1>5. CASE SetAcc(r)
  <2>1. req[r].token \in Tokens
    BY <1>1, <1>5 DEF SetAcc, RequestOK
  <2>2. acc' \in [Tokens -> BOOLEAN] /\ acc'[req[r].token]
    BY <1>1, <1>5, <2>1 DEF SetAcc
  <2> QED BY <1>1, <1>2, <1>3, <1>5, <2>1, <2>2, GoesTo DEF SetAcc, Stages
<1>6. CASE UpdateCSRF(r)
  <2>0. drawn' \in Nat
    BY <1>1, <1>6 DEF UpdateCSRF
  <2>1. csrf' \in [Tokens -> Nat] /\ acc' = acc
    BY <1>1, <1>6, <2>0 DEF UpdateCSRF
  <2>2. PICK q \in Request :
          q = [req[r] EXCEPT !.at = "answer", !.out.csrf = drawn']
    BY <1>1, <2>0 DEF Request, Cookies, Stages
  <2>3. q.at = "answer" /\ q.token = req[r].token /\ q.out.token = req[r].out.token
    BY <1>1, <2>2 DEF Request, Cookies
  <2>4. req' = [req EXCEPT ![r] = q]
    BY <1>6, <2>2 DEF UpdateCSRF
  <2>5. req'[r] = q /\ req' \in [Requests -> Request]
    BY <1>1, <2>4
  <2>6. RequestOK(req[r])'
    BY <1>1, <1>6, <2>1, <2>3, <2>5 DEF UpdateCSRF, RequestOK, Known
  <2> QED BY <1>1, <1>2, <1>3, <2>0, <2>1, <2>4, <2>5, <2>6, Moves
<1> QED BY <1>4, <1>5, <1>6

(* A login makes a session of a token that was never used ...              *)
LEMMA LoginStep ==
  ASSUME Inv, NEW r \in Requests, NEW t \in Tokens, StartSess(r, t)
  PROVE  Inv'
<1>1. /\ req \in [Requests -> Request] /\ req[r] \in Request
      /\ acc \in [Tokens -> BOOLEAN] /\ csrf \in [Tokens -> Nat] /\ drawn \in Nat
  BY DEF Inv, WikiShape
<1>2. Grows /\ TokensOK' /\ LoggedOutStaysOut' /\ KeptUnlessTimedOut'
  BY DEF Inv, StartSess, NewToken, Grows, TokensOK, LoggedOutStaysOut,
         KeptUnlessTimedOut
<1>3. PICK q \in Request :
        q = [req[r] EXCEPT !.at = "acc", !.token = t, !.out.token = t]
  BY <1>1 DEF Request, Cookies, Stages
<1>4. q.at = "acc" /\ q.token = t /\ q.out.token = t
  BY <1>1, <1>3 DEF Request, Cookies
<1>5. req' = [req EXCEPT ![r] = q]
  BY <1>3 DEF StartSess
<1>6. req'[r] = q /\ req' \in [Requests -> Request]
  BY <1>1, <1>5
<1>7. RequestOK(req[r])'
  BY <1>4, <1>6 DEF RequestOK
<1> QED BY <1>1, <1>2, <1>5, <1>6, <1>7, Moves DEF StartSess

(* ... and a logout notes the one it takes out of the map.                 *)
LEMMA LogoutStep ==
  ASSUME Inv, NEW r \in Requests, DelSess(r)
  PROVE  Inv'
<1>1. /\ req \in [Requests -> Request] /\ req[r] \in Request /\ RequestOK(req[r])
      /\ acc \in [Tokens -> BOOLEAN] /\ csrf \in [Tokens -> Nat] /\ drawn \in Nat
  BY DEF Inv, WikiShape
<1>2. req[r].token \in used
  BY <1>1 DEF DelSess, RequestOK
<1>3. Grows /\ TokensOK' /\ LoggedOutStaysOut' /\ KeptUnlessTimedOut'
  BY <1>2 DEF Inv, DelSess, Destroy, Grows, TokensOK, LoggedOutStaysOut,
              KeptUnlessTimedOut
<1>4. PICK q \in Request : q = [req[r] EXCEPT !.at = "answer", !.out.token = NoToken]
  BY <1>1 DEF Request, Cookies, Stages
<1>5. q.at = "answer" /\ q.token = req[r].token /\ q.out.token = NoToken
  BY <1>1, <1>4 DEF Request, Cookies
<1>6. req' = [req EXCEPT ![r] = q]
  BY <1>4 DEF DelSess
<1>7. req'[r] = q /\ req' \in [Requests -> Request]
  BY <1>1, <1>6
<1>8. RequestOK(req[r])'
  BY <1>1, <1>5, <1>7 DEF DelSess, RequestOK, Known
<1> QED BY <1>1, <1>3, <1>6, <1>7, <1>8, Moves DEF DelSess

-----------------------------------------------------------------------------
(* A browser sends the session cookie it keeps; the answer brings it one   *)
(* whose session has a user, or takes it away, or gets lost.               *)
LEMMA BrowserStep ==
  ASSUME Inv, NEW r \in Requests,
         \/ \E c \in Clients, kind \in Kinds : Send(r, c, kind)
         \/ Deliver(r)
         \/ Lose(r)
  PROVE  Inv'
<1>1. /\ req \in [Requests -> Request] /\ req[r] \in Request /\ RequestOK(req[r])
      /\ acc \in [Tokens -> BOOLEAN] /\ csrf \in [Tokens -> Nat] /\ drawn \in Nat
      /\ jar \in [Clients -> [token : Tokens \cup {NoToken}, csrf : Nat]]
  BY DEF Inv, WikiShape
<1>2. UNCHANGED <<sessVars, acc, csrf, drawn>>
  BY DEF Send, Deliver, Lose
<1>3. Grows /\ TokensOK' /\ LoggedOutStaysOut' /\ KeptUnlessTimedOut'
  BY <1>2 DEF Inv, sessVars, Grows, TokensOK, LoggedOutStaysOut, KeptUnlessTimedOut
<1>4. /\ Quiet \in Request /\ Quiet.at = "idle"
      /\ Quiet.token = NoToken /\ Quiet.out.token = Keep
  BY DEF Quiet, Request, Cookies, Stages, Kinds, Keep
<1>5. RequestOK(Quiet)'
  BY <1>4 DEF RequestOK, Known, Keep, Quiet
<1>6. ASSUME NEW c \in Clients, NEW kind \in Kinds, Send(r, c, kind)
      PROVE  Inv'
  <2>1. jar[c].token \in Tokens \cup {NoToken} /\ jar[c].csrf \in Nat
    BY <1>1
  <2>2. PICK q \in Request :
          q = [Quiet EXCEPT !.at = "lookup", !.kind = kind, !.client = c,
                            !.token = jar[c].token, !.form = jar[c].csrf]
    BY <1>4, <2>1 DEF Request, Stages
  <2>3. q.at = "lookup" /\ q.token = jar[c].token /\ q.out.token = Keep
    BY <1>4, <2>2 DEF Request
  <2>4. req' = [req EXCEPT ![r] = q]
    BY <1>6, <2>2 DEF Send
  <2>5. req'[r] = q /\ req' \in [Requests -> Request]
    BY <1>1, <2>4
  <2>6. Known(jar[c].token)
    BY DEF Inv, CookieHasUser, Known
  <2>7. RequestOK(req[r])'
    BY <1>2, <2>3, <2>5, <2>6 DEF RequestOK, Known, Keep
  <2> QED BY <1>1, <1>2, <1>3, <1>6, <2>4, <2>5, <2>7, Moves DEF Send
<1>7. CASE Deliver(r) \/ Lose(r)
  <2>1. req' = [req EXCEPT ![r] = Quiet]
    BY <1>7 DEF Deliver, Lose
  <2>2. req'[r] = Quiet /\ req' \in [Requests -> Request]
    BY <1>1, <1>4, <2>1
  <2>3. RequestOK(req[r])'
    BY <1>4, <2>2 DEF RequestOK, Known, Keep
  <2>4. (\A p \in Requests : RequestOK(req[p]))'
    BY <1>3, <2>1, <2>3, <1>1, OneMoves
  <2>5. jar' \in [Clients -> [token : Tokens \cup {NoToken}, csrf : Nat]] /\ CookieHasUser'
    <3>1. CASE Lose(r)
      BY <1>1, <1>2, <3>1 DEF Lose, Inv, CookieHasUser
    <3>2. CASE Deliver(r)
      <4> DEFINE c == req[r].client
                 out == req[r].out
      <4>1. out \in Cookies /\ Known(out.token) /\ req[r].at = "answer"
        BY <1>1, <3>2 DEF Deliver, RequestOK, Request
      <4>2. jar' = [jar EXCEPT ![c] =
              [token |-> IF out.token = Keep THEN @.token ELSE out.token,
               csrf |-> IF out.csrf = 0 THEN @.csrf ELSE out.csrf]]
        BY <3>2 DEF Deliver
      <4>3. jar' \in [Clients -> [token : Tokens \cup {NoToken}, csrf : Nat]]
        BY <1>1, <4>1, <4>2 DEF Cookies
      <4>4. ASSUME NEW d \in Clients, jar'[d].token # NoToken
            PROVE  acc'[jar'[d].token]
        <5>1. CASE d = c /\ out.token # Keep
          BY <1>1, <1>2, <4>1, <4>2, <4>4, <5>1 DEF Cookies, Known
        <5>2. CASE ~(d = c /\ out.token # Keep)
          BY <1>1, <1>2, <4>1, <4>2, <4>4, <5>2 DEF Inv, CookieHasUser
        <5> QED BY <5>1, <5>2
      <4> QED BY <4>3, <4>4 DEF CookieHasUser
    <3> QED BY <1>7, <3>1, <3>2
  <2> QED BY <1>1, <1>2, <1>3, <2>2, <2>4, <2>5 DEF Inv, WikiShape
<1> QED BY <1>6, <1>7

(* The cleaner deletes only what it has listed as timed out.               *)
LEMMA CleanerStep ==
  ASSUME Inv, Collect \/ Sweep \/ Tick, UNCHANGED wikiVars
  PROVE  Inv'
<1>1. Grows /\ TokensOK' /\ LoggedOutStaysOut' /\ KeptUnlessTimedOut'
  BY DEF Inv, Collect, Sweep, Tick, wikiVars, Grows, TokensOK, LoggedOutStaysOut,
         KeptUnlessTimedOut
<1> QED BY <1>1, NoneMoves DEF Inv

(* Every step keeps all of it.                                             *)
LEMMA InvStep == Inv /\ [Next]_vars => Inv'
<1> SUFFICES ASSUME Inv, [Next]_vars PROVE Inv'
  OBVIOUS
<1>1. CASE UNCHANGED vars
  <2>1. Grows /\ TokensOK' /\ LoggedOutStaysOut' /\ KeptUnlessTimedOut'
    BY <1>1 DEF vars, sessVars, wikiVars, Inv, Grows, TokensOK, LoggedOutStaysOut,
                KeptUnlessTimedOut
  <2> QED BY <1>1, <2>1, NoneMoves DEF Inv, vars
<1>2. ASSUME NEW r \in Requests, Serve(r)
      PROVE  Inv'
  BY <1>2, ReadStep, GetStep, UseStep, LogoutStep DEF Serve
<1>3. ASSUME NEW r \in Requests,
             \/ \E c \in Clients, kind \in Kinds : Send(r, c, kind)
             \/ Deliver(r)
             \/ Lose(r)
      PROVE  Inv'
  BY <1>3, BrowserStep
<1>4. ASSUME NEW r \in Requests, NEW t \in Tokens, StartSess(r, t)
      PROVE  Inv'
  BY <1>4, LoginStep
<1>5. CASE (Collect \/ Sweep \/ Tick) /\ UNCHANGED wikiVars
  BY <1>5, CleanerStep
<1> QED BY <1>1, <1>2, <1>3, <1>4, <1>5 DEF Next

(* A session that was logged out never comes back, whatever requests with  *)
(* its token were being served when Destroy deleted it.                    *)
THEOREM LoggedOut == Spec => []LoggedOutStaysOut
<1>1. Inv => LoggedOutStaysOut
  BY DEF Inv
<1> QED BY <1>1, InvInit, InvStep, PTL DEF Spec

(* A session disappears only by a logout, or after GetOrRenew or clean has *)
(* found that its time was up.                                             *)
THEOREM Kept == Spec => []KeptUnlessTimedOut
<1>1. Inv => KeptUnlessTimedOut
  BY DEF Inv
<1> QED BY <1>1, InvInit, InvStep, PTL DEF Spec

(* A browser never holds the cookie of a session without a user: login     *)
(* sets the user before it answers, though not before the token is in the  *)
(* map.                                                                    *)
THEOREM Named == Spec => []CookieHasUser
<1>1. Inv => CookieHasUser
  BY DEF Inv
<1> QED BY <1>1, InvInit, InvStep, PTL DEF Spec

-----------------------------------------------------------------------------
(* What a step of a handler does to its request, field by field.           *)
Sets(r, at, token, outToken, outCsrf) ==
  /\ \A p \in Requests \ {r} : req'[p] = req[p]
  /\ req'[r].at = at /\ req'[r].kind = req[r].kind /\ req'[r].client = req[r].client
  /\ req'[r].token = token /\ req'[r].form = req[r].form
  /\ req'[r].out.token = outToken /\ req'[r].out.csrf = outCsrf

Keeps(r, at) == Sets(r, at, req[r].token, req[r].out.token, req[r].out.csrf)

(* Going on to another stage changes nothing else of it.                   *)
LEMMA GoToKeeps ==
  ASSUME WikiShape, NEW r \in Requests, NEW at \in Stages, GoTo(r, at)
  PROVE  Keeps(r, at)
<1>1. req \in [Requests -> Request] /\ req[r] \in Request
  BY DEF WikiShape
<1>2. PICK q \in Request : q = [req[r] EXCEPT !.at = at]
  BY <1>1 DEF Request
<1>3. /\ q.at = at /\ q.kind = req[r].kind /\ q.client = req[r].client
      /\ q.token = req[r].token /\ q.form = req[r].form /\ q.out = req[r].out
  BY <1>1, <1>2 DEF Request
<1>4. req' = [req EXCEPT ![r] = q]
  BY <1>2 DEF GoTo
<1> QED BY <1>1, <1>3, <1>4 DEF Keeps, Sets

(* Each step of a handler.                                                 *)
LEMMA ServeShape ==
  ASSUME WikiShape, NEW r \in Requests
  PROVE  /\ Lookup(r) => \E s \in {"check", "guest"} : Keeps(r, s)
         /\ Check(r) => \E s \in {"drop", "renew"} : Keeps(r, s)
         /\ DropSess(r) => Keeps(r, "guest")
         /\ RenewSess(r) => \E s \in {"csrf", "answer", "verify"} :
              /\ s = AfterGetSess[req[r].kind]
              /\ Sets(r, s, req[r].token, req[r].token, req[r].out.csrf)
         /\ Guest(r) => Keeps(r, "answer")
         /\ SetAcc(r) => Keeps(r, "csrf")
         /\ UpdateCSRF(r) => Sets(r, "answer", req[r].token, req[r].out.token, drawn')
         /\ Verify(r) => \E s \in {"destroy", "answer"} : Keeps(r, s)
         /\ DelSess(r) => Sets(r, "answer", req[r].token, NoToken, req[r].out.csrf)
         /\ \A t \in Tokens : StartSess(r, t) => Sets(r, "acc", t, t, req[r].out.csrf)
<1>0. req \in [Requests -> Request] /\ req[r] \in Request /\ drawn \in Nat
  BY DEF WikiShape
<1>2. Lookup(r) => \E s \in {"check", "guest"} : Keeps(r, s)
  BY GoToKeeps DEF Lookup, Stages
<1>3. Check(r) => \E s \in {"drop", "renew"} : Keeps(r, s)
  BY GoToKeeps DEF Check, Stages
<1>4. DropSess(r) => Keeps(r, "guest")
  BY GoToKeeps DEF DropSess, Stages
<1>5. Guest(r) => Keeps(r, "answer")
  BY GoToKeeps DEF Guest, Stages
<1>6. SetAcc(r) => Keeps(r, "csrf")
  BY GoToKeeps DEF SetAcc, Stages
<1>7. Verify(r) => \E s \in {"destroy", "answer"} : Keeps(r, s)
  BY GoToKeeps DEF Verify, Stages
<1>8. ASSUME RenewSess(r)
      PROVE  \E s \in {"csrf", "answer", "verify"} :
               /\ s = AfterGetSess[req[r].kind]
               /\ Sets(r, s, req[r].token, req[r].token, req[r].out.csrf)
  <2>1. PICK s \in {"csrf", "answer", "verify"} : s = AfterGetSess[req[r].kind]
    BY <1>0 DEF AfterGetSess, Request, Kinds
  <2>2. PICK q : q = [req[r] EXCEPT !.at = s, !.out.token = req[r].token]
    OBVIOUS
  <2>3. /\ q \in Request /\ q.at = s /\ q.kind = req[r].kind /\ q.client = req[r].client
        /\ q.token = req[r].token /\ q.form = req[r].form
        /\ q.out.token = req[r].token /\ q.out.csrf = req[r].out.csrf
    BY <1>0, <2>2 DEF Request, Cookies, Stages
  <2>4. req' = [req EXCEPT ![r] = q]
    BY <1>8, <2>1, <2>2 DEF RenewSess
  <2> QED BY <1>0, <2>1, <2>3, <2>4 DEF Sets
<1>9. ASSUME UpdateCSRF(r)
      PROVE  Sets(r, "answer", req[r].token, req[r].out.token, drawn')
  <2>1. drawn' \in Nat
    BY <1>0, <1>9 DEF UpdateCSRF
  <2>2. PICK q : q = [req[r] EXCEPT !.at = "answer", !.out.csrf = drawn']
    OBVIOUS
  <2>3. /\ q \in Request /\ q.at = "answer" /\ q.kind = req[r].kind /\ q.client = req[r].client
        /\ q.token = req[r].token /\ q.form = req[r].form
        /\ q.out.token = req[r].out.token /\ q.out.csrf = drawn'
    BY <1>0, <2>1, <2>2 DEF Request, Cookies, Stages
  <2>4. req' = [req EXCEPT ![r] = q]
    BY <1>9, <2>2 DEF UpdateCSRF
  <2> QED BY <1>0, <2>3, <2>4 DEF Sets
<1>10. ASSUME DelSess(r)
       PROVE  Sets(r, "answer", req[r].token, NoToken, req[r].out.csrf)
  <2>2. PICK q : q = [req[r] EXCEPT !.at = "answer", !.out.token = NoToken]
    OBVIOUS
  <2>3. /\ q \in Request /\ q.at = "answer" /\ q.kind = req[r].kind /\ q.client = req[r].client
        /\ q.token = req[r].token /\ q.form = req[r].form
        /\ q.out.token = NoToken /\ q.out.csrf = req[r].out.csrf
    BY <1>0, <2>2 DEF Request, Cookies, Stages
  <2>4. req' = [req EXCEPT ![r] = q]
    BY <1>10, <2>2 DEF DelSess
  <2> QED BY <1>0, <2>3, <2>4 DEF Sets
<1>11. ASSUME NEW t \in Tokens, StartSess(r, t)
       PROVE  Sets(r, "acc", t, t, req[r].out.csrf)
  <2>2. PICK q : q = [req[r] EXCEPT !.at = "acc", !.token = t, !.out.token = t]
    OBVIOUS
  <2>3. /\ q \in Request /\ q.at = "acc" /\ q.kind = req[r].kind /\ q.client = req[r].client
        /\ q.token = t /\ q.form = req[r].form
        /\ q.out.token = t /\ q.out.csrf = req[r].out.csrf
    BY <1>0, <2>2 DEF Request, Cookies, Stages
  <2>4. req' = [req EXCEPT ![r] = q]
    BY <1>11, <2>2 DEF StartSess
  <2> QED BY <1>0, <2>3, <2>4 DEF Sets
<1> QED
  BY <1>2, <1>3, <1>4, <1>5, <1>6, <1>7, <1>8, <1>9, <1>10, <1>11

-----------------------------------------------------------------------------
(* The bounds.  Every CSRF token anywhere has been drawn, and there are    *)
(* enough left for the requests that have yet to draw one.                 *)
Pending == {r \in Requests : req[r].at \notin {"idle", "answer"} /\ req[r].kind \in Draws}

DrawnOK(q) ==
  /\ q.form <= drawn /\ q.out.csrf <= drawn
  /\ q.at \in {"acc", "csrf"} => q.kind \in Draws

LimitInv ==
  /\ SessTypeOK
  /\ Cardinality(Pending) + drawn <= MaxCsrf
  /\ \A t \in Tokens : csrf[t] <= drawn
  /\ \A c \in Clients : jar[c].csrf <= drawn
  /\ \A r \in Requests : DrawnOK(req[r])

(* The session store and the clock stay well-formed.                       *)
LEMMA SessStep == Inv /\ SessTypeOK /\ [Next]_vars => SessTypeOK'
<1> SUFFICES ASSUME Inv, SessTypeOK, [Next]_vars PROVE SessTypeOK'
  OBVIOUS
<1> USE DEF SessTypeOK
<1>0. used \subseteq Tokens /\ \A r \in Requests : RequestOK(req[r])
  BY DEF Inv, TokensOK
<1>1. ASSUME NEW r \in Requests, Check(r) \/ DropSess(r) \/ RenewSess(r) \/ DelSess(r)
      PROVE  SessTypeOK'
  <2>1. req[r].token \in Tokens
    BY <1>0, <1>1 DEF Check, DropSess, RenewSess, DelSess, RequestOK
  <2> QED BY <1>1, <2>1 DEF Check, CheckTimeout, DropSess, Drop, RenewSess, Renew, DelSess, Destroy
<1>2. ASSUME NEW r \in Requests,
             \/ Lookup(r) \/ Guest(r) \/ SetAcc(r) \/ UpdateCSRF(r) \/ Verify(r)
             \/ Deliver(r) \/ Lose(r)
             \/ \E c \in Clients, kind \in Kinds : Send(r, c, kind)
      PROVE  SessTypeOK'
  <2>1. UNCHANGED sessVars
    BY <1>2 DEF Lookup, Guest, SetAcc, UpdateCSRF, Verify, Deliver, Lose, Send
  <2> QED BY <2>1 DEF sessVars
<1>3. ASSUME NEW r \in Requests, NEW t \in Tokens, StartSess(r, t)
      PROVE  SessTypeOK'
  BY <1>3 DEF StartSess, NewToken
<1>4. CASE Collect \/ Sweep \/ Tick
  BY <1>4 DEF Collect, Sweep, Tick
<1>5. CASE UNCHANGED vars
  BY <1>5 DEF vars, sessVars
<1> QED BY <1>1, <1>2, <1>3, <1>4, <1>5 DEF Next, Serve

(* Finitely many requests have a token to draw.                            *)
LEMMA PendingFinite ==
  /\ IsFiniteSet(Pending) /\ Cardinality(Pending) \in Nat
  /\ IsFiniteSet(Drawing) /\ Cardinality(Drawing) \in Nat
  /\ IsFiniteSet(Pending)' /\ Cardinality(Pending)' \in Nat
<1>1. ASSUME NEW S \in SUBSET Requests PROVE IsFiniteSet(S) /\ Cardinality(S) \in Nat
  BY FS_Subset, FS_CardinalityType
<1>2. /\ Pending \in SUBSET Requests /\ Drawing \in SUBSET Requests
      /\ Pending' \in SUBSET Requests
  BY DEF Pending, Drawing
<1> QED BY <1>1, <1>2

(* A step that draws no token.                                             *)
LEMMA LimitKept ==
  ASSUME Inv, LimitInv, SessTypeOK', drawn' = drawn,
         Pending' \subseteq Pending, \A r \in Requests : DrawnOK(req[r])',
         \A t \in Tokens : csrf'[t] <= drawn, \A c \in Clients : jar'[c].csrf <= drawn
  PROVE  LimitInv'
<1>1. Cardinality(Pending') <= Cardinality(Pending)
  BY PendingFinite, FS_Subset
<1>2. drawn \in Nat /\ Cardinality(Pending) + drawn <= MaxCsrf
  BY DEF Inv, WikiShape, LimitInv
<1>3. Cardinality(Pending') + drawn' <= MaxCsrf
  BY <1>1, <1>2, PendingFinite
<1> QED BY <1>3 DEF LimitInv

(* A handler that goes on and draws none.                                  *)
LEMMA LimitMoves ==
  ASSUME Inv, LimitInv, SessTypeOK', NEW r \in Requests, NEW at, NEW token, NEW outToken,
         Sets(r, at, token, outToken, req[r].out.csrf),
         req[r].at \notin {"idle", "answer"}, at \in {"acc", "csrf"} => req[r].kind \in Draws,
         UNCHANGED <<csrf, drawn, jar>>
  PROVE  LimitInv'
<1>1. Pending' \subseteq Pending
  BY DEF Pending, Sets
<1>2. \A p \in Requests : DrawnOK(req[p])'
  BY DEF LimitInv, DrawnOK, Sets
<1> QED BY <1>1, <1>2, LimitKept DEF LimitInv

(* Every step keeps the bounds.                                            *)
LEMMA LimitStep == Inv /\ LimitInv /\ [Next]_vars => LimitInv'
<1> SUFFICES ASSUME Inv, LimitInv, [Next]_vars PROVE LimitInv'
  OBVIOUS
<1>0. /\ WikiShape /\ SessTypeOK' /\ Inv'
      /\ req \in [Requests -> Request] /\ csrf \in [Tokens -> Nat] /\ drawn \in Nat
      /\ jar \in [Clients -> [token : Tokens \cup {NoToken}, csrf : Nat]]
      /\ \A r \in Requests : req[r] \in Request /\ DrawnOK(req[r])
  BY SessStep, InvStep DEF Inv, LimitInv, WikiShape
<1>1. ASSUME NEW r \in Requests, Lookup(r) \/ Check(r) \/ DropSess(r) \/ Guest(r) \/ Verify(r)
      PROVE  LimitInv'
  <2>1. req[r].at \notin {"idle", "answer"} /\ UNCHANGED <<csrf, drawn, jar>>
    BY <1>1 DEF Lookup, Check, DropSess, Guest, Verify
  <2>2. PICK at \in {"check", "guest", "drop", "renew", "answer", "destroy"} : Keeps(r, at)
    BY <1>0, <1>1, ServeShape
  <2> QED BY <1>0, <2>1, <2>2, LimitMoves DEF Keeps
<1>2. ASSUME NEW r \in Requests, RenewSess(r)
      PROVE  LimitInv'
  <2>1. req[r].at = "renew" /\ UNCHANGED <<csrf, drawn, jar>>
    BY <1>2 DEF RenewSess
  <2>2. PICK at \in {"csrf", "answer", "verify"} :
          /\ at = AfterGetSess[req[r].kind]
          /\ Sets(r, at, req[r].token, req[r].token, req[r].out.csrf)
    BY <1>0, <1>2, ServeShape
  <2>3. at = "csrf" => req[r].kind \in Draws
    BY <1>0, <2>2 DEF AfterGetSess, Draws, Request, Kinds
  <2> QED BY <1>0, <2>1, <2>2, <2>3, LimitMoves
<1>3. ASSUME NEW r \in Requests, SetAcc(r)
      PROVE  LimitInv'
  <2>1. req[r].at = "acc" /\ UNCHANGED <<csrf, drawn, jar>> /\ Keeps(r, "csrf")
    BY <1>0, <1>3, ServeShape DEF SetAcc
  <2> QED BY <1>0, <2>1, LimitMoves DEF Keeps, DrawnOK
<1>4. ASSUME NEW r \in Requests, DelSess(r)
      PROVE  LimitInv'
  <2>1. /\ req[r].at = "destroy" /\ UNCHANGED <<csrf, drawn, jar>>
        /\ Sets(r, "answer", req[r].token, NoToken, req[r].out.csrf)
    BY <1>0, <1>4, ServeShape DEF DelSess
  <2> QED BY <1>0, <2>1, LimitMoves
<1>5. ASSUME NEW r \in Requests, NEW t \in Tokens, StartSess(r, t)
      PROVE  LimitInv'
  <2>1. /\ req[r].at = "guest" /\ req[r].kind \in Draws /\ UNCHANGED <<csrf, drawn, jar>>
        /\ Sets(r, "acc", t, t, req[r].out.csrf)
    BY <1>0, <1>5, ServeShape DEF StartSess, Draws
  <2> QED BY <1>0, <2>1, LimitMoves
<1>6. ASSUME NEW r \in Requests, UpdateCSRF(r)
      PROVE  LimitInv'
  <2>1. /\ req[r].at = "csrf" /\ drawn' = drawn + 1 /\ jar' = jar
        /\ csrf' = [csrf EXCEPT ![req[r].token] = drawn']
        /\ Sets(r, "answer", req[r].token, req[r].out.token, drawn')
    BY <1>0, <1>6, ServeShape DEF UpdateCSRF
  <2>2. r \in Pending /\ Pending' = Pending \ {r}
    BY <1>0, <2>1 DEF Pending, Sets, DrawnOK
  <2>3. Cardinality(Pending') = Cardinality(Pending) - 1
    BY <2>2, PendingFinite, FS_RemoveElement
  <2>4. Cardinality(Pending') + drawn' <= MaxCsrf
    BY <1>0, <2>1, <2>3, PendingFinite DEF LimitInv
  <2>5. \A p \in Requests : DrawnOK(req[p])'
    BY <1>0, <2>1 DEF DrawnOK, Sets, Request, Cookies
  <2>6. \A t \in Tokens : csrf'[t] <= drawn'
    BY <1>0, <2>1 DEF LimitInv
  <2>7. \A c \in Clients : jar'[c].csrf <= drawn'
    BY <1>0, <2>1 DEF LimitInv
  <2> QED BY <1>0, <2>4, <2>5, <2>6, <2>7 DEF LimitInv
<1>7. ASSUME NEW r \in Requests, NEW c \in Clients, NEW kind \in Kinds, Send(r, c, kind)
      PROVE  LimitInv'
  <2>1. /\ req[r].at = "idle" /\ UNCHANGED <<csrf, drawn, jar>>
        /\ kind \in Draws => drawn + Cardinality(Drawing) < MaxCsrf
    BY <1>7 DEF Send
  <2>2. jar[c].token \in Tokens \cup {NoToken} /\ jar[c].csrf \in Nat /\ jar[c].csrf <= drawn
    BY <1>0 DEF LimitInv
  <2>3. PICK q : q = [Quiet EXCEPT !.at = "lookup", !.kind = kind, !.client = c,
                                   !.token = jar[c].token, !.form = jar[c].csrf]
    OBVIOUS
  <2>4. q.at = "lookup" /\ q.kind = kind /\ q.form = jar[c].csrf /\ q.out.csrf = 0
    BY <2>3 DEF Quiet
  <2>5. req' = [req EXCEPT ![r] = q]
    BY <1>7, <2>3 DEF Send
  <2>6. req'[r] = q /\ \A p \in Requests \ {r} : req'[p] = req[p]
    BY <1>0, <2>5
  <2>7. \A p \in Requests : DrawnOK(req[p])'
    BY <1>0, <2>1, <2>2, <2>4, <2>6 DEF DrawnOK
  <2>8. CASE kind \notin Draws
    <3>1. Pending' \subseteq Pending
      BY <2>4, <2>6, <2>8 DEF Pending
    <3> QED BY <1>0, <2>1, <2>7, <3>1, LimitKept DEF LimitInv
  <2>9. CASE kind \in Draws
    <3>1. Pending' \subseteq Drawing \cup {r} /\ r \notin Drawing
      BY <2>1, <2>6 DEF Pending, Drawing
    <3>2. Cardinality(Drawing \cup {r}) = Cardinality(Drawing) + 1 /\ IsFiniteSet(Drawing \cup {r})
      BY <3>1, PendingFinite, FS_AddElement
    <3>3. Cardinality(Pending') <= Cardinality(Drawing) + 1
      BY <3>1, <3>2, FS_Subset
    <3>4. Cardinality(Pending') + drawn' <= MaxCsrf
      BY <1>0, <2>1, <2>9, <3>3, PendingFinite
    <3> QED BY <1>0, <2>1, <2>7, <3>4 DEF LimitInv
  <2> QED BY <2>8, <2>9
<1>8. ASSUME NEW r \in Requests, Deliver(r) \/ Lose(r)
      PROVE  LimitInv'
  <2>1. req' = [req EXCEPT ![r] = Quiet] /\ UNCHANGED <<csrf, drawn>>
    BY <1>8 DEF Deliver, Lose
  <2>2. req'[r] = Quiet /\ \A p \in Requests \ {r} : req'[p] = req[p]
    BY <1>0, <2>1
  <2>3. \A p \in Requests : DrawnOK(req[p])'
    BY <1>0, <2>1, <2>2 DEF DrawnOK, Quiet
  <2>4. Pending' \subseteq Pending
    BY <2>2 DEF Pending, Quiet
  <2>5. \A c \in Clients : jar'[c].csrf <= drawn
    BY <1>0, <1>8 DEF Deliver, Lose, LimitInv, DrawnOK, Request, Cookies
  <2> QED BY <1>0, <2>1, <2>3, <2>4, <2>5, LimitKept DEF LimitInv
<1>9. CASE UNCHANGED wikiVars
  <2>1. /\ Pending' = Pending /\ drawn' = drawn /\ csrf' = csrf /\ jar' = jar
        /\ \A r \in Requests : DrawnOK(req[r])'
    BY <1>0, <1>9 DEF wikiVars, Pending, DrawnOK
  <2> QED BY <1>0, <2>1, LimitKept DEF LimitInv
<1> QED
  BY <1>1, <1>2, <1>3, <1>4, <1>5, <1>6, <1>7, <1>8, <1>9 DEF Next, Serve, vars

(* At the start nothing has been drawn.                                    *)
LEMMA LimitInit == Init => LimitInv
<1> SUFFICES ASSUME Init PROVE LimitInv
  OBVIOUS
<1>1. SessTypeOK
  BY DEF Init, SessInit, SessTypeOK
<1>2. Pending = {}
  BY DEF Init, Pending, Quiet
<1>3. Cardinality(Pending) + drawn <= MaxCsrf
  BY <1>2, FS_EmptySet DEF Init
<1>4. \A r \in Requests : DrawnOK(req[r])
  BY DEF Init, DrawnOK, Quiet
<1> QED BY <1>1, <1>3, <1>4 DEF Init, LimitInv

-----------------------------------------------------------------------------
(* CSRF tokens.  A session token is known to one browser, and a request    *)
(* that is not crowded is the only one of its browser.                     *)
HeldBy(c, t) ==
  \/ jar[c].token = t
  \/ \E r \in Requests : req[r].client = c /\ t \in {req[r].token, req[r].out.token}

Apart ==
  \A c \in Clients, t \in Tokens :
    HeldBy(c, t) => t \in used /\ \A d \in Clients : HeldBy(d, t) => d = c

Alone(r) ==
  req[r].client \in Clients =>
    \A p \in Requests : req[p].client = req[r].client => p = r

(* The cookies a browser has after an answer, and whether they agree with  *)
(* the session.                                                            *)
After(q) ==
  [token |-> IF q.out.token = Keep THEN jar[q.client].token ELSE q.out.token,
   csrf |-> IF q.out.csrf = 0 THEN jar[q.client].csrf ELSE q.out.csrf]

Agrees(own) == own.token \in cookie => own.csrf = csrf[own.token]

(* An answer that arrives by itself leaves them in agreement if the        *)
(* browser was not adrift, or if it brings a CSRF token; without one they  *)
(* are in agreement already, should it be lost.                            *)
Delivers(r) ==
  /\ req[r].at \notin {"acc", "csrf"}
  /\ req[r].client \notin adrift \/ req[r].out.csrf # 0

ByItself(r) ==
  /\ Alone(r)
  /\ req[r].at \in {"lookup", "check", "drop", "renew", "guest"} =>
       req[r].token = jar[req[r].client].token
  /\ req[r].at # "idle" /\ Delivers(r) => Agrees(After(req[r]))
  /\ req[r].at # "idle" /\ req[r].client \notin adrift /\ req[r].out.csrf = 0 =>
       Agrees(jar[req[r].client])

Staged(q) ==
  /\ q.at = "idle" <=> q.client \notin Clients
  /\ q.at \in {"lookup", "check", "drop", "renew", "guest"} =>
       q.out.token = Keep /\ q.out.csrf = 0
  /\ q.at \in {"acc", "csrf"} => q.token \in Tokens /\ q.out.token = q.token

CsrfInv ==
  /\ Apart
  /\ \A r \in Requests : Staged(req[r])
  /\ \A r \in crowded : r \in Requests /\ req[r].client \in adrift
  /\ adrift \subseteq Clients
  /\ \A r \in Requests \ crowded : ByItself(r)
  /\ \A c \in Clients \ adrift : OfClient(c) = {} => Agrees(jar[c])

(* Cookies of another browser than that of the request that takes a step   *)
(* stay in agreement.                                                      *)
LEMMA OthersAgree ==
  ASSUME Apart, cookie' \subseteq Tokens,
         NEW c \in Clients, NEW moved, HeldBy(c, moved),
         \A t \in Tokens : t # moved => csrf'[t] = csrf[t],
         \A t \in used : t \in cookie' => t \in cookie,
         NEW own, NEW d \in Clients \ {c}, Agrees(own),
         own.token \in Tokens => HeldBy(d, own.token)
  PROVE  own.token \in cookie' => own.csrf = csrf'[own.token]
<1> SUFFICES ASSUME own.token \in cookie' PROVE own.csrf = csrf'[own.token]
  OBVIOUS
<1>1. own.token \in Tokens /\ HeldBy(d, own.token)
  OBVIOUS
<1>2. own.token \in used
  BY <1>1 DEF Apart
<1>3. own.token # moved
  BY <1>1 DEF Apart
<1> QED BY <1>1, <1>2, <1>3 DEF Agrees

(* A handler that goes on takes no token of another browser: what those    *)
(* hold stays in agreement.                                                *)
LEMMA CsrfMoves ==
  ASSUME Inv, Inv', CsrfInv, NEW r \in Requests, req[r].at # "idle",
         NEW at, NEW token, NEW outToken, NEW outCsrf,
         Sets(r, at, token, outToken, outCsrf), UNCHANGED <<jar, crowded, adrift>>,
         \A t \in Tokens : t \in {token, outToken} =>
           t \in {req[r].token, req[r].out.token} \/ t \notin used,
         \A t \in Tokens : t # req[r].token => csrf'[t] = csrf[t],
         \A t \in used : t \in cookie' => t \in cookie,
         \A t \in Tokens : t \in {token, outToken} => t \in used',
         used \subseteq used', Staged(req[r])',
         r \notin crowded => ByItself(r)'
  PROVE  CsrfInv'
<1> DEFINE c == req[r].client
<1>0. /\ c \in Clients /\ Apart /\ \A p \in Requests : Staged(req[p])
      /\ cookie \subseteq used /\ used \subseteq Tokens /\ cookie' \subseteq Tokens
      /\ \A p \in Requests \ crowded : ByItself(p)
      /\ \A d \in Clients \ adrift : OfClient(d) = {} => Agrees(jar[d])
      /\ req'[r].client = c /\ req'[r].token = token /\ req'[r].out.token = outToken
      /\ jar' = jar /\ adrift' = adrift /\ crowded' = crowded
  BY DEF CsrfInv, Inv, Staged, TokensOK, Sets
<1>1. \A p \in Requests : req'[p].client = req[p].client
  BY DEF Sets
<1>2. ASSUME NEW d \in Clients, NEW t \in Tokens, HeldBy(d, t)'
      PROVE  HeldBy(d, t) \/ (d = c /\ t \notin used /\ t \in used')
  <2>1. CASE jar'[d] = jar[d] /\ jar'[d].token = t
    BY <2>1 DEF HeldBy
  <2>2. CASE \E p \in Requests : req'[p].client = d /\ t \in {req'[p].token, req'[p].out.token}
    <3>1. PICK p \in Requests : req'[p].client = d /\ t \in {req'[p].token, req'[p].out.token}
      BY <2>2
    <3>2. CASE p = r
      BY <1>0, <3>1, <3>2 DEF HeldBy
    <3>3. CASE p # r
      BY <3>1, <3>3 DEF HeldBy, Sets
    <3> QED BY <3>2, <3>3
  <2> QED BY <1>0, <1>2, <2>1, <2>2 DEF HeldBy
<1>3. Apart'
  <2>1. ASSUME NEW d \in Clients, NEW e \in Clients, NEW t \in Tokens, HeldBy(d, t)'
        PROVE  t \in used' /\ (HeldBy(e, t)' => e = d)
    BY <1>0, <1>2, <2>1 DEF Apart
  <2> QED BY <2>1 DEF Apart
<1>4. HeldBy(c, req[r].token)
  BY DEF HeldBy
<1>5. ASSUME NEW d \in Clients \ {c}, Agrees(jar[d]) PROVE Agrees(jar[d])'
  <2>1. jar[d].token \in Tokens => HeldBy(d, jar[d].token)
    BY DEF HeldBy
  <2>2. jar[d].token \in cookie' => jar[d].csrf = csrf'[jar[d].token]
    BY <1>0, <1>4, <1>5, <2>1, OthersAgree
  <2> QED BY <1>0, <2>2 DEF Agrees
<1>6. ASSUME NEW p \in (Requests \ {r}) \ crowded PROVE ByItself(p)'
  <2>0. PICK d : d = req[p].client
    OBVIOUS
  <2>1. req'[p] = req[p] /\ ByItself(p) /\ Staged(req[p])
    BY <1>0 DEF Sets
  <2>2. Alone(p)'
    BY <1>1, <2>1 DEF Alone, ByItself
  <2>3. ASSUME req[p].at # "idle" PROVE d \in Clients \ {c}
    BY <1>0, <2>0, <2>1, <2>3 DEF Staged, ByItself, Alone
  <2>4. ASSUME req[p].at # "idle", Delivers(p) PROVE Agrees(After(req[p]))'
    <3>1. d \in Clients \ {c} /\ Agrees(After(req[p]))
      BY <2>0, <2>1, <2>3, <2>4 DEF ByItself
    <3>2. After(req[p]).token \in Tokens => HeldBy(d, After(req[p]).token)
      BY <2>0 DEF After, HeldBy
    <3>3. After(req[p]).token \in cookie' => After(req[p]).csrf = csrf'[After(req[p]).token]
      BY <1>0, <1>4, <3>1, <3>2, OthersAgree
    <3>4. After(req[p])' = After(req[p])
      BY <1>0, <2>1 DEF After
    <3> QED BY <3>3, <3>4 DEF Agrees
  <2>5. ASSUME req[p].at # "idle", d \notin adrift, req[p].out.csrf = 0
        PROVE  Agrees(jar[d])'
    <3>1. d \in Clients \ {c} /\ Agrees(jar[d])
      BY <2>0, <2>1, <2>3, <2>5 DEF ByItself
    <3> QED BY <1>5, <3>1
  <2>6. Agrees(jar[req[p].client])' <=> Agrees(jar[d])'
    BY <2>0, <2>1
  <2>7. Delivers(p)' <=> Delivers(p)
    BY <1>0, <2>1 DEF Delivers
  <2>8. req[p].at \in {"lookup", "check", "drop", "renew", "guest"} =>
          req[p].token = jar[d].token
    BY <2>0, <2>1 DEF ByItself
  <2> QED BY <1>0, <2>0, <2>1, <2>2, <2>4, <2>5, <2>6, <2>7, <2>8 DEF ByItself
<1>7. ASSUME NEW d \in Clients \ adrift, OfClient(d)' = {} PROVE Agrees(jar[d])'
  <2>1. OfClient(d) = {} /\ d # c
    BY <1>0, <1>1, <1>7 DEF OfClient
  <2> QED BY <1>0, <1>5, <2>1
<1>8. \A p \in Requests : Staged(req[p])'
  BY <1>0 DEF Sets, Staged
<1>9. \A p \in crowded' : p \in Requests /\ req'[p].client \in adrift'
  BY <1>0, <1>1 DEF CsrfInv
<1> QED BY <1>0, <1>3, <1>6, <1>7, <1>8, <1>9 DEF CsrfInv

(* A step that touches no cookie, request or CSRF token and adds no        *)
(* session.                                                                *)
LEMMA CsrfStays ==
  ASSUME CsrfInv, UNCHANGED wikiVars, cookie' \subseteq cookie, used' = used
  PROVE  CsrfInv'
<1>0. UNCHANGED <<csrf, jar, req, crowded, adrift>>
  BY DEF wikiVars, browserVars
<1>1. Apart'
  BY <1>0 DEF CsrfInv, Apart, HeldBy
<1>2. \A r \in Requests : Staged(req[r])'
  BY <1>0 DEF CsrfInv, Staged
<1>3. \A r \in Requests \ crowded' : ByItself(r)'
  BY <1>0 DEF CsrfInv, ByItself, Alone, Delivers, After, Agrees
<1>4. \A c \in Clients \ adrift' : OfClient(c)' = {} => Agrees(jar[c])'
  BY <1>0 DEF CsrfInv, OfClient, Agrees
<1> QED BY <1>0, <1>1, <1>2, <1>3, <1>4 DEF CsrfInv

(* The steps of a handler.                                                 *)
LEMMA CsrfServe ==
  ASSUME Inv, CsrfInv, NEW r \in Requests,
         Serve(r) \/ \E t \in Tokens : StartSess(r, t)
  PROVE  CsrfInv'
<1>c. PICK c : c = req[r].client
  OBVIOUS
<1>0. /\ Inv' /\ WikiShape /\ Staged(req[r]) /\ RequestOK(req[r])
      /\ req[r] \in Request /\ drawn \in Nat /\ csrf \in [Tokens -> Nat]
      /\ cookie \subseteq used /\ used \subseteq Tokens
      /\ \A t \in Tokens : t \in {req[r].token, req[r].out.token} => t \in used
      /\ UNCHANGED <<jar, crowded, adrift>>
      /\ req[r].at # "idle" /\ c \in Clients /\ c = req[r].client
      /\ jar[c].token \in Tokens => jar[c].token \in used
      /\ r \notin crowded => ByItself(r)
  <2>1. Inv'
    BY InvStep DEF Next
  <2>2. req[r].at # "idle"
    BY DEF Serve, Lookup, Check, DropSess, RenewSess, Guest, SetAcc, UpdateCSRF, Verify,
           DelSess, StartSess
  <2>3. req[r].client \in Clients
    BY <2>2 DEF CsrfInv, Staged
  <2>4. \A t \in Tokens : t \in {req[r].token, req[r].out.token} => t \in used
    BY <2>3 DEF CsrfInv, Apart, HeldBy
  <2>5. UNCHANGED <<jar, crowded, adrift>>
    BY DEF Serve, Lookup, Check, DropSess, RenewSess, Guest, SetAcc, UpdateCSRF, Verify,
           DelSess, StartSess, browserVars
  <2>6. jar[c].token \in Tokens => jar[c].token \in used
    BY <1>c, <2>3 DEF CsrfInv, Apart, HeldBy
  <2> QED BY <1>c, <2>1, <2>2, <2>3, <2>4, <2>5, <2>6 DEF Inv, WikiShape, TokensOK, CsrfInv
(* Its browser keeps its cookies, whichever of its sessions is gone.       *)
<1>A. ASSUME r \notin crowded,
             \A t \in used : csrf'[t] = csrf[t] /\ (t \in cookie' => t \in cookie),
             \A t \in cookie' : t \in Tokens,
             req[r].client \notin adrift, req[r].out.csrf = 0
      PROVE  jar[c].token \in cookie' => jar[c].csrf = csrf'[jar[c].token]
  BY <1>0, <1>A DEF ByItself, Agrees
<1>B. \A t \in cookie' : t \in Tokens
  BY <1>0 DEF Inv, TokensOK
<1>C. ASSUME \A p \in Requests : req'[p].client = req[p].client, r \notin crowded
      PROVE  Alone(r)'
  BY <1>0, <1>C DEF ByItself, Alone
<1>1. CASE Lookup(r) \/ Check(r) \/ DropSess(r) \/ Guest(r) \/ Verify(r) \/ SetAcc(r)
  <2>1. UNCHANGED <<csrf, used>> /\ cookie' \subseteq cookie
    BY <1>1 DEF Lookup, Check, CheckTimeout, DropSess, Drop, Guest, Verify, SetAcc, sessVars
  <2>2. PICK at : /\ Keeps(r, at)
                  /\ \/ /\ req[r].at \in {"lookup", "check", "drop"}
                        /\ at \in {"check", "guest", "drop", "renew"}
                     \/ /\ req[r].at \in {"guest", "verify"}
                        /\ at \in {"answer", "destroy"}
                     \/ req[r].at = "acc" /\ at = "csrf"
    BY <1>0, <1>1, ServeShape DEF Lookup, Check, DropSess, Guest, Verify, SetAcc
  <2>3. /\ req'[r].at = at /\ req'[r].client = req[r].client /\ req'[r].token = req[r].token
        /\ req'[r].out.token = req[r].out.token /\ req'[r].out.csrf = req[r].out.csrf
        /\ \A p \in Requests : req'[p].client = req[p].client
    BY <2>2 DEF Keeps, Sets
  <2>4. After(req[r])' = After(req[r])
    BY <1>0, <2>3 DEF After
  <2>5. Agrees(After(req[r])) => Agrees(After(req[r]))'
    BY <2>1, <2>4 DEF Agrees
  <2>6. Staged(req[r])'
    BY <1>0, <2>2, <2>3 DEF Staged
  <2>7. ASSUME r \notin crowded PROVE ByItself(r)'
    <3>1. Delivers(r)' => Delivers(r) \/ at = "csrf"
      BY <1>0, <2>2, <2>3 DEF Delivers
    <3>2. Delivers(r)' => Agrees(After(req[r]))'
      BY <1>0, <2>2, <2>3, <2>5, <2>7, <3>1 DEF ByItself, Delivers
    <3>3. req[r].client \notin adrift /\ req[r].out.csrf = 0 => Agrees(jar[c])'
      BY <1>0, <1>A, <1>B, <2>1, <2>7 DEF Agrees
    <3> QED BY <1>0, <1>C, <2>2, <2>3, <2>7, <3>2, <3>3 DEF ByItself
  <2> QED BY <1>0, <2>1, <2>2, <2>6, <2>7, CsrfMoves DEF Keeps
<1>2. CASE RenewSess(r)
  <2>1. req[r].at = "renew" /\ UNCHANGED <<csrf, used, cookie>>
    BY <1>2 DEF RenewSess, Renew
  <2>2. PICK at \in {"csrf", "answer", "verify"} :
          Sets(r, at, req[r].token, req[r].token, req[r].out.csrf)
    BY <1>0, <1>2, ServeShape
  <2>3. /\ req'[r].at = at /\ req'[r].client = req[r].client /\ req'[r].token = req[r].token
        /\ req'[r].out.token = req[r].token /\ req'[r].out.csrf = req[r].out.csrf
        /\ \A p \in Requests : req'[p].client = req[p].client
    BY <2>2 DEF Sets
  <2>4. req[r].token \in Tokens /\ req[r].out.token = Keep /\ req[r].token # Keep
    BY <1>0, <2>1 DEF RequestOK, Staged, Keep
  <2>6. Staged(req[r])'
    BY <1>0, <2>1, <2>3, <2>4 DEF Staged
  <2>7. ASSUME r \notin crowded PROVE ByItself(r)'
    <3>1. After(req[r])' = After(req[r])
      BY <1>0, <2>1, <2>3, <2>4, <2>7 DEF After, ByItself
    <3>2. Delivers(r)' => Agrees(After(req[r]))'
      BY <1>0, <2>1, <2>3, <2>7, <3>1 DEF ByItself, Delivers, Agrees
    <3>3. req[r].client \notin adrift /\ req[r].out.csrf = 0 => Agrees(jar[c])'
      BY <1>0, <1>A, <1>B, <2>1, <2>7 DEF Agrees
    <3> QED BY <1>0, <1>C, <2>2, <2>3, <2>7, <3>2, <3>3 DEF ByItself
  <2> QED BY <1>0, <2>1, <2>2, <2>4, <2>6, <2>7, CsrfMoves
<1>3. CASE UpdateCSRF(r)
  <2>1. /\ req[r].at = "csrf" /\ UNCHANGED <<used, cookie>> /\ drawn' = drawn + 1
        /\ csrf' = [csrf EXCEPT ![req[r].token] = drawn']
        /\ Sets(r, "answer", req[r].token, req[r].out.token, drawn')
    BY <1>0, <1>3, ServeShape DEF UpdateCSRF, sessVars
  <2>2. /\ req'[r].at = "answer" /\ req'[r].client = req[r].client
        /\ req'[r].token = req[r].token
        /\ req'[r].out.token = req[r].out.token /\ req'[r].out.csrf = drawn'
        /\ \A p \in Requests : req'[p].client = req[p].client
    BY <2>1 DEF Sets
  <2>3. req[r].token \in Tokens /\ req[r].out.token = req[r].token /\ req[r].token # Keep
    BY <1>0, <2>1 DEF Staged, Keep
  <2>4. After(req[r])'.token = req[r].token /\ After(req[r])'.csrf = drawn'
    BY <1>0, <2>1, <2>2, <2>3 DEF After
  <2>5. csrf'[req[r].token] = drawn' /\ drawn' # 0
    BY <1>0, <2>1, <2>3
  <2>6. Staged(req[r])'
    BY <1>0, <2>2 DEF Staged
  <2>7. ASSUME r \notin crowded PROVE ByItself(r)'
    <3>1. Agrees(After(req[r]))'
      BY <2>4, <2>5 DEF Agrees
    <3> QED BY <1>0, <1>C, <2>2, <2>5, <2>7, <3>1 DEF ByItself
  <2>8. \A t \in Tokens : t # req[r].token => csrf'[t] = csrf[t]
    BY <1>0, <2>1
  <2> QED BY <1>0, <2>1, <2>6, <2>7, <2>8, CsrfMoves
<1>4. CASE DelSess(r)
  <2>1. /\ req[r].at = "destroy" /\ UNCHANGED <<used, csrf>> /\ cookie' \subseteq cookie
        /\ Sets(r, "answer", req[r].token, NoToken, req[r].out.csrf)
    BY <1>0, <1>4, ServeShape DEF DelSess, Destroy
  <2>2. /\ req'[r].at = "answer" /\ req'[r].client = req[r].client
        /\ req'[r].out.token = NoToken /\ req'[r].out.csrf = req[r].out.csrf
        /\ \A p \in Requests : req'[p].client = req[p].client
    BY <2>1 DEF Sets
  <2>3. After(req[r])'.token \notin cookie'
    BY <1>0, <2>1, <2>2 DEF After, Keep
  <2>4. Staged(req[r])'
    BY <1>0, <2>2 DEF Staged
  <2>7. ASSUME r \notin crowded PROVE ByItself(r)'
    <3>2. Agrees(After(req[r]))'
      BY <2>3 DEF Agrees
    <3>3. req[r].client \notin adrift /\ req[r].out.csrf = 0 => Agrees(jar[c])'
      BY <1>0, <1>A, <1>B, <2>1, <2>7 DEF Agrees
    <3> QED BY <1>0, <1>C, <2>2, <2>7, <3>2, <3>3 DEF ByItself
  <2> QED BY <1>0, <2>1, <2>4, <2>7, CsrfMoves
<1>5. ASSUME NEW t \in Tokens, StartSess(r, t)
      PROVE  CsrfInv'
  <2>1. /\ req[r].at = "guest" /\ UNCHANGED csrf /\ used' = used \cup {t}
        /\ cookie' = cookie \cup {t} /\ t \notin used
        /\ Sets(r, "acc", t, t, req[r].out.csrf)
    BY <1>0, <1>5, ServeShape DEF StartSess, NewToken
  <2>2. /\ req'[r].at = "acc" /\ req'[r].client = req[r].client
        /\ req'[r].token = t /\ req'[r].out.token = t
        /\ req'[r].out.csrf = req[r].out.csrf
        /\ \A p \in Requests : req'[p].client = req[p].client
    BY <2>1 DEF Sets
  <2>3. Staged(req[r])'
    BY <1>0, <2>1, <2>2 DEF Staged
  <2>7. ASSUME r \notin crowded PROVE ByItself(r)'
    <3>3. req[r].client \notin adrift /\ req[r].out.csrf = 0 => Agrees(jar[c])'
      BY <1>0, <1>A, <1>B, <2>1, <2>7 DEF Agrees
    <3>4. ~Delivers(r)'
      BY <2>2 DEF Delivers
    <3> QED BY <1>0, <1>C, <2>2, <2>7, <3>3, <3>4 DEF ByItself
  <2> QED BY <1>0, <2>1, <2>3, <2>7, CsrfMoves
<1> QED BY <1>1, <1>2, <1>3, <1>4, <1>5 DEF Serve

(* A browser sends the token it keeps, by itself or not ...                *)
LEMMA CsrfSend ==
  ASSUME Inv, CsrfInv,
         NEW r \in Requests, NEW c \in Clients, NEW kind \in Kinds, Send(r, c, kind)
  PROVE  CsrfInv'
<1>0. /\ req[r].at = "idle" /\ UNCHANGED <<sessVars, csrf, jar>>
      /\ req \in [Requests -> Request]
      /\ Apart /\ \A p \in Requests : Staged(req[p])
      /\ \A p \in crowded : p \in Requests /\ req[p].client \in adrift
      /\ adrift \subseteq Clients
      /\ \A p \in Requests \ crowded : ByItself(p)
      /\ \A d \in Clients \ adrift : OfClient(d) = {} => Agrees(jar[d])
      /\ cookie' = cookie /\ used' = used
      /\ req[r].client \notin Clients /\ r \notin crowded
  BY DEF Send, Inv, WikiShape, CsrfInv, Staged, sessVars
<1>1. PICK q : q = [Quiet EXCEPT !.at = "lookup", !.kind = kind, !.client = c,
                                 !.token = jar[c].token, !.form = jar[c].csrf]
  OBVIOUS
<1>2. /\ q.at = "lookup" /\ q.client = c /\ q.token = jar[c].token
      /\ q.out.token = Keep /\ q.out.csrf = 0
  BY <1>1 DEF Quiet
<1>3. req' = [req EXCEPT ![r] = q]
  BY <1>1 DEF Send
<1>4. req'[r] = q /\ \A p \in Requests \ {r} : req'[p] = req[p]
  BY <1>0, <1>3
<1>5. ASSUME NEW d \in Clients, NEW t \in Tokens, HeldBy(d, t)' PROVE HeldBy(d, t)
  <2>1. CASE jar'[d].token = t
    BY <1>0, <2>1 DEF HeldBy
  <2>2. CASE \E p \in Requests : req'[p].client = d /\ t \in {req'[p].token, req'[p].out.token}
    <3>1. PICK p \in Requests : req'[p].client = d /\ t \in {req'[p].token, req'[p].out.token}
      BY <2>2
    <3>2. CASE p = r
      BY <1>2, <1>4, <3>1, <3>2 DEF HeldBy, Keep
    <3>3. CASE p # r
      BY <1>4, <3>1, <3>3 DEF HeldBy
    <3> QED BY <3>2, <3>3
  <2> QED BY <1>5, <2>1, <2>2 DEF HeldBy
<1>6. Apart'
  <2>1. ASSUME NEW d \in Clients, NEW e \in Clients, NEW t \in Tokens, HeldBy(d, t)'
        PROVE  t \in used' /\ (HeldBy(e, t)' => e = d)
    BY <1>0, <1>5, <2>1 DEF Apart
  <2> QED BY <2>1 DEF Apart
<1>7. \A p \in Requests : Staged(req[p])'
  BY <1>0, <1>2, <1>4 DEF Staged
<1>8. /\ crowded \subseteq crowded' /\ crowded' \subseteq Requests
      /\ adrift \subseteq adrift' /\ adrift' \subseteq Clients
      /\ adrift' \subseteq adrift \cup {c}
      /\ crowded' \subseteq crowded \cup OfClient(c) \cup {r}
      /\ OfClient(c) = {} => crowded' = crowded /\ adrift' = adrift
      /\ OfClient(c) # {} => c \in adrift' /\ r \in crowded' /\ OfClient(c) \subseteq crowded'
  BY <1>0 DEF Send, OfClient
<1>9. \A p \in crowded' : p \in Requests /\ req'[p].client \in adrift'
  <2>1. CASE OfClient(c) = {}
    BY <1>0, <1>4, <1>8, <2>1
  <2>2. CASE OfClient(c) # {}
    BY <1>0, <1>2, <1>4, <1>8, <2>2 DEF OfClient
  <2> QED BY <2>1, <2>2
<1>10. ASSUME NEW p \in Requests \ crowded' PROVE ByItself(p)'
  <2>1. CASE p = r
    <3>1. OfClient(c) = {} /\ crowded' = crowded /\ adrift' = adrift
      BY <1>8, <1>10, <2>1
    <3>2. Alone(r)'
      BY <1>2, <1>4, <3>1 DEF Alone, OfClient
    <3>3. After(req[r])'.token = jar[c].token /\ After(req[r])'.csrf = jar[c].csrf
      BY <1>0, <1>2, <1>4 DEF After
    <3>4. c \notin adrift => Agrees(After(req[r]))' /\ Agrees(jar[c])'
      BY <1>0, <3>1, <3>3 DEF Agrees
    <3>5. Delivers(r)' => c \notin adrift
      BY <1>2, <1>4, <3>1 DEF Delivers
    <3>6. Agrees(jar[req[r].client])' <=> Agrees(jar[c])'
      BY <1>2, <1>4
    <3> QED BY <1>0, <1>2, <1>4, <2>1, <3>1, <3>2, <3>4, <3>5, <3>6 DEF ByItself
  <2>2. CASE p # r
    <3>1. req'[p] = req[p] /\ ByItself(p) /\ Staged(req[p]) /\ req[p].client # c
      BY <1>0, <1>4, <1>8, <1>10, <2>2 DEF OfClient
    <3>2. req[p].client \in adrift' <=> req[p].client \in adrift
      BY <1>8, <3>1
    <3>3. Alone(p)'
      BY <1>2, <1>4, <3>1 DEF Alone, ByItself
    <3>4. (Delivers(p)' <=> Delivers(p)) /\ (Agrees(After(req[p]))' <=> Agrees(After(req[p])))
      BY <1>0, <3>1, <3>2 DEF Delivers, After, Agrees
    <3>5. Agrees(jar[req[p].client])' <=> Agrees(jar[req[p].client])
      BY <1>0, <3>1 DEF Agrees
    <3> QED BY <1>0, <3>1, <3>2, <3>3, <3>4, <3>5 DEF ByItself
  <2> QED BY <2>1, <2>2
<1>11. ASSUME NEW d \in Clients \ adrift', OfClient(d)' = {} PROVE Agrees(jar[d])'
  <2>1. OfClient(d) = {} /\ d \notin adrift
    BY <1>0, <1>4, <1>8, <1>11 DEF OfClient
  <2> QED BY <1>0, <2>1 DEF Agrees
<1> QED BY <1>6, <1>7, <1>8, <1>9, <1>10, <1>11 DEF CsrfInv

(* ... and the request ends: its answer arrives, or is lost.  Either way   *)
(* nobody learns a token he did not know.                                  *)
LEMMA CsrfEnds ==
  ASSUME Inv, CsrfInv, NEW r \in Requests, Deliver(r) \/ Lose(r),
         NEW c, c = req[r].client, \A d \in Clients \ {c} : jar'[d] = jar[d],
         jar'[c] \in {jar[c], After(req[r])},
         c \notin adrift' => Agrees(jar[c])'
  PROVE  CsrfInv'
<1>0. /\ req[r].at = "answer" /\ UNCHANGED <<sessVars, csrf>> /\ c \in Clients
      /\ req \in [Requests -> Request]
      /\ Apart /\ \A p \in Requests : Staged(req[p])
      /\ \A p \in crowded : p \in Requests /\ req[p].client \in adrift
      /\ adrift \subseteq Clients
      /\ \A p \in Requests \ crowded : ByItself(p)
      /\ \A d \in Clients \ adrift : OfClient(d) = {} => Agrees(jar[d])
      /\ cookie' = cookie /\ used' = used
      /\ crowded' = crowded \ {r} /\ req' = [req EXCEPT ![r] = Quiet]
  BY DEF Deliver, Lose, Inv, WikiShape, CsrfInv, Staged, sessVars
<1>1. /\ req'[r].at = "idle" /\ req'[r].client = NoToken /\ req'[r].token = NoToken
      /\ req'[r].out.token = Keep
      /\ \A p \in Requests \ {r} : req'[p] = req[p]
  BY <1>0 DEF Quiet
<1>2. /\ adrift' \subseteq adrift \cup {c} /\ adrift \ {c} \subseteq adrift'
      /\ r \in crowded => c \in adrift'
  <2>1. CASE Deliver(r)
    BY <1>0, <2>1 DEF Deliver
  <2>2. CASE Lose(r)
    BY <1>0, <2>2 DEF Lose
  <2> QED BY <2>1, <2>2
<1>3. ASSUME NEW d \in Clients, NEW t \in Tokens, HeldBy(d, t)' PROVE HeldBy(d, t)
  <2>1. CASE jar'[d].token = t
    <3>1. CASE d = c
      BY <2>1, <3>1 DEF After, HeldBy
    <3>2. CASE d # c
      BY <2>1, <3>2 DEF HeldBy
    <3> QED BY <3>1, <3>2
  <2>2. CASE \E p \in Requests : req'[p].client = d /\ t \in {req'[p].token, req'[p].out.token}
    BY <1>1, <2>2 DEF HeldBy
  <2> QED BY <1>3, <2>1, <2>2 DEF HeldBy
<1>4. Apart'
  <2>1. ASSUME NEW d \in Clients, NEW e \in Clients, NEW t \in Tokens, HeldBy(d, t)'
        PROVE  t \in used' /\ (HeldBy(e, t)' => e = d)
    BY <1>0, <1>3, <2>1 DEF Apart
  <2> QED BY <2>1 DEF Apart
<1>5. \A p \in Requests : Staged(req[p])'
  BY <1>0, <1>1 DEF Staged
<1>6. \A p \in crowded' : p \in Requests /\ req'[p].client \in adrift'
  <2> SUFFICES ASSUME NEW p \in crowded' PROVE p \in Requests /\ req'[p].client \in adrift'
    OBVIOUS
  <2>1. p \in crowded /\ p \in Requests \ {r} /\ req'[p] = req[p] /\ req[p].client \in adrift
    BY <1>0, <1>1
  <2>2. CASE req[p].client # c
    BY <1>2, <2>1, <2>2
  <2>3. CASE req[p].client = c
    <3>1. r \in crowded
      BY <1>0, <2>1, <2>3 DEF ByItself, Alone
    <3> QED BY <1>2, <2>1, <2>3, <3>1
  <2> QED BY <2>2, <2>3
<1>7. ASSUME NEW p \in Requests \ crowded' PROVE ByItself(p)'
  <2>1. CASE p = r
    BY <1>1, <2>1 DEF ByItself, Alone
  <2>2. CASE p # r /\ req[p].at = "idle"
    BY <1>0, <1>1, <2>2 DEF ByItself, Alone, Staged
  <2>3. CASE p # r /\ req[p].at # "idle"
    <3>1. ByItself(p) /\ req[p].client \in Clients /\ req[p].client # c /\ req'[p] = req[p]
      BY <1>0, <1>1, <1>7, <2>3 DEF Staged, ByItself, Alone
    <3>2. jar'[req[p].client] = jar[req[p].client]
      BY <3>1
    <3>3. req[p].client \in adrift' <=> req[p].client \in adrift
      BY <1>2, <3>1
    <3>4. Alone(p)'
      BY <1>1, <3>1 DEF Alone, ByItself
    <3>5. (Delivers(p)' <=> Delivers(p)) /\ (Agrees(After(req[p]))' <=> Agrees(After(req[p])))
      BY <1>0, <3>1, <3>2, <3>3 DEF Delivers, After, Agrees
    <3>6. Agrees(jar[req[p].client])' <=> Agrees(jar[req[p].client])
      BY <1>0, <3>1, <3>2 DEF Agrees
    <3> QED BY <3>1, <3>2, <3>3, <3>4, <3>5, <3>6 DEF ByItself
  <2> QED BY <2>1, <2>2, <2>3
<1>8. ASSUME NEW d \in Clients \ adrift', OfClient(d)' = {} PROVE Agrees(jar[d])'
  <2>1. CASE d = c
    BY <1>8, <2>1
  <2>2. CASE d # c
    <3>1. OfClient(d) = {} /\ d \notin adrift
      BY <1>1, <1>2, <1>8, <2>2 DEF OfClient
    <3> QED BY <1>0, <2>2, <3>1 DEF Agrees
  <2> QED BY <2>1, <2>2
<1>9. adrift' \subseteq Clients
  BY <1>0, <1>2
<1> QED BY <1>4, <1>5, <1>6, <1>7, <1>8, <1>9 DEF CsrfInv

(* The browser takes over what the answer brings.                          *)
LEMMA CsrfDeliver ==
  ASSUME Inv, CsrfInv, NEW r \in Requests, Deliver(r)
  PROVE  CsrfInv'
<1>c. PICK c : c = req[r].client
  OBVIOUS
<1>0. /\ req[r].at = "answer" /\ c \in Clients /\ cookie' = cookie /\ csrf' = csrf
      /\ jar \in [Clients -> [token : Tokens \cup {NoToken}, csrf : Nat]]
      /\ r \in crowded => c \in adrift
      /\ r \notin crowded => ByItself(r)
  BY <1>c DEF Deliver, Inv, WikiShape, CsrfInv, Staged, sessVars
<1>1. jar'[c] = After(req[r]) /\ \A d \in Clients \ {c} : jar'[d] = jar[d]
  BY <1>c, <1>0 DEF Deliver, After
<1>2. ASSUME c \notin adrift' PROVE Agrees(jar[c])'
  <2>1. r \notin crowded /\ (c \notin adrift \/ req[r].out.csrf # 0)
    BY <1>c, <1>0, <1>2 DEF Deliver
  <2>2. Agrees(After(req[r]))
    BY <1>c, <1>0, <2>1 DEF ByItself, Delivers
  <2> QED BY <1>0, <1>1, <2>2 DEF Agrees
<1> QED BY <1>c, <1>1, <1>2, CsrfEnds

(* ... or keeps the cookies it has.                                        *)
LEMMA CsrfLose ==
  ASSUME Inv, CsrfInv, NEW r \in Requests, Lose(r)
  PROVE  CsrfInv'
<1>c. PICK c : c = req[r].client
  OBVIOUS
<1>0. /\ req[r].at = "answer" /\ c \in Clients /\ cookie' = cookie /\ csrf' = csrf
      /\ jar' = jar
      /\ r \in crowded => c \in adrift
      /\ r \notin crowded => ByItself(r)
  BY <1>c DEF Lose, CsrfInv, Staged, sessVars
<1>1. ASSUME c \notin adrift' PROVE Agrees(jar[c])'
  <2>1. c \notin adrift /\ req[r].out.csrf = 0
    BY <1>c, <1>1 DEF Lose
  <2> QED BY <1>c, <1>0, <2>1 DEF ByItself, Agrees
<1> QED BY <1>c, <1>0, <1>1, CsrfEnds

(* Every step.                                                             *)
LEMMA CsrfStep == Inv /\ CsrfInv /\ [Next]_vars => CsrfInv'
<1> SUFFICES ASSUME Inv, CsrfInv, [Next]_vars PROVE CsrfInv'
  OBVIOUS
<1>1. CASE (Collect \/ Sweep \/ Tick) /\ UNCHANGED wikiVars
  <2>1. cookie' \subseteq cookie /\ used' = used /\ UNCHANGED wikiVars
    BY <1>1 DEF Collect, Sweep, Tick
  <2> QED BY <2>1, CsrfStays
<1>2. CASE UNCHANGED vars
  <2>1. cookie' \subseteq cookie /\ used' = used /\ UNCHANGED wikiVars
    BY <1>2 DEF vars, sessVars
  <2> QED BY <2>1, CsrfStays
<1> QED
  BY <1>1, <1>2, CsrfServe, CsrfSend, CsrfDeliver, CsrfLose DEF Next

(* At the start the browsers have no cookies.                              *)
LEMMA CsrfInit == Init => CsrfInv
<1> SUFFICES ASSUME Init PROVE CsrfInv
  OBVIOUS
<1>1. \A r \in Requests : /\ req[r].at = "idle" /\ req[r].client = NoToken
                          /\ req[r].token = NoToken /\ req[r].out.token = Keep
  BY DEF Init, Quiet
<1>2. \A c \in Clients : jar[c].token = NoToken
  BY DEF Init
<1>3. Apart
  BY <1>1, <1>2 DEF Apart, HeldBy, Keep
<1>4. \A r \in Requests : Staged(req[r]) /\ ByItself(r)
  BY <1>1 DEF Staged, ByItself, Alone
<1>5. \A c \in Clients : Agrees(jar[c])
  BY <1>2 DEF Init, SessInit, Agrees
<1> QED BY <1>3, <1>4, <1>5 DEF CsrfInv, Init

(* A browser can log out: it has the CSRF token that updateCSRF set last   *)
(* in its session, whatever other browsers do and whenever the cleaner     *)
(* runs.  If it has sent requests in parallel, or lost an answer with a    *)
(* token, this holds from the next page it loads by itself.                *)
THEOREM CsrfHeld == Spec => []CsrfAgrees
<1>1. Inv /\ CsrfInv /\ [Next]_vars => CsrfInv'
  BY CsrfStep
<1>2. CsrfInv => CsrfAgrees
  BY DEF CsrfInv, Agrees, CsrfAgrees
<1> QED BY <1>1, <1>2, InvInit, InvStep, CsrfInit, PTL DEF Spec

-----------------------------------------------------------------------------
(* Sessions, cookies and requests are always well-formed, and no CSRF      *)
(* token is anywhere that updateCSRF has not drawn.                        *)
THEOREM TypeCorrect == Spec => []TypeOK
<1>1. Inv /\ LimitInv /\ CsrfInv => TypeOK
  <2> SUFFICES ASSUME Inv, LimitInv, CsrfInv PROVE TypeOK
    OBVIOUS
  <2>1. /\ acc \in [Tokens -> BOOLEAN] /\ csrf \in [Tokens -> Nat] /\ drawn \in Nat
        /\ jar \in [Clients -> [token : Tokens \cup {NoToken}, csrf : Nat]]
        /\ req \in [Requests -> Request]
    BY DEF Inv, WikiShape
  <2>2. drawn \in 0 .. MaxCsrf
    BY <2>1, PendingFinite DEF LimitInv
  <2>3. csrf \in [Tokens -> 0 .. MaxCsrf]
    BY <2>1, <2>2 DEF LimitInv
  <2>4. jar \in [Clients -> [token : Tokens \cup {NoToken}, csrf : 0 .. MaxCsrf]]
    <3>1. \A c \in Clients : jar[c].csrf \in 0 .. MaxCsrf
      BY <2>1, <2>2 DEF LimitInv
    <3> QED BY <2>1, <3>1
  <2>5. ASSUME NEW r \in Requests
        PROVE  req[r] \in [at : Stages, kind : Kinds, client : Clients \cup {NoToken},
                           token : Tokens \cup {NoToken}, form : 0 .. MaxCsrf,
                           out : [token : Tokens \cup {NoToken, Keep}, csrf : 0 .. MaxCsrf]]
    <3>1. req[r] \in Request /\ req[r].form \in 0 .. MaxCsrf /\ req[r].out.csrf \in 0 .. MaxCsrf
      BY <2>1, <2>2 DEF LimitInv, DrawnOK, Request, Cookies
    <3>2. req[r].out \in [token : Tokens \cup {NoToken, Keep}, csrf : 0 .. MaxCsrf]
      BY <3>1 DEF Request, Cookies
    <3> QED BY <3>1, <3>2 DEF Request
  <2>6. crowded \subseteq Requests /\ adrift \subseteq Clients
    BY DEF CsrfInv
  <2> QED BY <2>1, <2>2, <2>3, <2>4, <2>5, <2>6 DEF TypeOK, LimitInv, Stages
<1> QED BY <1>1, InvInit, InvStep, LimitInit, LimitStep, CsrfInit, CsrfStep,
           PTL DEF Spec

=============================================================================
