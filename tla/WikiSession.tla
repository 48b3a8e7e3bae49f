----------------------------- MODULE WikiSession ------------------------------
(***************************************************************************)
(* Requests of browsers against the session store (api.go: getSess,        *)
(* startSess, delSess, updateCSRF, login, logout and the handlers that     *)
(* begin with checkAuth).  A browser keeps two cookies, sends them with    *)
(* each request and takes them over from each answer; it runs several      *)
(* requests at once and their answers arrive in any order, or are lost.    *)
(*                                                                         *)
(* Handlers are told apart by what they do to sessions: "page" (status,    *)
(* list, the tiddlers) renews the session and rotates its CSRF token,      *)
(* "file" (upload, serveFile) only renews it.                              *)
(***************************************************************************)
EXTENDS MemSession

CONSTANTS
  Clients,     \* browsers
  Requests,    \* requests being served, or free to be sent
  NoToken,     \* no session cookie
  MaxCsrf      \* bound on the CSRF tokens drawn

ASSUME WikiSessionAssumption ==
  /\ NoToken \notin Tokens \cup Clients /\ "keep" \notin Tokens \cup {NoToken}
  /\ IsFiniteSet(Requests)
  /\ MaxCsrf \in Nat

VARIABLES
  acc,         \* sd.Get("acc"): is the user name set?
  csrf,        \* sd.Get("csrf"), 0 if not set; tokens are numbered
  drawn,       \* CSRF tokens drawn so far
  jar,         \* jar[c]: the cookies of browser c
  req,         \* req[r]: the request, at the next step of its handler
  crowded,     \* history: requests that were under way together with
               \* another one of their browser
  adrift       \* history: browsers that have sent such requests, or lost a
               \* CSRF token, and have not loaded a page by itself since

browserVars == <<jar, crowded, adrift>>
wikiVars == <<acc, csrf, drawn, req, browserVars>>
vars == <<sessVars, wikiVars>>

Kinds == {"page", "file", "login", "logout"}

(* out: the cookies the answer sets; NoToken deletes, Keep and 0 set none. *)
Keep == "keep"
Quiet == [at |-> "idle", kind |-> "page", client |-> NoToken, token |-> NoToken,
          form |-> 0, out |-> [token |-> Keep, csrf |-> 0]]

Init ==
  /\ SessInit
  /\ acc = [t \in Tokens |-> FALSE]
  /\ csrf = [t \in Tokens |-> 0]
  /\ drawn = 0
  /\ jar = [c \in Clients |-> [token |-> NoToken, csrf |-> 0]]
  /\ req = [r \in Requests |-> Quiet]
  /\ crowded = {}
  /\ adrift = {}

-----------------------------------------------------------------------------
OfClient(c) == {r \in Requests : req[r].client = c}

GoTo(r, stage) == req' = [req EXCEPT ![r].at = stage]

(* Drawing a CSRF token, for the bound on them.                            *)
Draws == {"page", "login"}
Drawing == {r \in Requests : req[r].at # "idle" /\ req[r].kind \in Draws}

(* A logout sends the CSRF cookie back as a form field.                    *)
Send(r, c, kind) ==
  /\ req[r].at = "idle"
  /\ kind \in Draws => drawn + Cardinality(Drawing) < MaxCsrf
  /\ req' = [req EXCEPT ![r] = [Quiet EXCEPT
       !.at = "lookup", !.kind = kind, !.client = c,
       !.token = jar[c].token, !.form = jar[c].csrf]]
  /\ IF OfClient(c) = {}
       THEN UNCHANGED <<crowded, adrift>>
       ELSE /\ crowded' = crowded \cup OfClient(c) \cup {r}
            /\ adrift' = adrift \cup {c}
  /\ UNCHANGED <<sessVars, acc, csrf, drawn, jar>>

(* getSess, GetOrRenew: is there a cookie, and is its token in the map?    *)
Lookup(r) ==
  /\ req[r].at = "lookup"
  /\ GoTo(r, IF req[r].token \in cookie THEN "check" ELSE "guest")
  /\ UNCHANGED <<sessVars, acc, csrf, drawn, browserVars>>

(* Mutant of Check: the test is inverted.                                  *)
CheckInverted(r) ==
  /\ req[r].at = "check"
  /\ CheckTimeout(req[r].token)
  /\ GoTo(r, IF IsTimeout(req[r].token) THEN "renew" ELSE "drop")
  /\ UNCHANGED <<acc, csrf, drawn, browserVars>>

Check(r) ==
  /\ req[r].at = "check"
  /\ CheckTimeout(req[r].token)
  /\ GoTo(r, IF IsTimeout(req[r].token) THEN "drop" ELSE "renew")
  /\ UNCHANGED <<acc, csrf, drawn, browserVars>>

DropSess(r) ==
  /\ req[r].at = "drop"
  /\ Drop(req[r].token)
  /\ GoTo(r, "guest")
  /\ UNCHANGED <<acc, csrf, drawn, browserVars>>

(* GetOrRenew, not timed out; getSess sets the session cookie again.  A    *)
(* login that finds a session is done.                                     *)
AfterGetSess == [page |-> "csrf", file |-> "answer", login |-> "answer",
                 logout |-> "verify"]

RenewSess(r) ==
  /\ req[r].at = "renew"
  /\ Renew(req[r].token)
  /\ req' = [req EXCEPT ![r].at = AfterGetSess[req[r].kind],
                        ![r].out.token = req[r].token]
  /\ UNCHANGED <<acc, csrf, drawn, browserVars>>

(* No session: refused, or served as the anonymous user, or a login whose  *)
(* password is wrong.  No cookie is set.                                   *)
Guest(r) ==
  /\ req[r].at = "guest"
  /\ GoTo(r, "answer")
  /\ UNCHANGED <<sessVars, acc, csrf, drawn, browserVars>>

(* Mutant of StartSess: the user name is not set.                          *)
StartNameless(r, t) ==
  /\ req[r].at = "guest" /\ req[r].kind = "login"
  /\ NewToken(t)
  /\ req' = [req EXCEPT ![r].at = "csrf", ![r].token = t, ![r].out.token = t]
  /\ UNCHANGED <<acc, csrf, drawn, browserVars>>

(* login, password right: startSess ...                                    *)
StartSess(r, t) ==
  /\ req[r].at = "guest" /\ req[r].kind = "login"
  /\ NewToken(t)
  /\ req' = [req EXCEPT ![r].at = "acc", ![r].token = t, ![r].out.token = t]
  /\ UNCHANGED <<acc, csrf, drawn, browserVars>>

(* ... and sd.Set("acc", name).                                            *)
SetAcc(r) ==
  /\ req[r].at = "acc"
  /\ acc' = [acc EXCEPT ![req[r].token] = TRUE]
  /\ GoTo(r, "csrf")
  /\ UNCHANGED <<sessVars, csrf, drawn, browserVars>>

(* Mutant of UpdateCSRF: the token is not sent to the browser.             *)
UpdateQuietly(r) ==
  /\ req[r].at = "csrf"
  /\ drawn' = drawn + 1
  /\ csrf' = [csrf EXCEPT ![req[r].token] = drawn']
  /\ GoTo(r, "answer")
  /\ UNCHANGED <<sessVars, acc, browserVars>>

(* updateCSRF: a new token into the session and into the answer.           *)
UpdateCSRF(r) ==
  /\ req[r].at = "csrf"
  /\ drawn' = drawn + 1
  /\ csrf' = [csrf EXCEPT ![req[r].token] = drawn']
  /\ req' = [req EXCEPT ![r].at = "answer", ![r].out.csrf = drawn']
  /\ UNCHANGED <<sessVars, acc, browserVars>>

(* logout: compare the form with the session ("bad request" if different)  *)
Verify(r) ==
  /\ req[r].at = "verify"
  /\ GoTo(r, IF csrf[req[r].token] # 0 /\ csrf[req[r].token] = req[r].form
               THEN "destroy" ELSE "answer")
  /\ UNCHANGED <<sessVars, acc, csrf, drawn, browserVars>>

(* logout: delSess.                                                        *)
DelSess(r) ==
  /\ req[r].at = "destroy"
  /\ Destroy(req[r].token)
  /\ req' = [req EXCEPT ![r].at = "answer", ![r].out.token = NoToken]
  /\ UNCHANGED <<acc, csrf, drawn, browserVars>>

(* The answer arrives at the browser ...                                   *)
Deliver(r) ==
  LET c == req[r].client
      out == req[r].out
  IN
  /\ req[r].at = "answer"
  /\ jar' = [jar EXCEPT ![c] =
       [token |-> IF out.token = Keep THEN @.token ELSE out.token,
        csrf |-> IF out.csrf = 0 THEN @.csrf ELSE out.csrf]]
  /\ req' = [req EXCEPT ![r] = Quiet]
  /\ crowded' = crowded \ {r}
  /\ adrift' = IF r \notin crowded /\ out.csrf # 0 THEN adrift \ {c} ELSE adrift
  /\ UNCHANGED <<sessVars, acc, csrf, drawn>>

(* ... or never does.                                                      *)
Lose(r) ==
  /\ req[r].at = "answer"
  /\ req' = [req EXCEPT ![r] = Quiet]
  /\ crowded' = crowded \ {r}
  /\ adrift' = IF req[r].out.csrf # 0 THEN adrift \cup {req[r].client} ELSE adrift
  /\ UNCHANGED <<sessVars, acc, csrf, drawn, jar>>

Serve(r) == \/ Lookup(r) \/ Check(r) \/ DropSess(r) \/ RenewSess(r) \/ Guest(r)
            \/ SetAcc(r) \/ UpdateCSRF(r) \/ Verify(r) \/ DelSess(r)

Next ==
  \/ \E r \in Requests, c \in Clients, kind \in Kinds : Send(r, c, kind)
  \/ \E r \in Requests : Serve(r) \/ Deliver(r) \/ Lose(r)
  \/ \E r \in Requests, t \in Tokens : StartSess(r, t)
  \/ (Collect \/ Sweep \/ Tick) /\ UNCHANGED wikiVars

Spec == Init /\ [][Next]_vars

(* The ticker of the cleaner keeps firing.                                 *)
FairSpec ==
  /\ Spec
  /\ WF_vars(Collect /\ UNCHANGED wikiVars)
  /\ WF_vars(Sweep /\ UNCHANGED wikiVars)

-----------------------------------------------------------------------------
TypeOK ==
  /\ SessTypeOK
  /\ acc \in [Tokens -> BOOLEAN]
  /\ csrf \in [Tokens -> 0 .. MaxCsrf]
  /\ drawn \in 0 .. MaxCsrf
  /\ jar \in [Clients -> [token : Tokens \cup {NoToken}, csrf : 0 .. MaxCsrf]]
  /\ req \in [Requests ->
       [at : {"idle", "lookup", "check", "drop", "renew", "guest", "acc", "csrf",
              "verify", "destroy", "answer"},
        kind : Kinds, client : Clients \cup {NoToken},
        token : Tokens \cup {NoToken}, form : 0 .. MaxCsrf,
        out : [token : Tokens \cup {NoToken, Keep}, csrf : 0 .. MaxCsrf]]]
  /\ crowded \in SUBSET Requests
  /\ adrift \in SUBSET Clients

(* A session that was logged out never comes back, whatever requests with  *)
(* its token were being served when it was destroyed.                      *)
LoggedOutStaysOut == cookie \cap destroyed = {}

(* A session disappears only by a logout or because a request or the       *)
(* cleaner has found it timed out.                                         *)
KeptUnlessTimedOut == used \subseteq cookie \cup destroyed \cup timedOut

(* No browser holds the cookie of a session without a user: the session is *)
(* in the map before its user is set, but nobody can know its token yet.   *)
CookieHasUser ==
  \A c \in Clients : jar[c].token # NoToken => acc[jar[c].token]

(* A browser with no request under way holds the CSRF token of its live    *)
(* session, so that its logout will be accepted ("[x] CSRF token"), unless *)
(* it has sent requests in parallel or lost an answer that brought a CSRF  *)
(* token; a page, or a login, by itself puts that right again, whatever    *)
(* went before.                                                            *)
CsrfAgrees ==
  \A c \in Clients \ adrift :
    OfClient(c) = {} /\ jar[c].token \in cookie => jar[c].csrf = csrf[jar[c].token]

(* A session whose time is not up is in the map: a request that renewed it *)
(* was promised another SESSION_TTL.                                       *)
LiveIsKept ==
  \A t \in used \ destroyed : ~IsTimeout(t) => t \in cookie

(* A session nobody renews is removed from the map in the end.             *)
ExpiredIsRemoved ==
  \A t \in Tokens : t \in cookie /\ IsTimeout(t) ~> t \notin cookie \/ ~IsTimeout(t)

=============================================================================
