------------------------------- MODULE PageLoad --------------------------------
(***************************************************************************)
(* Loading the page in the tabs of one browser (api.go: status, list,      *)
(* putTiddler, login), under the access control of auth_acl.go, while the  *)
(* configuration is reloaded.  A tab asks for the status and then for the  *)
(* listing; the status sets the first-load cookie, which makes the listing *)
(* a full one and is reset by it.  The tabs share the cookie.              *)
(*                                                                         *)
(* A request is served by the handler it loaded from the atomic.Value,     *)
(* whatever is loaded meanwhile, and looks once for a user in its session: *)
(* it is one step.  Sessions themselves are the matter of WikiSession.     *)
(* A handler that panics closes the connection: the request has failed, as *)
(* it has if there is no handler yet.                                      *)
(***************************************************************************)
EXTENDS ConfigWatch

CONSTANTS
  Tabs,
  Address,     \* the IP address the browser's requests come from
  Account,     \* the account its user has
  NoSection    \* a section the file leaves out: a nil pointer

VARIABLES
  first,       \* does the browser hold the first-load cookie?
  user,        \* is its session one with a user?
  tab          \* tab[t]: the request of a tab and what it was told

pageVars == <<vars, first, user, tab>>

(* A configuration is a record of sections, a prefix a set of addresses.   *)
ACL == [allow : SUBSET SUBSET {Address}, block : SUBSET SUBSET {Address},
        def : BOOLEAN]

ASSUME PageAssumption ==
  Configs \subseteq [anonymous : ACL \cup {NoSection}, edit : ACL \cup {NoSection},
                     users : SUBSET {Account} \cup {NoSection}]

(* ACL.Check: block before allow, allow before the default.                *)
Check(acl) ==
  /\ \A prefix \in acl.block : Address \notin prefix
  /\ acl.def \/ \E prefix \in acl.allow : Address \in prefix

(* What the last status said, while neither the handler nor the user of    *)
(* the session have changed.                                               *)
Untold == [read |-> FALSE, edit |-> FALSE]

(* tab[t].listing tells the next listing from those that poll: it follows  *)
(* a status, and no listing of another tab took the cookie before it was   *)
(* sent ("first") or one did ("shared").                                   *)
NewTab == [at |-> "idle", reply |-> "none", carries |-> FALSE,
           listing |-> "poll", told |-> Untold]

PageInit ==
  /\ Init
  /\ first = FALSE
  /\ user = FALSE
  /\ tab = [t \in Tabs |-> NewTab]

-----------------------------------------------------------------------------
(* The syncer of a tab: the status when the page is loaded and after a     *)
(* login, then a listing, then listings that poll; PUTs at any time.  That *)
(* a tab has one request at a time is no limit: no two answers that one    *)
(* tab may wait for have a cookie or a variable in common.                 *)
Send(t, kind) ==
  /\ tab[t].at = "idle"
  /\ tab' = [tab EXCEPT ![t] =
       [tab[t] EXCEPT !.at = kind, !.carries = first,
                      !.listing = IF kind = "status" THEN "first" ELSE @,
                      !.told = IF kind = "status" THEN Untold ELSE @]]
  /\ UNCHANGED <<first, user>>

Answer(t, reply) ==
  /\ tab' = [tab EXCEPT ![t].reply = reply]
  /\ UNCHANGED <<first, user>>

(* reqAtom: the handler is loaded; there may be none yet.                  *)
Arrives(t, kind) == tab[t].at = kind /\ tab[t].reply = "none" /\ handler # NoHandler

NotReady(t) ==
  /\ tab[t].at # "idle" /\ tab[t].reply = "none"
  /\ handler = NoHandler
  /\ Answer(t, "failed")

(* checkAuth, checkAuthEdit: the ACL is asked, user or not.                *)
Panics(section) == handler[section] = NoSection
Permitted(section) == user \/ Check(handler[section])

(* Mutant of MayEdit: the wrong section is asked.                          *)
MayRead == Permitted("anonymous")

(* status: not read-only.                                                  *)
MayEdit == Permitted("edit")

(* Mutant of SetsFirst: the test for http.ErrNoCookie is inverted.         *)
SetsAgain(t) == tab[t].carries

(* setFirstLoad                                                            *)
SetsFirst(t) == ~tab[t].carries

(* status: the second section is asked if the first permits and there is   *)
(* no user.                                                                *)
Status(t) ==
  /\ Arrives(t, "status")
  /\ IF \/ Panics("anonymous")
        \/ ~user /\ Permitted("anonymous") /\ Panics("edit")
       THEN Answer(t, "failed")
       ELSE /\ tab' = [tab EXCEPT ![t] =
                 [tab[t] EXCEPT !.reply = IF SetsFirst(t) THEN "set" ELSE "keep",
                                !.told = IF ~Permitted("anonymous") THEN Untold
                                         ELSE [read |-> TRUE, edit |-> MayEdit]]]
            /\ UNCHANGED <<first, user>>

(* list, checkAndResetFirstLoad: with the cookie it is a full one.         *)
List(t) ==
  /\ Arrives(t, "list")
  /\ Answer(t, IF Panics("anonymous") THEN "failed"
               ELSE IF ~Permitted("anonymous") THEN "empty"
               ELSE IF tab[t].carries THEN "full" ELSE "slim")

(* putTiddler; delTiddler and upload begin in the same way.                *)
Put(t) ==
  /\ Arrives(t, "put")
  /\ Answer(t, IF Panics("edit") THEN "failed"
               ELSE IF Permitted("edit") THEN "stored" ELSE "refused")

(* login, with the right password or a wrong one; nothing to do if there   *)
(* is a user.                                                              *)
Login(t) ==
  /\ Arrives(t, "login")
  /\ IF user THEN Answer(t, "user")
     ELSE IF Panics("users") THEN Answer(t, "failed")
     ELSE \/ Account \in handler.users /\ Answer(t, "user")
          \/ Answer(t, "refused")

-----------------------------------------------------------------------------
(* A tab is done with its request.                                         *)
Done(t) ==
  [tab[t] EXCEPT !.at = "idle", !.reply = "none", !.carries = FALSE,
                 !.listing = IF \/ tab[t].at = "list"
                                \/ tab[t].at = "status" /\ tab[t].reply \notin {"set", "keep"}
                             THEN "poll" ELSE @]

(* What the tabs were told holds for this handler and this user.           *)
Forget(tabs) == [t \in Tabs |-> [tabs[t] EXCEPT !.told = Untold]]

(* Whose listing has yet to be sent shares the cookie that is reset.       *)
Shared(t) ==
  [u \in Tabs |-> IF u = t THEN Done(t)
                  ELSE IF tab[u].listing = "first" /\ tab[u].at # "list"
                         THEN [tab[u] EXCEPT !.listing = "shared"]
                  ELSE tab[u]]

(* An answer arrives and the browser takes over its cookies.               *)
Deliver(t) ==
  LET reply == tab[t].reply IN
  /\ reply \notin {"none", "failed"}
  /\ first' = IF reply = "set" THEN TRUE ELSE IF reply = "full" THEN FALSE ELSE first
  /\ user' = (user \/ reply = "user")
  /\ tab' = CASE reply = "full" -> Shared(t)
              [] reply = "user" /\ ~user -> Forget([tab EXCEPT ![t] = Done(t)])
              [] OTHER -> [tab EXCEPT ![t] = Done(t)]

(* The request has failed, or its answer is lost.                          *)
Lose(t) ==
  /\ tab[t].reply # "none"
  /\ tab' = [tab EXCEPT ![t] = [Done(t) EXCEPT !.listing = IF tab[t].at = "status" THEN "poll" ELSE @,
                                              !.told = IF tab[t].at = "status" THEN Untold ELSE @]]
  /\ UNCHANGED <<first, user>>

(* A logout in another window, or the session times out.                   *)
Expire ==
  /\ user
  /\ user' = FALSE
  /\ tab' = Forget(tab)
  /\ UNCHANGED first

Kinds == {"status", "list", "put", "login"}

Request ==
  /\ \/ \E t \in Tabs, kind \in Kinds : Send(t, kind)
     \/ \E t \in Tabs : \/ NotReady(t) \/ Status(t) \/ List(t) \/ Put(t) \/ Login(t)
                        \/ Deliver(t) \/ Lose(t)
     \/ Expire
  /\ UNCHANGED vars

(* The goroutine of ConfigWatch.  A new handler may not hold what the old  *)
(* one told.                                                               *)
Reload ==
  /\ Watch
  /\ tab' = IF handler' = handler THEN tab ELSE Forget(tab)
  /\ UNCHANGED <<first, user>>

EditFile ==
  /\ \E content \in Contents : Edit(content)
  /\ UNCHANGED <<first, user, tab>>

PageNext == Request \/ Reload \/ EditFile

PageSpec == PageInit /\ [][PageNext]_pageVars /\ WF_pageVars(Reload)

-----------------------------------------------------------------------------
PageTypeOK ==
  /\ TypeOK
  /\ first \in BOOLEAN /\ user \in BOOLEAN
  /\ tab \in [Tabs ->
       [at : Kinds \cup {"idle"}, carries : BOOLEAN,
        reply : {"none", "failed", "set", "keep", "empty", "full", "slim",
                 "stored", "refused", "user"},
        listing : {"first", "shared", "poll"}, told : [read : BOOLEAN, edit : BOOLEAN]]]

(* "set flag for full tildder @ first fetch" (status): the first listing   *)
(* of a tab after a status is not a slim one, with any configuration and   *)
(* whatever is loaded, lost or logged out meanwhile, unless another tab's  *)
(* listing took the cookie that they share.                                *)
FirstListingIsFull ==
  \A t \in Tabs : tab[t].reply = "slim" => tab[t].listing # "first"

(* A tab that the status told it may read or edit is not turned away while *)
(* the handler and the user are the same, unless the section of the file   *)
(* for editing is missing: then a user is told so, and the PUT fails.      *)
StatusHolds ==
  \A t \in Tabs :
    /\ tab[t].told.read /\ tab[t].at = "list" => tab[t].reply \notin {"empty", "failed"}
    /\ tab[t].told.edit /\ tab[t].at = "put" =>
         /\ tab[t].reply # "refused"
         /\ tab[t].reply = "failed" => Panics("edit")

=============================================================================
