---------------------------- MODULE PageLoadProofs -----------------------------
(***************************************************************************)
(* Theorems about loading the page, for every number of tabs, every file   *)
(* an administrator may write and every number of edits.                   *)
(***************************************************************************)
EXTENDS PageLoad, TLAPS

USE ConfigAssumption

TabStates ==
  [at : Kinds \cup {"idle"}, carries : BOOLEAN,
   reply : {"none", "failed", "set", "keep", "empty", "full", "slim",
            "stored", "refused", "user"},
   listing : {"first", "shared", "poll"}, told : [read : BOOLEAN, edit : BOOLEAN]]

(* The cookie of a tab whose first listing is yet to come: it is in the    *)
(* browser, on its way to it, or with the request for the listing.         *)
CookieOK(x) ==
  /\ x.at = "idle" => x.reply = "none"
  /\ x.reply \in {"set", "keep"} => x.at = "status"
  /\ x.reply = "keep" => x.carries
  /\ x.reply \in {"full", "slim"} => x.at = "list"
  /\ x.reply = "slim" => ~x.carries
  /\ x.reply = "user" => x.at = "login"
  /\ x.listing = "first" =>
       /\ x.at = "status" /\ x.carries => first
       /\ x.at = "list" => x.carries
       /\ x.at \in {"idle", "put", "login"} => first

(* What a tab was told is what the handler would tell the user now.        *)
ToldOK(x) ==
  /\ x.told.read => ~Panics("anonymous") /\ Permitted("anonymous")
  /\ x.told.edit => Permitted("edit")
  /\ x.told.read \/ x.told.edit => handler # NoHandler
  /\ x.told.read /\ x.at = "list" => x.reply \notin {"empty", "failed"}
  /\ x.told.edit /\ x.at = "put" =>
       /\ x.reply # "refused"
       /\ x.reply = "failed" => Panics("edit")

PageInv ==
  /\ PageTypeOK
  /\ \A t \in Tabs : CookieOK(tab[t]) /\ ToldOK(tab[t])

(* The watcher and the administrator keep their variables well-formed.     *)
LEMMA ConfigType ==
  TypeOK /\ (Watch \/ (\E content \in Contents : Edit(content)) \/ UNCHANGED vars) => TypeOK'
<1> SUFFICES ASSUME TypeOK, Watch \/ (\E content \in Contents : Edit(content)) \/ UNCHANGED vars
             PROVE  TypeOK'
  OBVIOUS
<1> USE DEF TypeOK
<1>1. CASE Watch
  BY <1>1 DEF Watch, Build, Baseline, PollGone, PollChanged, GoTo
<1>2. ASSUME NEW content \in Contents, Edit(content) PROVE TypeOK'
  BY <1>2 DEF Edit
<1>3. CASE UNCHANGED vars
  BY <1>3 DEF vars
<1> QED BY <1>1, <1>2, <1>3

(* A step of one tab that leaves the cookie, the user and the handler.     *)
LEMMA TabMoves ==
  ASSUME PageInv, NEW t \in Tabs, NEW x \in TabStates, tab' = [tab EXCEPT ![t] = x],
         UNCHANGED <<vars, first, user>>, CookieOK(x), ToldOK(x)
  PROVE  PageInv'
<1>1. PageTypeOK'
  BY ConfigType DEF PageInv, PageTypeOK, TabStates
<1>2. UNCHANGED handler
  BY DEF vars
<1>3. ASSUME NEW u \in Tabs PROVE CookieOK(tab[u])' /\ ToldOK(tab[u])'
  <2>1. CookieOK(tab'[u]) /\ ToldOK(tab'[u])
    BY DEF PageInv, PageTypeOK
  <2> QED BY <1>2, <2>1 DEF CookieOK, ToldOK, Panics, Permitted, Check
<1> QED BY <1>1, <1>3 DEF PageInv

(* What was told is forgotten when the handler or the user change.         *)
LEMMA Forgotten ==
  ASSUME NEW tabs \in [Tabs -> TabStates]
  PROVE  /\ Forget(tabs) \in [Tabs -> TabStates]
         /\ \A t \in Tabs :
              /\ CookieOK(tabs[t]) => CookieOK(Forget(tabs)[t])
              /\ ToldOK(Forget(tabs)[t])
<1>1. ASSUME NEW x \in TabStates
      PROVE  LET y == [x EXCEPT !.told = Untold]
             IN  /\ y \in TabStates /\ ~y.told.read /\ ~y.told.edit
                 /\ y.at = x.at /\ y.reply = x.reply /\ y.carries = x.carries
                 /\ y.listing = x.listing
  BY DEF TabStates, Untold
<1>2. Forget(tabs) \in [Tabs -> TabStates]
  BY <1>1 DEF Forget
<1>3. ASSUME NEW t \in Tabs
      PROVE  /\ CookieOK(tabs[t]) => CookieOK(Forget(tabs)[t])
             /\ ToldOK(Forget(tabs)[t])
  <2> DEFINE x == tabs[t]
             y == [x EXCEPT !.told = Untold]
  <2>1. x \in TabStates /\ Forget(tabs)[t] = y
    BY DEF Forget
  <2>2. /\ ~y.told.read /\ ~y.told.edit /\ y.at = x.at /\ y.reply = x.reply
        /\ y.carries = x.carries /\ y.listing = x.listing
    BY <1>1, <2>1
  <2> HIDE DEF x, y
  <2>3. CookieOK(x) => CookieOK(y)
    BY <2>2 DEF CookieOK
  <2>4. ToldOK(y)
    BY <2>2 DEF ToldOK
  <2> QED BY <2>1, <2>3, <2>4 DEF x
<1> QED BY <1>2, <1>3

(* Every step of a tab.                                                    *)
LEMMA RequestStep == PageInv /\ Request => PageInv'
<1> SUFFICES ASSUME PageInv, Request PROVE PageInv'
  OBVIOUS
<1>0. /\ tab \in [Tabs -> TabStates] /\ first \in BOOLEAN /\ user \in BOOLEAN
      /\ UNCHANGED vars /\ handler' = handler /\ TypeOK /\ TypeOK'
      /\ \A t \in Tabs : tab[t] \in TabStates /\ CookieOK(tab[t]) /\ ToldOK(tab[t])
  BY ConfigType DEF PageInv, PageTypeOK, TabStates, Request, vars
<1>1. ASSUME NEW t \in Tabs, NEW kind \in Kinds, Send(t, kind)
      PROVE  PageInv'
  <2> DEFINE x == tab[t]
             y == [x EXCEPT !.at = kind, !.carries = first,
                            !.listing = IF kind = "status" THEN "first" ELSE @,
                            !.told = IF kind = "status" THEN Untold ELSE @]
  <2>1. tab' = [tab EXCEPT ![t] = y] /\ UNCHANGED <<first, user>> /\ x.at = "idle"
    BY <1>1 DEF Send
  <2>2. /\ y \in TabStates /\ y.at = kind /\ y.carries = first /\ y.reply = x.reply
        /\ y.listing = IF kind = "status" THEN "first" ELSE x.listing
        /\ y.told = IF kind = "status" THEN Untold ELSE x.told
    BY <1>0 DEF TabStates, Kinds, Untold
  <2>3. CookieOK(x) /\ ToldOK(x)
    BY <1>0
  <2> HIDE DEF x, y
  <2>4. CookieOK(y)
    BY <2>1, <2>2, <2>3 DEF CookieOK, Kinds
  <2>5. ToldOK(y)
    BY <2>1, <2>2, <2>3 DEF ToldOK, CookieOK, Untold
  <2> QED BY <1>0, <2>1, <2>2, <2>4, <2>5, TabMoves
<1>2. ASSUME NEW t \in Tabs, NEW reply, Answer(t, reply), tab[t].reply = "none",
             \/ reply = "failed" /\ handler = NoHandler
             \/ reply = "failed" /\ tab[t].at = "status"
             \/ /\ tab[t].at = "list" /\ Panics("anonymous") /\ reply = "failed"
             \/ /\ tab[t].at = "list" /\ ~Permitted("anonymous") /\ reply = "empty"
             \/ tab[t].at = "list" /\ reply = IF tab[t].carries THEN "full" ELSE "slim"
             \/ tab[t].at = "put" /\ Panics("edit") /\ reply = "failed"
             \/ tab[t].at = "put" /\ Permitted("edit") /\ reply = "stored"
             \/ tab[t].at = "put" /\ ~Permitted("edit") /\ reply = "refused"
             \/ tab[t].at = "login" /\ reply \in {"user", "failed", "refused"},
             tab[t].at # "idle"
      PROVE  PageInv'
  <2> DEFINE x == tab[t]
             y == [x EXCEPT !.reply = reply]
  <2>1. tab' = [tab EXCEPT ![t] = y] /\ UNCHANGED <<first, user>>
    BY <1>2 DEF Answer
  <2>2. /\ y \in TabStates /\ y.at = x.at /\ y.carries = x.carries /\ y.reply = reply
        /\ y.listing = x.listing /\ y.told = x.told
    BY <1>0, <1>2 DEF TabStates
  <2>3. CookieOK(x) /\ ToldOK(x)
    BY <1>0
  <2> HIDE DEF x, y
  <2>4. CookieOK(y)
    BY <1>2, <2>2, <2>3 DEF CookieOK, x
  <2>5. ToldOK(y)
    BY <1>2, <2>2, <2>3 DEF ToldOK, x
  <2> QED BY <1>0, <2>1, <2>2, <2>4, <2>5, TabMoves
<1>3. ASSUME NEW t \in Tabs, Status(t)
      PROVE  PageInv'
  <2>1. CASE Panics("anonymous") \/ (~user /\ Permitted("anonymous") /\ Panics("edit"))
    BY <1>2, <1>3, <2>1 DEF Status, Arrives
  <2>2. CASE ~(Panics("anonymous") \/ (~user /\ Permitted("anonymous") /\ Panics("edit")))
    <3> DEFINE x == tab[t]
               told == IF ~Permitted("anonymous") THEN Untold
                       ELSE [read |-> TRUE, edit |-> MayEdit]
               y == [x EXCEPT !.reply = IF SetsFirst(t) THEN "set" ELSE "keep",
                              !.told = told]
    <3>1. /\ tab' = [tab EXCEPT ![t] = y] /\ UNCHANGED <<first, user>>
          /\ x.at = "status" /\ handler # NoHandler
      BY <1>3, <2>2 DEF Status, Arrives
    <3>2. MayEdit \in BOOLEAN
      BY DEF MayEdit, Permitted
    <3>3. /\ told \in [read : BOOLEAN, edit : BOOLEAN]
          /\ told.read => Permitted("anonymous")
          /\ told.edit => Permitted("edit")
      BY <3>2 DEF Untold, MayEdit
    <3> HIDE DEF told
    <3>4. /\ y \in TabStates /\ y.at = x.at /\ y.carries = x.carries
          /\ y.reply = IF x.carries THEN "keep" ELSE "set"
          /\ y.listing = x.listing /\ y.told = told
      BY <1>0, <3>3 DEF TabStates, SetsFirst
    <3>5. CookieOK(x)
      BY <1>0
    <3> HIDE DEF x, y
    <3>6. CookieOK(y)
      BY <3>1, <3>4, <3>5 DEF CookieOK
    <3>7. ToldOK(y)
      BY <2>2, <3>1, <3>3, <3>4 DEF ToldOK
    <3> QED BY <1>0, <3>1, <3>4, <3>6, <3>7, TabMoves
  <2> QED BY <2>1, <2>2
<1>4. ASSUME NEW t \in Tabs, NotReady(t) PROVE PageInv'
  BY <1>2, <1>4 DEF NotReady
<1>5. ASSUME NEW t \in Tabs, List(t) PROVE PageInv'
  BY <1>2, <1>5 DEF List, Arrives
<1>6. ASSUME NEW t \in Tabs, Put(t) PROVE PageInv'
  BY <1>2, <1>6 DEF Put, Arrives
<1>7. ASSUME NEW t \in Tabs, Login(t) PROVE PageInv'
  BY <1>2, <1>7 DEF Login, Arrives
<1>d. ASSUME NEW t \in Tabs
      PROVE  /\ Done(t) \in TabStates /\ Done(t).at = "idle" /\ Done(t).reply = "none"
             /\ Done(t).told = tab[t].told
             /\ Done(t).listing = IF \/ tab[t].at = "list"
                                     \/ tab[t].at = "status" /\ tab[t].reply \notin {"set", "keep"}
                                  THEN "poll" ELSE tab[t].listing
  BY <1>0 DEF Done, TabStates
<1>e. ASSUME NEW t \in Tabs PROVE ToldOK(Done(t))
  BY <1>0, <1>d DEF ToldOK
<1>8. ASSUME NEW t \in Tabs, Deliver(t)
      PROVE  PageInv'
  <2>0. /\ tab[t].reply \notin {"none", "failed"}
        /\ first' = IF tab[t].reply = "set" THEN TRUE
                    ELSE IF tab[t].reply = "full" THEN FALSE ELSE first
        /\ user' = (user \/ tab[t].reply = "user")
    BY <1>8 DEF Deliver
  <2>a. first' \in BOOLEAN /\ user' \in BOOLEAN
    BY <1>0, <2>0
  <2>1. CASE tab[t].reply = "full"
    <3>1. tab' = Shared(t) /\ first' = FALSE /\ user' = user
      BY <1>0, <1>8, <2>0, <2>1 DEF Deliver
    <3>2. ASSUME NEW u \in Tabs
          PROVE  tab'[u] \in TabStates /\ CookieOK(tab[u])' /\ ToldOK(tab[u])'
      <4>1. CASE u = t
        <5>1. tab'[u] = Done(t)
          BY <3>1, <4>1 DEF Shared
        <5>2. tab[t].at = "list"
          BY <1>0, <2>1 DEF CookieOK
        <5>3. CookieOK(tab[u])'
          BY <1>d, <5>1, <5>2 DEF CookieOK
        <5> QED BY <1>0, <1>d, <1>e, <3>1, <5>1, <5>3
                DEF ToldOK, Panics, Permitted, Check
      <4>2. CASE u # t /\ tab[u].listing = "first" /\ tab[u].at # "list"
        <5>1. tab'[u] = [tab[u] EXCEPT !.listing = "shared"]
          BY <3>1, <4>2 DEF Shared
        <5>2. /\ tab'[u] \in TabStates /\ tab'[u].at = tab[u].at
              /\ tab'[u].reply = tab[u].reply /\ tab'[u].carries = tab[u].carries
              /\ tab'[u].told = tab[u].told /\ tab'[u].listing = "shared"
          BY <1>0, <5>1 DEF TabStates
        <5>3. CookieOK(tab[u])'
          BY <1>0, <5>2 DEF CookieOK
        <5>4. ToldOK(tab[u])'
          BY <1>0, <3>1, <5>2 DEF ToldOK, Panics, Permitted, Check
        <5> QED BY <5>2, <5>3, <5>4
      <4>3. CASE u # t /\ ~(tab[u].listing = "first" /\ tab[u].at # "list")
        <5>1. tab'[u] = tab[u]
          BY <3>1, <4>3 DEF Shared
        <5>2. CookieOK(tab[u])'
          BY <1>0, <4>3, <5>1 DEF CookieOK
        <5>3. ToldOK(tab[u])'
          BY <1>0, <3>1, <5>1 DEF ToldOK, Panics, Permitted, Check
        <5> QED BY <1>0, <5>1, <5>2, <5>3
      <4> QED BY <4>1, <4>2, <4>3
    <3>3. tab' \in [Tabs -> TabStates]
      BY <3>1, <3>2 DEF Shared
    <3> QED BY <1>0, <2>a, <3>2, <3>3 DEF PageInv, PageTypeOK, TabStates
  <2> DEFINE tabs == [tab EXCEPT ![t] = Done(t)]
  <2>2. /\ tabs \in [Tabs -> TabStates]
        /\ \A u \in Tabs : tabs[u] = IF u = t THEN Done(t) ELSE tab[u]
    BY <1>0, <1>d
  <2>c. ASSUME tab[t].reply # "full"
        PROVE  \A u \in Tabs : tabs[u].listing = "first" =>
                 /\ tabs[u].at = "status" /\ tabs[u].carries => first'
                 /\ tabs[u].at = "list" => tabs[u].carries
                 /\ tabs[u].at \in {"idle", "put", "login"} => first'
    <3>1. first => first'
      BY <2>0, <2>c
    <3>2. Done(t).listing = "first" => first'
      <4> SUFFICES ASSUME Done(t).listing = "first" PROVE first'
        OBVIOUS
      <4>1. tab[t].listing = "first" /\ tab[t].at # "list"
        BY <1>d
      <4>2. CASE tab[t].at = "status"
        BY <1>0, <1>d, <2>0, <2>c, <4>1, <4>2 DEF CookieOK
      <4>3. CASE tab[t].at # "status"
        <5>1. tab[t].at \in {"idle", "put", "login"}
          BY <1>0, <4>1, <4>3 DEF TabStates, Kinds
        <5> QED BY <1>0, <3>1, <4>1, <5>1 DEF CookieOK
      <4> QED BY <4>2, <4>3
    <3>3. ASSUME NEW u \in Tabs, tab[u].listing = "first"
          PROVE  /\ tab[u].at = "status" /\ tab[u].carries => first'
                 /\ tab[u].at = "list" => tab[u].carries
                 /\ tab[u].at \in {"idle", "put", "login"} => first'
      BY <1>0, <3>1, <3>3 DEF CookieOK
    <3> HIDE DEF tabs
    <3> QED BY <1>d, <2>2, <3>2, <3>3
  <2>d. ASSUME NEW u \in Tabs, tab[t].reply # "full", tab'[u] = tabs[u]
        PROVE  CookieOK(tab[u])'
    <3>1. CASE u = t
      <4>1. tab'[u].at = "idle" /\ tab'[u].reply = "none"
        BY <1>d, <2>2, <2>d, <3>1
      <4> HIDE DEF tabs
      <4> QED BY <2>c, <2>d, <4>1 DEF CookieOK
    <3>2. CASE u # t
      <4>1. tab'[u] = tab[u]
        BY <2>2, <2>d, <3>2
      <4> HIDE DEF tabs
      <4> QED BY <1>0, <2>c, <2>d, <4>1 DEF CookieOK
    <3> QED BY <3>1, <3>2
  <2>3. CASE tab[t].reply = "user" /\ ~user
    <3>1. tab' = Forget(tabs) /\ first' = first /\ user' = TRUE
      BY <1>8, <2>0, <2>3 DEF Deliver
    <3>2. \A u \in Tabs : CookieOK(tabs[u])
      <4>1. CookieOK(Done(t))
        BY <1>0, <1>d, <2>3 DEF CookieOK
      <4> HIDE DEF tabs
      <4> QED BY <1>0, <2>2, <4>1
    <3> HIDE DEF tabs
    <3>3. tab' \in [Tabs -> TabStates]
      BY <2>2, <3>1, Forgotten
    <3>4. ASSUME NEW u \in Tabs PROVE CookieOK(tab[u])' /\ ToldOK(tab[u])'
      <4>1. CookieOK(tab'[u])
        BY <2>2, <3>1, <3>2, Forgotten
      <4>2. ~tab'[u].told.read /\ ~tab'[u].told.edit
        BY <2>2, <3>1 DEF Forget, Untold, TabStates
      <4> QED BY <3>1, <4>1, <4>2 DEF CookieOK, ToldOK
    <3> QED BY <1>0, <2>a, <3>3, <3>4 DEF PageInv, PageTypeOK, TabStates
  <2>4. CASE tab[t].reply # "full" /\ ~(tab[t].reply = "user" /\ ~user)
    <3>1. tab' = tabs /\ user' = user
      BY <1>0, <1>8, <2>0, <2>4 DEF Deliver
    <3> HIDE DEF tabs
    <3>2. ASSUME NEW u \in Tabs PROVE CookieOK(tab[u])' /\ ToldOK(tab[u])'
      <4>1. CookieOK(tab[u])'
        BY <2>d, <2>4, <3>1
      <4>2. ToldOK(tab'[u])
        BY <1>0, <1>e, <2>2, <3>1
      <4> QED BY <1>0, <3>1, <4>1, <4>2 DEF ToldOK, Panics, Permitted, Check
    <3> QED BY <1>0, <2>a, <2>2, <3>1, <3>2 DEF PageInv, PageTypeOK, TabStates
  <2> QED BY <2>1, <2>3, <2>4
<1>9. ASSUME NEW t \in Tabs, Lose(t)
      PROVE  PageInv'
  <2> DEFINE x == tab[t]
             y == [Done(t) EXCEPT !.listing = IF x.at = "status" THEN "poll" ELSE @,
                                  !.told = IF x.at = "status" THEN Untold ELSE @]
  <2>1. tab' = [tab EXCEPT ![t] = y] /\ UNCHANGED <<first, user>>
    BY <1>9 DEF Lose
  <2>2. /\ y \in TabStates /\ y.at = "idle" /\ y.reply = "none"
        /\ y.listing = IF x.at = "status" THEN "poll" ELSE Done(t).listing
        /\ y.told = IF x.at = "status" THEN Untold ELSE x.told
    BY <1>d DEF TabStates, Untold
  <2>3. CookieOK(x) /\ ToldOK(x) /\ x.at \in Kinds \cup {"idle"}
    BY <1>0 DEF TabStates
  <2>4. y.listing = "first" => x.listing = "first" /\ x.at \notin {"list", "status"}
    BY <1>d, <2>2
  <2> HIDE DEF x, y
  <2>5. CookieOK(y)
    BY <2>2, <2>3, <2>4 DEF CookieOK, Kinds
  <2>6. ToldOK(y)
    BY <2>2, <2>3 DEF ToldOK, Untold
  <2> QED BY <1>0, <2>1, <2>2, <2>5, <2>6, TabMoves
<1>10. ASSUME Expire
       PROVE  PageInv'
  <2>1. tab' = Forget(tab) /\ first' = first /\ user' = FALSE
    BY <1>10 DEF Expire
  <2>2. tab' \in [Tabs -> TabStates]
    BY <1>0, <2>1, Forgotten
  <2>3. ASSUME NEW t \in Tabs PROVE CookieOK(tab[t])' /\ ToldOK(tab[t])'
    <3>1. CookieOK(tab'[t])
      BY <1>0, <2>1, Forgotten
    <3>2. ~tab'[t].told.read /\ ~tab'[t].told.edit
      BY <1>0, <2>1 DEF Forget, Untold, TabStates
    <3> QED BY <2>1, <3>1, <3>2 DEF CookieOK, ToldOK
  <2> QED BY <1>0, <2>1, <2>2, <2>3 DEF PageInv, PageTypeOK, TabStates
<1> QED
  BY <1>1, <1>3, <1>4, <1>5, <1>6, <1>7, <1>8, <1>9, <1>10 DEF Request

(* Every step of the watcher: the tabs forget what another handler told.   *)
LEMMA ReloadStep == PageInv /\ Reload => PageInv'
<1> SUFFICES ASSUME PageInv, Reload PROVE PageInv'
  OBVIOUS
<1>0. /\ tab \in [Tabs -> TabStates] /\ first' = first /\ user' = user
      /\ first \in BOOLEAN /\ user \in BOOLEAN /\ TypeOK'
      /\ \A t \in Tabs : tab[t] \in TabStates /\ CookieOK(tab[t]) /\ ToldOK(tab[t])
  BY ConfigType DEF PageInv, PageTypeOK, TabStates, Reload
<1>1. CASE handler' = handler
  <2>1. tab' = tab
    BY <1>1 DEF Reload
  <2>2. ASSUME NEW t \in Tabs PROVE CookieOK(tab[t])' /\ ToldOK(tab[t])'
    <3>1. tab'[t] = tab[t]
      BY <2>1
    <3> QED BY <1>0, <1>1, <3>1 DEF CookieOK, ToldOK, Panics, Permitted, Check
  <2> QED BY <1>0, <2>1, <2>2 DEF PageInv, PageTypeOK, TabStates
<1>2. CASE handler' # handler
  <2>1. tab' = Forget(tab)
    BY <1>2 DEF Reload
  <2>2. tab' \in [Tabs -> TabStates]
    BY <1>0, <2>1, Forgotten
  <2>3. ASSUME NEW t \in Tabs PROVE CookieOK(tab[t])' /\ ToldOK(tab[t])'
    <3>1. CookieOK(tab'[t])
      BY <1>0, <2>1, Forgotten
    <3>2. ~tab'[t].told.read /\ ~tab'[t].told.edit
      BY <1>0, <2>1 DEF Forget, Untold, TabStates
    <3> QED BY <1>0, <3>1, <3>2 DEF CookieOK, ToldOK
  <2> QED BY <1>0, <2>2, <2>3 DEF PageInv, PageTypeOK, TabStates
<1> QED BY <1>1, <1>2

(* Every step of an administrator, and a step that changes nothing.        *)
LEMMA OtherStep == PageInv /\ (EditFile \/ UNCHANGED pageVars) => PageInv'
<1> SUFFICES ASSUME PageInv, EditFile \/ UNCHANGED pageVars PROVE PageInv'
  OBVIOUS
<1>1. TypeOK' /\ first' = first /\ user' = user /\ tab' = tab /\ handler' = handler
  BY ConfigType DEF PageInv, PageTypeOK, EditFile, Edit, pageVars, vars
<1>2. ASSUME NEW t \in Tabs PROVE CookieOK(tab[t])' /\ ToldOK(tab[t])'
  <2>1. tab'[t] = tab[t] /\ CookieOK(tab[t]) /\ ToldOK(tab[t])
    BY <1>1 DEF PageInv
  <2> QED BY <1>1, <2>1 DEF CookieOK, ToldOK, Panics, Permitted, Check
<1> QED BY <1>1, <1>2 DEF PageInv, PageTypeOK

-----------------------------------------------------------------------------
LEMMA PageStart == PageInit => PageInv
<1> SUFFICES ASSUME PageInit PROVE PageInv
  OBVIOUS
<1>1. TypeOK
  BY DEF PageInit, Init, TypeOK
<1>2. NewTab \in TabStates
  BY DEF NewTab, TabStates, Untold
<1>3. CookieOK(NewTab) /\ ToldOK(NewTab)
  BY DEF NewTab, CookieOK, ToldOK, Untold
<1> QED BY <1>1, <1>2, <1>3 DEF PageInit, PageInv, PageTypeOK, TabStates

(* The inductive invariant holds in every state of the page and its server. *)
THEOREM PageAlways == PageSpec => []PageInv
<1>1. PageInv /\ [PageNext]_pageVars => PageInv'
  BY RequestStep, ReloadStep, OtherStep DEF PageNext
<1> QED BY <1>1, PageStart, PTL DEF PageSpec

(* The tabs, the cookie and the state of the watcher are always            *)
(* well-formed.                                                            *)
THEOREM PageTypeCorrect == PageSpec => []PageTypeOK
<1>1. PageInv => PageTypeOK
  BY DEF PageInv
<1> QED BY <1>1, PageAlways, PTL

(* The listing that follows a status (setFirstLoad, checkAndResetFirstLoad) *)
(* is a full one unless another tab's listing took the cookie.             *)
THEOREM FirstListingFull == PageSpec => []FirstListingIsFull
<1>1. PageInv => FirstListingIsFull
  BY DEF PageInv, CookieOK, FirstListingIsFull
<1> QED BY <1>1, PageAlways, PTL

(* What the status told is what checkAuth and checkAuthEdit do then.       *)
THEOREM StatusIsKept == PageSpec => []StatusHolds
<1>1. PageInv => StatusHolds
  BY DEF PageInv, ToldOK, StatusHolds
<1> QED BY <1>1, PageAlways, PTL

=============================================================================
