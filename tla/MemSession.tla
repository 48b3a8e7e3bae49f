------------------------------ MODULE MemSession ------------------------------
(***************************************************************************)
(* The session store (session/session_mem.go, session/session.go) and the  *)
(* low precision clock it reads (utils/utils.go).  The map of sessions has *)
(* a RWMutex of its own and each session has another: whether a session    *)
(* has timed out is read under locks that are released before the session  *)
(* is renewed or deleted.  Every lock section is one step here; the        *)
(* requests that string them together are in WikiSession.                  *)
(***************************************************************************)
EXTENDS Naturals, FiniteSets

CONSTANTS
  Tokens,      \* session tokens: 144 random bits, never drawn twice
  TTL,         \* SESSION_TTL, in ticks of the clock
  MaxTime      \* bound on the clock

ASSUME SessionAssumption == TTL \in Nat /\ MaxTime \in Nat

VARIABLES
  now,         \* utils.Now()
  cookie,      \* ss.cookie: the tokens in the map
  ttl,         \* sd.ttl of the session of a token
  sweep,       \* the cleaner: [at |-> "wait" or "delete", rm |-> rmLst]
  used,        \* history: tokens drawn so far
  timedOut,    \* history: tokens found timed out by a request or the cleaner
  destroyed    \* history: tokens of the sessions that were logged out

sessVars == <<now, cookie, ttl, sweep, used, timedOut, destroyed>>

SessInit ==
  /\ now = 0
  /\ cookie = {}
  /\ ttl = [t \in Tokens |-> 0]
  /\ sweep = [at |-> "wait", rm |-> {}]
  /\ used = {} /\ timedOut = {} /\ destroyed = {}

(* SessionData.IsTimeout                                                   *)
IsTimeout(t) == now > ttl[t]

(* Mutants of Renew: it adds to the old time, or puts the session back.    *)
RenewAdds(t) ==
  /\ ttl' = [ttl EXCEPT ![t] = @ + TTL]
  /\ UNCHANGED <<now, cookie, sweep, used, timedOut, destroyed>>

RenewInserts(t) ==
  /\ ttl' = [ttl EXCEPT ![t] = now + TTL]
  /\ cookie' = cookie \cup {t}
  /\ UNCHANGED <<now, sweep, used, timedOut, destroyed>>

(* SessionData.Renew                                                       *)
Renew(t) ==
  /\ ttl' = [ttl EXCEPT ![t] = now + TTL]
  /\ UNCHANGED <<now, cookie, sweep, used, timedOut, destroyed>>

(* GetOrRenew: the token is in the map; has its session timed out?  The    *)
(* answer may be stale as soon as it is given.                             *)
CheckTimeout(t) ==
  /\ timedOut' = IF IsTimeout(t) THEN timedOut \cup {t} ELSE timedOut
  /\ UNCHANGED <<now, cookie, ttl, sweep, used, destroyed>>

(* GetOrRenew, timed out: delete the token.                                *)
Drop(t) ==
  /\ cookie' = cookie \ {t}
  /\ UNCHANGED <<now, ttl, sweep, used, timedOut, destroyed>>

(* Destroy                                                                 *)
Destroy(t) ==
  /\ cookie' = cookie \ {t}
  /\ destroyed' = destroyed \cup {t}
  /\ UNCHANGED <<now, ttl, sweep, used, timedOut>>

(* NewToken                                                                *)
NewToken(t) ==
  /\ t \notin used
  /\ cookie' = cookie \cup {t}
  /\ ttl' = [ttl EXCEPT ![t] = now + TTL]
  /\ used' = used \cup {t}
  /\ UNCHANGED <<now, sweep, timedOut, destroyed>>

(* clean, under RLock: list the sessions that have timed out ...           *)
Collect ==
  /\ sweep.at = "wait"
  /\ LET rm == {t \in cookie : IsTimeout(t)} IN
       /\ rm # {}
       /\ sweep' = [at |-> "delete", rm |-> rm]
       /\ timedOut' = timedOut \cup rm
  /\ UNCHANGED <<now, cookie, ttl, used, destroyed>>

(* Mutant of Sweep: the list is dropped and nothing deleted.               *)
SweepNothing ==
  /\ sweep.at = "delete"
  /\ sweep' = [at |-> "wait", rm |-> {}]
  /\ UNCHANGED <<now, cookie, ttl, used, timedOut, destroyed>>

(* ... and then, under Lock, delete those listed.                          *)
Sweep ==
  /\ sweep.at = "delete"
  /\ cookie' = cookie \ sweep.rm
  /\ sweep' = [at |-> "wait", rm |-> {}]
  /\ UNCHANGED <<now, ttl, used, timedOut, destroyed>>

Tick ==
  /\ now < MaxTime
  /\ now' = now + 1
  /\ UNCHANGED <<cookie, ttl, sweep, used, timedOut, destroyed>>

SessTypeOK ==
  /\ now \in 0 .. MaxTime
  /\ cookie \in SUBSET Tokens
  /\ ttl \in [Tokens -> 0 .. MaxTime + TTL]
  /\ sweep \in [at : {"wait", "delete"}, rm : SUBSET Tokens]
  /\ used \in SUBSET Tokens
  /\ timedOut \in SUBSET Tokens
  /\ destroyed \in SUBSET Tokens

=============================================================================
