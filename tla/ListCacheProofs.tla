--------------------------- MODULE ListCacheProofs ----------------------------
(***************************************************************************)
(* Lemmas about the listing cache, for any store: L is the set of listings *)
(* it can show, C the set of those that show its present contents.         *)
(***************************************************************************)
EXTENDS ListCache, TLAPS

ListerOf(L) == [at : Stages, got : L \cup {NoListing}]

(* An idle lister is a lister.                                             *)
LEMMA IdleType == ASSUME NEW L PROVE IdleLister \in ListerOf(L)
  BY DEF ListerOf, IdleLister, Stages

(* The cache of a new process is well-formed ...                           *)
LEMMA CacheInitType == ASSUME NEW L, CacheInit PROVE CacheTypeOK(L)
  BY IdleType DEF CacheInit, CacheTypeOK, ListerOf

LEMMA CacheRestartType == ASSUME NEW L, CacheRestart PROVE CacheTypeOK(L)'
  BY IdleType DEF CacheRestart, CacheTypeOK, ListerOf

(* ... a mutation of the store leaves it so ...                            *)
LEMMA CacheFlagType ==
  ASSUME NEW L, CacheTypeOK(L), FlagDirty, NoteChange, UNCHANGED <<cached, lister>>
  PROVE  CacheTypeOK(L)'
  BY DEF CacheTypeOK, FlagDirty, NoteChange, Publishing

LEMMA CacheSameType ==
  ASSUME NEW L, CacheTypeOK(L), UNCHANGED cacheVars
  PROVE  CacheTypeOK(L)'
  BY DEF CacheTypeOK, cacheVars

(* ... and so does every step of a lister.                                 *)
LEMMA CacheStepType ==
  ASSUME NEW L, CacheTypeOK(L), NEW g \in Listers, NEW l \in L,
         CallList(g) \/ BuildList(g, l) \/ ListStep(g)
  PROVE  CacheTypeOK(L)'
<1> DEFINE Lister == ListerOf(L)
<1>1. lister[g] \in Lister /\ lister[g].got \in L \cup {NoListing}
  BY DEF CacheTypeOK, ListerOf
<1>2. \E new \in Lister : lister' = [lister EXCEPT ![g] = new]
  <2>1. CASE CallList(g)
    <3>1. [at |-> IF dirty THEN "build" ELSE "serve", got |-> NoListing] \in Lister
      BY DEF Stages, ListerOf
    <3> QED BY <2>1, <3>1 DEF CallList
  <2>2. CASE BuildList(g, l)
    BY <2>2 DEF BuildList, Stages, ListerOf
  <2>3. CASE StoreCached(g)
    <3>1. [lister[g] EXCEPT !.at = "clear"] \in Lister
      BY <1>1 DEF Stages, ListerOf
    <3> QED BY <2>3, <3>1 DEF StoreCached
  <2>4. CASE ClearDirty(g)
    <3>1. [lister[g] EXCEPT !.at = "serve"] \in Lister
      BY <1>1 DEF Stages, ListerOf
    <3> QED BY <2>4, <3>1 DEF ClearDirty
  <2>5. CASE ServeList(g)
    BY <2>5, IdleType DEF ServeList, Stages, ListerOf
  <2> QED BY <2>1, <2>2, <2>3, <2>4, <2>5 DEF ListStep
<1>3. lister' \in [Listers -> Lister]
  BY <1>2 DEF CacheTypeOK, ListerOf
<1>4. dirty' \in BOOLEAN /\ raced' \in BOOLEAN /\ cached' \in L \cup {NoListing}
  BY <1>1 DEF CacheTypeOK, CallList, BuildList, ListStep, StoreCached, ClearDirty, ServeList
<1> QED BY <1>3, <1>4 DEF CacheTypeOK, ListerOf

-----------------------------------------------------------------------------
(* Freshness.  Unless a mutation raced with the lister that was the last   *)
(* to publish, the cached listing is a current one or due for a rebuild.   *)
(* Without a race, a lister between its snapshot and its reset of the flag *)
(* holds, or has published, a current listing.                             *)
FreshIn(C) ==
  /\ raced \/ RebuildDue \/ cached \in C
  /\ ~raced => \A g \in Listers :
       /\ lister[g].at = "store" => lister[g].got \in C
       /\ lister[g].at = "clear" => cached \in C

(* A new process has nothing cached.                                       *)
LEMMA FreshStart == ASSUME NEW C, CacheInit PROVE FreshIn(C)
  BY DEF CacheInit, FreshIn, RebuildDue, IdleLister

LEMMA FreshRestart == ASSUME NEW C, CacheRestart PROVE FreshIn(C)'
  BY DEF CacheRestart, FreshIn, RebuildDue, IdleLister

(* A mutation that is flagged and noted, whatever is current after it.     *)
LEMMA FreshFlagged ==
  ASSUME NEW C, FlagDirty, NoteChange, UNCHANGED <<cached, lister>>
  PROVE  FreshIn(C)'
  BY DEF FreshIn, RebuildDue, FlagDirty, NoteChange, Publishing

(* A step that changes neither the cache nor what is current.              *)
LEMMA FreshSame ==
  ASSUME NEW C, FreshIn(C), UNCHANGED cacheVars
  PROVE  FreshIn(C)'
  BY DEF FreshIn, RebuildDue, cacheVars

(* A step of a lister; a snapshot is a current listing.                    *)
LEMMA FreshListStep ==
  ASSUME NEW C, NEW L, CacheTypeOK(L), FreshIn(C), NEW g \in Listers, NEW l,
         CallList(g) \/ (l \in C /\ BuildList(g, l)) \/ ListStep(g)
  PROVE  FreshIn(C)'
<1> USE DEF FreshIn, RebuildDue
<1>1. lister \in [Listers -> ListerOf(L)]
  BY DEF CacheTypeOK, ListerOf
<1>2. CASE CallList(g)
  BY <1>1, <1>2 DEF CallList, ListerOf
<1>3. CASE l \in C /\ BuildList(g, l)
  BY <1>1, <1>3 DEF BuildList, Publishing, ListerOf
<1>4. CASE StoreCached(g)
  BY <1>1, <1>4 DEF StoreCached, ListerOf
<1>5. CASE ClearDirty(g)
  BY <1>1, <1>5 DEF ClearDirty, ListerOf
<1>6. CASE ServeList(g)
  BY <1>1, <1>6 DEF ServeList, IdleLister, ListerOf
<1> QED BY <1>2, <1>3, <1>4, <1>5, <1>6 DEF ListStep

=============================================================================
