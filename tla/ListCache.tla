------------------------------ MODULE ListCache ------------------------------
(***************************************************************************)
(* The cache of the full tiddler listing (store/store.go: ListCacheState), *)
(* as List(ap, true) of both stores drives it (store_mem.go, the same code *)
(* in store_bitcask.go).  The flag and the cached value are atomics that   *)
(* live OUTSIDE the store's RWMutex: only the snapshot taken by list()     *)
(* holds the read lock.  Every goroutine inside List(ap, true) is a lister *)
(* that moves through the statements of the function one at a time.        *)
(*                                                                         *)
(* A store EXTENDS this module, passes its current listing to BuildList    *)
(* and calls FlagDirty where its code does.  The bytes of a listing are    *)
(* abstracted to what the store puts in it; the generated tiddlers (ap)    *)
(* appended to every reply are left out.                                   *)
(***************************************************************************)

CONSTANTS
  Listers,     \* goroutines inside List(ap, true)
  NoListing    \* nothing cached yet: the atomic.Value is empty

VARIABLES
  dirty,       \* ListCacheState.isDirty, 1 as TRUE
  cached,      \* ListCacheState.cached
  lister,      \* lister[g] = [at |-> next statement, got |-> local buffer]
  raced        \* history: the listing changed between the snapshot of the
               \* last lister to publish one and its reset of the flag

cacheVars == <<dirty, cached, lister, raced>>

Stages == {"idle", "build", "store", "clear", "serve"}

IdleLister == [at |-> "idle", got |-> NoListing]

CacheInit ==
  /\ dirty = FALSE
  /\ cached = NoListing
  /\ lister = [g \in Listers |-> IdleLister]
  /\ raced = FALSE

(* A snapshot has been taken and the flag is not reset yet.                *)
Publishing == \E g \in Listers : lister[g].at \in {"store", "clear"}

-----------------------------------------------------------------------------
(* Mutant of FlagDirty: the call is dropped.                               *)
KeepFlag == UNCHANGED dirty

(* FlagDirty, called by a store in the critical section of a mutation.     *)
FlagDirty == dirty' = TRUE

(* History kept by a store on every mutation that changes its listing.     *)
NoteChange == raced' = (raced \/ Publishing)

(* List(ap, true): IsDirty() is a compare-and-swap from 1 to 0; the winner *)
(* rebuilds the listing, everyone else goes on to the cached one.          *)
CallList(g) ==
  /\ lister[g].at = "idle"
  /\ lister' = [lister EXCEPT ![g] =
                  [at |-> IF dirty THEN "build" ELSE "serve", got |-> NoListing]]
  /\ dirty' = FALSE
  /\ UNCHANGED <<cached, raced>>

(* s.list(true): the snapshot, taken under the read lock of the store.  It *)
(* makes up for an earlier race, unless another lister still publishes.    *)
BuildList(g, listing) ==
  /\ lister[g].at = "build"
  /\ lister' = [lister EXCEPT ![g] = [at |-> "store", got |-> listing]]
  /\ raced' = (raced /\ Publishing)
  /\ UNCHANGED <<dirty, cached>>

(* Set(): first the value is stored ...                                    *)
StoreCached(g) ==
  /\ lister[g].at = "store"
  /\ cached' = lister[g].got
  /\ lister' = [lister EXCEPT ![g].at = "clear"]
  /\ UNCHANGED <<dirty, raced>>

(* ... then the flag is reset, whatever happened in between.               *)
ClearDirty(g) ==
  /\ lister[g].at = "clear"
  /\ dirty' = FALSE
  /\ lister' = [lister EXCEPT ![g].at = "serve"]
  /\ UNCHANGED <<cached, raced>>

(* Mutant of ServeList: no fallback when nothing is cached.                *)
ServeCached(g) ==
  /\ lister[g].at = "serve"
  /\ cached # NoListing
  /\ lister' = [lister EXCEPT ![g] = IdleLister]
  /\ UNCHANGED <<dirty, cached, raced>>

(* Build(ap): reply with the cached listing, or build one if there is none *)
(* (the fallback runs the same list() and Set() before it builds again).   *)
ServeList(g) ==
  /\ lister[g].at = "serve"
  /\ lister' = [lister EXCEPT ![g] =
                  IF cached = NoListing
                    THEN [at |-> "build", got |-> NoListing]
                    ELSE IdleLister]
  /\ UNCHANGED <<dirty, cached, raced>>

(* The statements after the call that need no lock.                        *)
ListStep(g) == StoreCached(g) \/ ClearDirty(g) \/ ServeList(g)

(* A new process starts with an empty cache and a clear flag.              *)
CacheRestart ==
  /\ dirty' = FALSE
  /\ cached' = NoListing
  /\ lister' = [g \in Listers |-> IdleLister]
  /\ raced' = FALSE

-----------------------------------------------------------------------------
CacheTypeOK(Listing) ==
  /\ dirty \in BOOLEAN
  /\ cached \in Listing \cup {NoListing}
  /\ lister \in [Listers -> [at : Stages, got : Listing \cup {NoListing}]]
  /\ raced \in BOOLEAN

(* Somebody is going to rebuild the listing: the flag is set, or a lister  *)
(* that has not yet taken its snapshot will take one, or nothing is cached *)
(* and the next reply falls back to building.                              *)
RebuildDue ==
  \/ dirty
  \/ cached = NoListing
  \/ \E g \in Listers : lister[g].at \in {"build", "store"}

=============================================================================
