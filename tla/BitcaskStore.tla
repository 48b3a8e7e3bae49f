----------------------------- MODULE BitcaskStore -----------------------------
(***************************************************************************)
(* The bitcask store (store/store_bitcask.go).  Tiddlers and the reference *)
(* counts of attachments live in two separate databases on disk.  Put, Del *)
(* and AttachAttachment run under s.mx.Lock, list and Get under RLock, so  *)
(* the critical sections are serialised; but one section writes both       *)
(* databases one after the other, either write may fail, and the process   *)
(* may be killed between the two.  Each section is therefore one step per  *)
(* database write.  `cs` is the section in progress.                       *)
(*                                                                         *)
(* External: the bitcask library.  A Put or Delete of it is atomic and     *)
(* survives a crash of the process, or fails and changes nothing.  A Get   *)
(* of it does not fail for a key that is there, and what it returns can be *)
(* decoded.  (The store takes such a failure for a key that is not there.) *)
(***************************************************************************)
EXTENDS Tiddlers, ListCache, Integers, FiniteSets

CONSTANTS
  NoKey,
  MaxRev,          \* bound on the revisions of a title
  MaxRef,          \* bound on the size of a reference count
  Faults           \* may writes fail, may the process be killed?

ASSUME BitcaskAssumption ==
  /\ Faults \in BOOLEAN
  /\ IsFiniteSet(Keys)
  /\ MaxRev \in Nat
  /\ MaxRef \in Nat
  /\ NoKey \notin Keys

VARIABLES
  db,          \* title -> tiddler or Absent         (s.db, on disk)
  fileRef,     \* attachment -> count, 0 if no entry (s.fileRef, on disk)
  cs,          \* the critical section in progress
  handed,      \* the attachment the last Del handed back, or NoFile
  owned,       \* history: attachments a title was bound to since created
  leaked,      \* history: attachments whose count has been left too high
  uncounted    \* history: attachments that a Put has bound to an existing
               \* title, or whose count it could not write

storeVars == <<db, fileRef, cs, handed, owned, leaked, uncounted>>
vars == <<storeVars, cacheVars>>

(* cs.credit is an attachment whose count is one ahead of the tiddlers:    *)
(* counted already and not stored yet, or deleted and not discounted yet.  *)
Free == [at |-> "free", key |-> NoKey, td |-> Absent, credit |-> NoFile]

Named(file) == {file} \ {NoFile}

(* History: the reference of a title to a file has gone, its count stays.  *)
Leak(file) == leaked' = leaked \cup Named(file)

Init ==
  /\ CacheInit
  /\ db = [k \in Keys |-> Absent]
  /\ fileRef = [f \in Files |-> 0]
  /\ cs = Free
  /\ handed = NoFile
  /\ owned = [k \in Keys |-> {}]
  /\ leaked = {}
  /\ uncounted = {}

-----------------------------------------------------------------------------
(* Mutant of PutBegin: the attachment is not counted.                      *)
PutUncounted(k, text, file) ==
  /\ cs = Free
  /\ db[k] # Absent => db[k].rev < MaxRev
  /\ cs' = [at |-> "putStore", key |-> k,
            td |-> Updated(db[k], text, file), credit |-> NoFile]
  /\ handed' = NoFile
  /\ UNCHANGED <<db, fileRef, owned, leaked, uncounted, cacheVars>>

(* Mutant of PutBegin: every PUT counts the attachment it names.           *)
PutRecounts(k, text, file) ==
  /\ cs = Free
  /\ db[k] # Absent => db[k].rev < MaxRev
  /\ file # NoFile => fileRef[file] < MaxRef
  /\ cs' = [at |-> IF file # NoFile THEN "putRef" ELSE "putStore",
            key |-> k, td |-> Updated(db[k], text, file), credit |-> NoFile]
  /\ handed' = NoFile
  /\ UNCHANGED <<db, fileRef, owned, leaked, uncounted, cacheVars>>

(* Put: lock, read the old tiddler, compute the new one.  Only a new       *)
(* tiddler counts its attachment (ref = 1).                                *)
PutBegin(k, text, file) ==
  /\ cs = Free
  /\ db[k] # Absent => db[k].rev < MaxRev
  /\ db[k] = Absent /\ file # NoFile => fileRef[file] < MaxRef
  /\ cs' = [at |-> IF db[k] = Absent /\ file # NoFile THEN "putRef" ELSE "putStore",
            key |-> k, td |-> Updated(db[k], text, file), credit |-> NoFile]
  /\ handed' = NoFile
  /\ UNCHANGED <<db, fileRef, owned, leaked, uncounted, cacheVars>>

(* Put: attachRef(filePath, 1); its error is ignored.                      *)
PutRef ==
  /\ cs.at = "putRef"
  /\ \/ /\ fileRef' = [fileRef EXCEPT ![cs.td.file] = @ + 1]
        /\ cs' = [cs EXCEPT !.at = "putStore", !.credit = cs.td.file]
        /\ UNCHANGED uncounted
     \/ /\ Faults
        /\ cs' = [cs EXCEPT !.at = "putStore"]
        /\ uncounted' = uncounted \cup {cs.td.file}
        /\ UNCHANGED fileRef
  /\ UNCHANGED <<db, handed, owned, leaked, cacheVars>>

(* Put: write back and flag the listing, or return without either.  The    *)
(* caller gets the same revision and hash in both cases.                   *)
PutStore ==
  /\ cs.at = "putStore"
  /\ \/ /\ db' = [db EXCEPT ![cs.key] = cs.td]
        /\ owned' = [owned EXCEPT ![cs.key] = @ \cup Named(cs.td.file)]
        /\ IF FileOf(db[cs.key]) = cs.td.file THEN UNCHANGED leaked
                                              ELSE Leak(FileOf(db[cs.key]))
        /\ uncounted' = IF db[cs.key] = Absent THEN uncounted
                        ELSE uncounted \cup (Named(cs.td.file) \ owned[cs.key])
        /\ FlagDirty
        /\ NoteChange
     \/ /\ Faults
        /\ Leak(cs.credit)
        /\ UNCHANGED <<db, owned, uncounted, dirty, raced>>
  /\ cs' = Free
  /\ UNCHANGED <<fileRef, handed, cached, lister>>

(* Mutant of DelStore: the attachment is not discounted.                   *)
DelUncounted(k) ==
  /\ cs = Free
  /\ db[k] # Absent
  /\ db' = [db EXCEPT ![k] = Absent]
  /\ owned' = [owned EXCEPT ![k] = {}]
  /\ FlagDirty
  /\ NoteChange
  /\ handed' = NoFile
  /\ UNCHANGED <<fileRef, cs, leaked, uncounted, cached, lister>>

(* Del: lock, delete the tiddler, flag the listing; done if no attachment. *)
DelStore(k) ==
  /\ cs = Free
  /\ db[k] # Absent
  /\ db[k].file # NoFile => fileRef[db[k].file] > -MaxRef
  /\ db' = [db EXCEPT ![k] = Absent]
  /\ owned' = [owned EXCEPT ![k] = {}]
  /\ FlagDirty
  /\ NoteChange
  /\ cs' = IF db[k].file = NoFile THEN Free
           ELSE [Free EXCEPT !.at = "delRef", !.credit = db[k].file]
  /\ handed' = NoFile
  /\ UNCHANGED <<fileRef, leaked, uncounted, cached, lister>>

(* Mutant of DelRef: the file is handed back whatever its count.           *)
DelHandsBack ==
  /\ cs.at = "delRef"
  /\ fileRef' = [fileRef EXCEPT ![cs.credit] = @ - 1]
  /\ handed' = cs.credit
  /\ cs' = Free
  /\ UNCHANGED <<db, owned, leaked, uncounted, cacheVars>>

(* Del: attachRef(td.File, -1), and hand the file back if that leaves 0    *)
(* (the entry is deleted, which reads as 0 again).  A failed write counts  *)
(* as -1: nothing is handed back.                                          *)
DelRef ==
  /\ cs.at = "delRef"
  /\ \/ /\ fileRef' = [fileRef EXCEPT ![cs.credit] = @ - 1]
        /\ handed' = IF fileRef[cs.credit] - 1 = 0 THEN cs.credit ELSE NoFile
        /\ UNCHANGED leaked
     \/ /\ Faults
        /\ Leak(cs.credit)
        /\ UNCHANGED <<fileRef, handed>>
  /\ cs' = Free
  /\ UNCHANGED <<db, owned, uncounted, cacheVars>>

(* The name of an uploaded file is new: time of day and 96 random bits.    *)
Unused(file) ==
  /\ fileRef[file] = 0
  /\ \A k \in Keys : file \notin owned[k]
  /\ file \notin uncounted

(* AttachAttachment, called by upload for a tiddler it has just put: count *)
(* the file first ...  (A failed write returns false, nothing changed.)    *)
AttachRef(k, file) ==
  /\ cs = Free
  /\ db[k] # Absent
  /\ Unused(file)
  /\ fileRef' = [fileRef EXCEPT ![file] = @ + 1]
  /\ cs' = [at |-> "attachStore", key |-> k,
            td |-> [db[k] EXCEPT !.file = file], credit |-> file]
  /\ handed' = NoFile
  /\ UNCHANGED <<db, owned, leaked, uncounted, cacheVars>>

(* ... then write the tiddler back.  The listing does not show the file.   *)
AttachStore ==
  /\ cs.at = "attachStore"
  /\ \/ /\ db' = [db EXCEPT ![cs.key] = cs.td]
        /\ owned' = [owned EXCEPT ![cs.key] = @ \cup {cs.td.file}]
        /\ Leak(db[cs.key].file)
     \/ /\ Faults
        /\ Leak(cs.credit)
        /\ UNCHANGED <<db, owned>>
  /\ cs' = Free
  /\ UNCHANGED <<fileRef, handed, uncounted, cacheVars>>

(* List: the snapshot needs the read lock.                                 *)
Snapshot(g) ==
  /\ cs = Free
  /\ BuildList(g, Listing(db))
  /\ UNCHANGED storeVars

RequestList(g) ==
  /\ CallList(g)
  /\ UNCHANGED storeVars

AnswerList(g) ==
  /\ ListStep(g)
  /\ UNCHANGED storeVars

(* The process is killed, or shut down once its requests are done, and     *)
(* NewBitcaskStore opens both databases again: the lock, the listers and   *)
(* the cache are gone.                                                     *)
Restart ==
  /\ Faults \/ (cs = Free /\ \A g \in Listers : lister[g].at = "idle")
  /\ cs' = Free
  /\ handed' = NoFile
  /\ Leak(cs.credit)
  /\ CacheRestart
  /\ UNCHANGED <<db, fileRef, owned, uncounted>>

Next ==
  \/ \E k \in Keys, text \in Texts \cup {Skinny}, file \in Files \cup {NoFile} :
       PutBegin(k, text, file)
  \/ PutRef
  \/ PutStore
  \/ \E k \in Keys : DelStore(k)
  \/ DelRef
  \/ \E k \in Keys, file \in Files : AttachRef(k, file)
  \/ AttachStore
  \/ \E g \in Listers : RequestList(g) \/ Snapshot(g) \/ AnswerList(g)
  \/ Restart

Spec == Init /\ [][Next]_vars

(* Go's RWMutex keeps no reader waiting behind an endless row of writers,  *)
(* a section that holds the lock runs on, and so does a lister without it. *)
FairSpec ==
  /\ Spec
  /\ WF_vars(PutRef \/ PutStore \/ DelRef \/ AttachStore)
  /\ \A g \in Listers : SF_vars(Snapshot(g)) /\ WF_vars(AnswerList(g))

-----------------------------------------------------------------------------
CriticalSection ==
  [at : {"free", "putRef", "putStore", "delRef", "attachStore"},
   key : Keys \cup {NoKey},
   td : Tiddler \cup {Absent},
   credit : Files \cup {NoFile}]

TypeOK ==
  /\ db \in [Keys -> Tiddler \cup {Absent}]
  /\ fileRef \in [Files -> Int]
  /\ cs \in CriticalSection
  /\ handed \in Files \cup {NoFile}
  /\ owned \in [Keys -> SUBSET Files]
  /\ leaked \in SUBSET Files
  /\ uncounted \in SUBSET Files
  /\ CacheTypeOK(Listings)

(* The titles an attachment may still be reached from.                     *)
Owners(f) == {k \in Keys : f \in owned[k]}

Credit(f) == IF cs.credit = f THEN 1 ELSE 0

(* A reference count never falls below the number of titles that may be    *)
(* bound to the file, plus the one in progress: Put and AttachAttachment   *)
(* count before they store and Del discounts after it deletes.  So a kill  *)
(* or a failed write in between leaves the count too high, unless Put went *)
(* on without its count, or had an existing title bound to another file.   *)
RefsCover ==
  \A f \in Files \ uncounted : Cardinality(Owners(f)) + Credit(f) <= fileRef[f]

(* A file that Del hands back for removal is bound to no stored tiddler    *)
(* (Store.AttachAttachment: "for removing file if tiddler delete") ...     *)
HandedIsNeverBound ==
  handed # NoFile => \A k \in Keys : FileOf(db[k]) # handed

(* ... unless a Put has bound it without counting it: to an existing       *)
(* title, or when it could not write the count, an error it ignores.       *)
HandedIsUnbound == handed \notin uncounted => HandedIsNeverBound

(* The titles bound to an attachment.                                      *)
BoundTo(f) == {k \in Keys : FileOf(db[k]) = f}

(* The count of an attachment is exactly the number of tiddlers bound to   *)
(* it, so that its file is removed with the last of them, unless an update *)
(* has taken it off a title, a write of its count or tiddler was lost, or  *)
(* a Put bound it without counting it.                                     *)
RefsExact ==
  cs = Free => \A f \in Files \ (leaked \cup uncounted) :
                 fileRef[f] = Cardinality(BoundTo(f))

(* Unless the store changed between the last lister's snapshot and its     *)
(* reset of the flag, the cached listing is the current one or is due for  *)
(* a rebuild: every mutation that a listing shows flags it dirty.          *)
FreshUnlessRaced ==
  raced \/ RebuildDue \/ cached = Listing(db)

(* The store implements its interface, crashes and failed writes included, *)
(* if its user takes an attachment that a Put left uncounted for none when *)
(* it is handed back.                                                      *)
Counted(file) == IF file \in uncounted THEN NoFile ELSE file

Interface ==
  INSTANCE TiddlerStore WITH
    tiddlers <- db,
    unbound <- IF cs.at = "delRef" THEN Counted(cs.credit) ELSE NoFile,
    handed <- Counted(handed)

ImplementsInterface == Interface!Spec

(* Every listing that was asked for is answered, or the process stops.     *)
ListAnswered ==
  \A g \in Listers : lister[g].at # "idle" ~> lister[g].at = "idle"

=============================================================================
