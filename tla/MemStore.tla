------------------------------- MODULE MemStore -------------------------------
(***************************************************************************)
(* The in-memory store (store/store_mem.go).  Put creates a tiddler under  *)
(* s.mx.Lock, but updates one in place under RLock: any number of updates, *)
(* Gets and listings then work on the same memTiddler at the same time.    *)
(* Only its revision is incremented atomically; the other fields are plain *)
(* memory, so an update is one step per word it writes.  A string or slice *)
(* is two words, its size and the data it points to, and is garbage while  *)
(* they belong to different values.                                        *)
(*                                                                         *)
(* The sections under Lock (create, Del, AttachAttachment) exclude all the *)
(* others and nothing in them can fail: each is one step.                  *)
(***************************************************************************)
EXTENDS Tiddlers, ListCache, FiniteSets

CONSTANTS
  Putters,     \* goroutines inside Put
  Getters,     \* goroutines inside Get
  NoKey,
  MaxRev,      \* bound on the revisions of a title
  MaxRef       \* bound on a reference count

(* A memTiddler: revision, meta, text, hash and file, the last of which    *)
(* names the attachment.                                                   *)
Strings(S) == [data : S, size : S]
MemTexts == Strings(Texts)
MemTiddlers ==
  [rev : Nat, meta : Strings(Nat), text : MemTexts,
   hash : [rev : Nat, text : MemTexts], file : Strings(Files \cup {NoFile})]

ASSUME MemAssumption ==
  /\ IsFiniteSet(Keys) /\ IsFiniteSet(Putters)
  /\ NoKey \notin Keys /\ Absent \notin Nat \cup MemTiddlers
  /\ MaxRev \in Nat /\ MaxRef \in Nat

VARIABLES
  kv,          \* title -> memTiddler or Absent
  fileRef,     \* attachment -> count, 0 if no entry
  put,         \* put[w]: the Put of w
  get,         \* get[r]: the Get of r
  handed,      \* the attachment the last Del handed back, or NoFile
  owned,       \* history: attachments a title was bound to since created
  rebound,     \* history: attachments an update bound to a title, uncounted
  mixed,       \* history: does the title stem from updates that overlapped?
  sent,        \* history: the text last sent for a title, if not deleted
  skipped      \* history: titles that the listing last built left out, and
               \* those being published when it was

memVars == <<kv, fileRef, put, get, handed, owned, rebound, mixed, sent>>
vars == <<memVars, skipped, cacheVars>>

Str(x) == [data |-> x, size |-> x]
Whole(s) == s.data = s.size

(* Mutant of Made: a Put that lost the race to create makes a new tiddler. *)
MadeAnew(rev, text, file) ==
  [rev |-> 1, meta |-> Str(1), text |-> text, hash |-> [rev |-> 1, text |-> text],
   file |-> Str(file)]

(* Mutant of HashOf: the text is not part of it.                           *)
HashOfMeta(rev, text) == [rev |-> rev, text |-> Str(EmptyText)]

(* json.Marshal(tiddler) is known by the revision in it, the hash by what  *)
(* it is a hash of.  All hashes have one size, so one word tells them.     *)
HashOf(rev, text) == [rev |-> rev, text |-> text]

Made(rev, text, file) ==
  [rev |-> rev, meta |-> Str(rev), text |-> text, hash |-> HashOf(rev, text),
   file |-> Str(file)]

IdlePut == [at |-> "idle", half |-> FALSE, key |-> NoKey, skinny |-> FALSE,
            text |-> Str(EmptyText), file |-> NoFile, rev |-> 0]
IdleGet == [at |-> "idle", key |-> NoKey, over |-> FALSE,
            got |-> Made(0, Str(EmptyText), NoFile)]

(* What list(true) writes of a tiddler is told by the revision its meta    *)
(* shows: every update writes a new one.  A meta that is only half written *)
(* may not be decoded, and its tiddler is left out: `without`.             *)
MemListing(without) ==
  [k \in Keys |-> IF kv[k] = Absent \/ k \in without THEN Absent ELSE kv[k].meta.data]

Torn == {k \in Keys : kv[k] # Absent /\ ~Whole(kv[k].meta)}

Updating(w) == put[w].at \notin {"idle", "lock"}
UpdatersOf(k) == {w \in Putters : Updating(w) /\ put[w].key = k}
Reading(r) == get[r].at \notin {"idle", "done"}

(* Mutant of Exclusive: updates do not hold the read lock.                 *)
NoReaders == \A r \in Getters : ~Reading(r)

(* s.mx.Lock waits for everyone that holds s.mx.RLock.                     *)
Exclusive == /\ \A w \in Putters : ~Updating(w)
             /\ \A r \in Getters : ~Reading(r)

Init ==
  /\ CacheInit
  /\ kv = [k \in Keys |-> Absent]
  /\ fileRef = [f \in Files |-> 0]
  /\ put = [w \in Putters |-> IdlePut]
  /\ get = [r \in Getters |-> IdleGet]
  /\ handed = NoFile
  /\ owned = [k \in Keys |-> {}]
  /\ rebound = {}
  /\ mixed = [k \in Keys |-> FALSE]
  /\ sent = [k \in Keys |-> Absent]
  /\ skipped = {}

-----------------------------------------------------------------------------
(* For the bounds: the Puts in progress of a title or an attachment.       *)
Pending(field, x) == Cardinality({w \in Putters : put[w][field] = x})

Named(file) == {file} \ {NoFile}

(* Put: RLock, look the title up.  If it is there, update it under RLock,  *)
(* else unlock and go for the Lock.  A Get in progress of a title that is  *)
(* updated is noted as overlapped.                                         *)
PutBegin(w, k, text, file) ==
  /\ put[w].at = "idle"
  /\ (IF kv[k] = Absent THEN 0 ELSE kv[k].rev) + Pending("key", k) < MaxRev
  /\ file # NoFile => fileRef[file] + Pending("file", file) < MaxRef
  /\ put' = [put EXCEPT ![w] =
       [IdlePut EXCEPT !.at = IF kv[k] = Absent THEN "lock"
                              ELSE IF text = Skinny THEN "skinny" ELSE "rev",
                       !.key = k, !.skinny = (text = Skinny),
                       !.text = Str(IF text = Skinny THEN EmptyText ELSE text),
                       !.file = file]]
  /\ mixed' = IF kv[k] = Absent THEN mixed
              ELSE [mixed EXCEPT ![k] = UpdatersOf(k) # {} \/ (@ /\ text = Skinny)]
  /\ get' = [r \in Getters |->
       IF Reading(r) /\ get[r].key = k THEN [get[r] EXCEPT !.over = TRUE] ELSE get[r]]
  /\ handed' = NoFile
  /\ UNCHANGED <<kv, fileRef, owned, rebound, sent, skipped, cacheVars>>

(* Mutant of Kept: a skinny tiddler's text is taken as it was sent.        *)
Sent(p, td) == p.text

(* putExist: the text of a skinny tiddler is the old one, "" if it is new. *)
Kept(p, td) == IF p.skinny /\ td # Absent THEN td.text ELSE p.text

(* Put, under Lock: double check; create the tiddler and count its         *)
(* attachment (ref = 1), or update the one created meanwhile (ref = 0).    *)
(* Either way the listing is flagged dirty.                                *)
PutLocked(w) ==
  LET p == put[w]
      k == p.key
      new == kv[k] = Absent
  IN
  /\ p.at = "lock"
  /\ Exclusive
  /\ kv' = [kv EXCEPT ![k] = Made(IF new THEN 1 ELSE @.rev + 1, Kept(p, @), p.file)]
  /\ fileRef' = IF new /\ p.file # NoFile THEN [fileRef EXCEPT ![p.file] = @ + 1]
                ELSE fileRef
  /\ owned' = [owned EXCEPT ![k] = @ \cup Named(p.file)]
  /\ rebound' = IF new THEN rebound ELSE rebound \cup (Named(p.file) \ owned[k])
  /\ mixed' = [mixed EXCEPT ![k] = @ /\ p.skinny /\ ~new]
  /\ sent' = IF p.skinny /\ ~new THEN sent ELSE [sent EXCEPT ![k] = p.text.data]
  /\ put' = [put EXCEPT ![w] = IdlePut]
  /\ handed' = NoFile
  /\ FlagDirty
  /\ NoteChange
  /\ UNCHANGED <<get, skipped, cached, lister>>

(* Mutant of ReadText: the marker is taken for the text.                   *)
ReadMarker(w) ==
  /\ put[w].at = "skinny"
  /\ put' = [put EXCEPT ![w].text = Str(Skinny), ![w].at = "rev"]
  /\ UNCHANGED <<kv, fileRef, get, handed, owned, rebound, mixed, sent, skipped, cacheVars>>

(* putExist under RLock, for a skinny tiddler: keep the old text.          *)
ReadText(w) ==
  /\ put[w].at = "skinny"
  /\ put' = [put EXCEPT ![w].text = kv[put[w].key].text, ![w].at = "rev"]
  /\ UNCHANGED <<kv, fileRef, get, handed, owned, rebound, mixed, sent, skipped, cacheVars>>

(* Mutant of IncRev: the revision is computed but not stored.              *)
ComputeRev(w) ==
  /\ put[w].at = "rev"
  /\ put' = [put EXCEPT ![w].rev = kv[put[w].key].rev + 1, ![w].at = "meta"]
  /\ UNCHANGED <<kv, fileRef, get, handed, owned, rebound, mixed, sent, skipped, cacheVars>>

(* putExist: rev = atomic.AddUint64(&td.rev, 1); meta and hash are built.  *)
IncRev(w) ==
  LET rev == kv[put[w].key].rev + 1 IN
  /\ put[w].at = "rev"
  /\ kv' = [kv EXCEPT ![put[w].key].rev = rev]
  /\ put' = [put EXCEPT ![w].rev = rev, ![w].at = "meta"]
  /\ UNCHANGED <<fileRef, get, handed, owned, rebound, mixed, sent, skipped, cacheVars>>

(* Mutant of Value: the meta is built before the revision is set.          *)
EarlyValue(p) == [meta |-> Str(p.rev - 1), text |-> p.text, file |-> Str(p.file)]

(* Mutant of WriteHash: the hash is that of the revision before.           *)
WriteOldHash(w) ==
  LET p == put[w] IN
  /\ p.at = "hash"
  /\ kv' = [kv EXCEPT ![p.key].hash = HashOf(p.rev - 1, p.text)]
  /\ put' = [put EXCEPT ![w].at = "file"]
  /\ UNCHANGED <<fileRef, get, handed, owned, rebound, mixed, sent, skipped, cacheVars>>

(* putExist, "set back": meta, text, hash and file, one after the other.   *)
Value(p) == [meta |-> Str(p.rev), text |-> p.text, file |-> Str(p.file)]
After == [meta |-> "text", text |-> "hash", hash |-> "file"]

WriteSize(w) ==
  LET p == put[w] IN
  /\ p.at \in {"meta", "text", "file"} /\ ~p.half
  /\ kv' = [kv EXCEPT ![p.key][p.at].size = Value(p)[p.at].size]
  /\ put' = [put EXCEPT ![w].half = TRUE]
  /\ UNCHANGED <<fileRef, get, handed, owned, rebound, mixed, sent, skipped, cacheVars>>

WriteData(w) ==
  LET p == put[w] IN
  /\ p.at \in {"meta", "text"} /\ p.half
  /\ kv' = [kv EXCEPT ![p.key][p.at].data = Value(p)[p.at].data]
  /\ put' = [put EXCEPT ![w].half = FALSE, ![w].at = After[p.at]]
  /\ UNCHANGED <<fileRef, get, handed, owned, rebound, mixed, sent, skipped, cacheVars>>

WriteHash(w) ==
  LET p == put[w] IN
  /\ p.at = "hash"
  /\ kv' = [kv EXCEPT ![p.key].hash = HashOf(p.rev, p.text)]
  /\ put' = [put EXCEPT ![w].at = After[p.at]]
  /\ UNCHANGED <<fileRef, get, handed, owned, rebound, mixed, sent, skipped, cacheVars>>

(* The last word, the RUnlock and the answer.  Nothing is flagged dirty.   *)
WriteFile(w) ==
  LET p == put[w] IN
  /\ p.at = "file" /\ p.half
  /\ kv' = [kv EXCEPT ![p.key].file.data = p.file]
  /\ put' = [put EXCEPT ![w] = IdlePut]
  /\ owned' = [owned EXCEPT ![p.key] = @ \cup Named(p.file)]
  /\ rebound' = rebound \cup (Named(p.file) \ owned[p.key])
  /\ sent' = IF p.skinny THEN sent ELSE [sent EXCEPT ![p.key] = p.text.data]
  /\ UNCHANGED <<fileRef, get, handed, mixed, skipped, cacheVars>>

-----------------------------------------------------------------------------
(* The file name read back: "" if its size is 0.  With a size and no data  *)
(* the read faults, after the tiddler is gone: nothing is discounted.      *)
NameOf(s) == IF s.size = NoFile THEN NoFile ELSE s.data

Del(k) ==
  LET file == NameOf(kv[k].file)
      counted == file # NoFile /\ fileRef[file] > 0
  IN
  /\ Exclusive
  /\ kv[k] # Absent
  /\ kv' = [kv EXCEPT ![k] = Absent]
  /\ fileRef' = IF counted THEN [fileRef EXCEPT ![file] = @ - 1] ELSE fileRef
  /\ handed' = IF counted /\ fileRef[file] = 1 THEN file ELSE NoFile
  /\ owned' = [owned EXCEPT ![k] = {}]
  /\ sent' = [sent EXCEPT ![k] = Absent]
  /\ FlagDirty
  /\ NoteChange
  /\ UNCHANGED <<put, get, rebound, mixed, skipped, cached, lister>>

(* The name of an uploaded file is new: nobody can have put it yet.        *)
Unused(file) ==
  /\ fileRef[file] = 0
  /\ \A k \in Keys : file \notin owned[k]
  /\ \A w \in Putters : put[w].file # file
  /\ file \notin rebound

AttachAttachment(k, file) ==
  /\ Exclusive
  /\ kv[k] # Absent
  /\ Unused(file)
  /\ kv' = [kv EXCEPT ![k].file = Str(file)]
  /\ fileRef' = [fileRef EXCEPT ![file] = @ + 1]
  /\ owned' = [owned EXCEPT ![k] = @ \cup {file}]
  /\ handed' = NoFile
  /\ UNCHANGED <<put, get, rebound, mixed, sent, skipped, cacheVars>>

-----------------------------------------------------------------------------
(* Get: RLock, then the fields in the order the code reads them.           *)
GetBegin(r, k) ==
  /\ ~Reading(r)
  /\ kv[k] # Absent
  /\ get' = [get EXCEPT ![r] =
       [IdleGet EXCEPT !.at = "meta", !.key = k,
                       !.over = mixed[k] \/ UpdatersOf(k) # {}]]
  /\ UNCHANGED <<kv, fileRef, put, handed, owned, rebound, mixed, sent, skipped, cacheVars>>

(* A meta that cannot be decoded: "not found".                             *)
GetFails(r) ==
  /\ get[r].at = "meta"
  /\ ~Whole(kv[get[r].key].meta)
  /\ get' = [get EXCEPT ![r] = IdleGet]
  /\ UNCHANGED <<kv, fileRef, put, handed, owned, rebound, mixed, sent, skipped, cacheVars>>

GetNext == [meta |-> "rev", rev |-> "text", text |-> "hash", hash |-> "done"]

GetField(r) ==
  LET g == get[r] IN
  /\ Reading(r)
  /\ get' = [get EXCEPT ![r].got[g.at] = kv[g.key][g.at], ![r].at = GetNext[g.at]]
  /\ UNCHANGED <<kv, fileRef, put, handed, owned, rebound, mixed, sent, skipped, cacheVars>>

(* list(true) reads under RLock too, so it meets tiddlers that are being   *)
(* updated.  Here it reads all of them at one moment.                      *)
Snapshot(g) ==
  /\ \E without \in SUBSET Torn :
       /\ BuildList(g, MemListing(without))
       /\ skipped' = without \cup (IF Publishing THEN skipped ELSE {})
  /\ UNCHANGED memVars

RequestList(g) ==
  /\ CallList(g)
  /\ UNCHANGED <<memVars, skipped>>

AnswerList(g) ==
  /\ ListStep(g)
  /\ UNCHANGED <<memVars, skipped>>

Update(w) == \/ ReadText(w) \/ IncRev(w) \/ WriteSize(w) \/ WriteData(w)
             \/ WriteHash(w) \/ WriteFile(w)

Next ==
  \/ \E w \in Putters, k \in Keys, text \in Texts \cup {Skinny},
        file \in Files \cup {NoFile} : PutBegin(w, k, text, file)
  \/ \E w \in Putters : PutLocked(w) \/ Update(w)
  \/ \E k \in Keys : Del(k)
  \/ \E k \in Keys, file \in Files : AttachAttachment(k, file)
  \/ \E r \in Getters, k \in Keys : GetBegin(r, k)
  \/ \E r \in Getters : GetField(r) \/ GetFails(r)
  \/ \E g \in Listers : RequestList(g) \/ Snapshot(g) \/ AnswerList(g)

Spec == Init /\ [][Next]_vars

-----------------------------------------------------------------------------
PutStates ==
  [at : {"idle", "lock", "skinny", "rev", "meta", "text", "hash", "file"},
   half : BOOLEAN, key : Keys \cup {NoKey}, skinny : BOOLEAN, text : MemTexts,
   file : Files \cup {NoFile}, rev : Nat]

GetStates ==
  [at : {"idle", "meta", "rev", "text", "hash", "done"},
   key : Keys \cup {NoKey}, over : BOOLEAN, got : MemTiddlers]

MemListings == [Keys -> Nat \cup {Absent}]

TypeOK ==
  /\ kv \in [Keys -> MemTiddlers \cup {Absent}]
  /\ fileRef \in [Files -> Nat]
  /\ put \in [Putters -> PutStates]
  /\ get \in [Getters -> GetStates]
  /\ handed \in Files \cup {NoFile}
  /\ owned \in [Keys -> SUBSET Files]
  /\ rebound \in SUBSET Files
  /\ mixed \in [Keys -> BOOLEAN]
  /\ sent \in [Keys -> Texts \cup {Absent}]
  /\ skipped \subseteq Keys
  /\ CacheTypeOK(MemListings)

(* A tiddler is updated in place only while it is in the map: no update is *)
(* made to one that Del or a second create has detached.                   *)
UpdatesAttached ==
  \A w \in Putters : Updating(w) => kv[put[w].key] # Absent

(* Two Puts of one title never answer with the same revision, however they *)
(* overlap, and none answers with one the tiddler has not reached.         *)
RevsDistinct ==
  \A v, w \in Putters :
    put[w].rev # 0 =>
      /\ put[w].rev <= kv[put[w].key].rev
      /\ v # w /\ put[v].key = put[w].key => put[v].rev # put[w].rev

(* The revision of a title only grows until the title is deleted: a Put    *)
(* that lost the race to create it continues the winner's count.           *)
RevisionsGrow ==
  [][\A k \in Keys :
       kv[k] # Absent /\ kv'[k] # Absent => kv'[k].rev >= kv[k].rev]_vars

(* The answer of a Get and what is stored agree with themselves: the meta  *)
(* shows the revision, and the hash (the ETag of api.go) is that of both.  *)
Consistent(td) ==
  /\ td.meta = Str(td.rev)
  /\ Whole(td.text)
  /\ td.hash = HashOf(td.rev, td.text)

(* A title that nobody is updating is consistent, unless the last updates  *)
(* overlapped that sent it a text.                                         *)
ConsistentUnlessMixed ==
  \A k \in Keys :
    kv[k] # Absent /\ UpdatersOf(k) = {} /\ ~mixed[k] => Consistent(kv[k])

(* A Get that no update overlapped answers with one consistent tiddler,    *)
(* whatever creates, deletes and listings happen meanwhile.                *)
GetConsistent ==
  \A r \in Getters :
    get[r].at = "done" /\ ~get[r].over => Consistent(get[r].got)

(* A title has the text that was last sent for it, or is gone if a Del was *)
(* last, whatever skinny updates ("keep old text"), races to create it and *)
(* restarts came in between, unless updates of it overlapped.              *)
LastSentIsStored ==
  \A k \in Keys :
    UpdatersOf(k) = {} /\ ~mixed[k] =>
      IF kv[k] = Absent THEN sent[k] = Absent ELSE kv[k].text = Str(sent[k])

(* getTiddler: the ETag of an answer, "recipe, title, revision, hash".     *)
Etag(td) == <<td.rev, td.hash>>

(* getTiddler answers "not modified" if the ETag the browser has cached    *)
(* with an earlier answer is that of the stored tiddler.  The text it has  *)
(* cached is then the stored one, also when the title was deleted and      *)
(* created anew meanwhile, unless updates overlapped it or each other.     *)
NotModifiedIsRight ==
  \A r \in Getters :
    LET td == kv[get[r].key] IN
    /\ get[r].at = "done" /\ ~get[r].over
    /\ td # Absent /\ UpdatersOf(get[r].key) = {} /\ ~mixed[get[r].key]
    /\ Etag(td) = Etag(get[r].got)
    => td.text = get[r].got.text

(* The count of an attachment that no update has bound uncounted is at     *)
(* least the number of titles that may be bound to it.                     *)
RefsCover ==
  \A f \in Files \ rebound :
    Cardinality({k \in Keys : f \in owned[k]}) <= fileRef[f]

(* Such an attachment is handed back for removal only when no stored       *)
(* tiddler is bound to it ("for removing file if tiddler delete").         *)
HandedIsUnbound ==
  handed \in Files \ rebound =>
    \A k \in Keys : kv[k] # Absent => handed \notin {kv[k].file.data, kv[k].file.size}

(* The cached listing has the titles of the store, unless one came or went *)
(* while it was being published; a stored title is missing only if the     *)
(* snapshot met it half written.  Nothing flags that listing dirty: the    *)
(* title is missing until another one is created or deleted.               *)
TitlesFreshUnlessRaced ==
  \/ raced \/ RebuildDue
  \/ \A k \in Keys : IF kv[k] = Absent THEN cached[k] = Absent
                     ELSE cached[k] # Absent \/ k \in skipped

(* "1 for dirty, 0 for clear": with nobody at work, a clear flag means     *)
(* that the cached listing is the current one (store.go).                  *)
ClearMeansCurrent ==
  /\ \A g \in Listers : lister[g].at = "idle"
  /\ \A w \in Putters : put[w].at = "idle"
  => dirty \/ cached = NoListing \/ cached = MemListing({})

=============================================================================
