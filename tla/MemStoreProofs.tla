---------------------------- MODULE MemStoreProofs ----------------------------
(***************************************************************************)
(* Theorems about the in-memory store, for every number of titles,         *)
(* attachments, texts, Puts, Gets and listings under way, and every bound. *)
(***************************************************************************)
EXTENDS MemStore, ListCacheProofs, FiniteSetTheorems

USE TiddlersAssumption, MemAssumption

(* What a Put holds: its title once it has begun, one that is in the map   *)
(* while it updates it, and a revision once it has drawn one.              *)
PutOK(w) ==
  /\ put[w].at # "idle" => put[w].key \in Keys
  /\ Updating(w) => kv[put[w].key] # Absent
  /\ put[w].half => put[w].at \in {"meta", "text", "file"}
  /\ put[w].at \in {"idle", "lock", "skinny", "rev"} => put[w].rev = 0

(* What a Get holds: its title, which stays in the map while it reads.     *)
GetOK(r) ==
  /\ get[r].at # "idle" => get[r].key \in Keys
  /\ Reading(r) => kv[get[r].key] # Absent

Basics ==
  /\ TypeOK
  /\ \A w \in Putters : PutOK(w)
  /\ \A r \in Getters : GetOK(r)

(* Made makes a tiddler.                                                   *)
LEMMA MadeType ==
  ASSUME NEW rev \in Nat, NEW text \in MemTexts, NEW file \in Files \cup {NoFile}
  PROVE  /\ Made(rev, text, file) \in MemTiddlers
         /\ Made(rev, text, file).rev = rev
         /\ Made(rev, text, file).text = text
         /\ Made(rev, text, file).file = Str(file)
  BY DEF Made, MemTiddlers, HashOf, Str, Strings

(* The string made of a value is one.                                      *)
LEMMA StrType ==
  ASSUME NEW S, NEW x \in S
  PROVE  /\ Str(x) \in Strings(S)
         /\ Whole(Str(x)) /\ Str(x).data = x /\ Str(x).size = x
  BY DEF Str, Strings, Whole

(* Nobody at work: the shape of an idle Put and an idle Get.               *)
LEMMA IdleTypes ==
  /\ IdlePut \in PutStates /\ IdlePut.at = "idle" /\ ~IdlePut.half /\ IdlePut.rev = 0
  /\ IdleGet \in GetStates /\ IdleGet.at = "idle"
<1>1. Str(EmptyText) \in MemTexts
  BY StrType DEF MemTexts
<1>2. Made(0, Str(EmptyText), NoFile) \in MemTiddlers
  BY <1>1, MadeType
<1> QED BY <1>1, <1>2 DEF IdlePut, IdleGet, PutStates, GetStates

(* The listing of the store is a listing, whatever it leaves out.          *)
LEMMA MemListingType ==
  ASSUME kv \in [Keys -> MemTiddlers \cup {Absent}], NEW without
  PROVE  MemListing(without) \in MemListings
  BY DEF MemListing, MemListings, MemTiddlers, Strings

(* A new store is well-formed.                                             *)
LEMMA BasicsInit == Init => Basics
<1> SUFFICES ASSUME Init PROVE Basics
  OBVIOUS
<1>1. CacheTypeOK(MemListings)
  BY CacheInitType DEF Init
<1>2. TypeOK
  BY <1>1, IdleTypes DEF Init, TypeOK
<1>3. \A w \in Putters : PutOK(w)
  BY IdleTypes DEF Init, PutOK, Updating
<1>4. \A r \in Getters : GetOK(r)
  BY IdleTypes DEF Init, GetOK, Reading
<1> QED BY <1>2, <1>3, <1>4 DEF Basics

(***************************************************************************)
(* An update, word by word: what a step of it writes, with every field of  *)
(* the tiddler and of the Put spelt out.                                   *)
(***************************************************************************)
Fields(rev, meta, text, hash, file) ==
  [rev |-> rev, meta |-> meta, text |-> text, hash |-> hash, file |-> file]

Writes(w, rev, meta, text, hash, file) ==
  kv' = [kv EXCEPT ![put[w].key] = Fields(rev, meta, text, hash, file)]

Moved(p, at, half, text, rev) ==
  [at |-> at, half |-> half, key |-> p.key, skinny |-> p.skinny,
   text |-> text, file |-> p.file, rev |-> rev]

Moves(w, at, half, text, rev) ==
  put' = [put EXCEPT ![w] = Moved(put[w], at, half, text, rev)]

Words(data, size) == [data |-> data, size |-> size]

Old(w) == kv[put[w].key]

TakesText(w) ==
  /\ put[w].at = "skinny"
  /\ kv' = kv
  /\ Moves(w, "rev", FALSE, Old(w).text, 0)

DrawsRev(w) ==
  LET td == Old(w) IN
  /\ put[w].at = "rev"
  /\ Writes(w, td.rev + 1, td.meta, td.text, td.hash, td.file)
  /\ Moves(w, "meta", FALSE, put[w].text, td.rev + 1)

MetaSize(w) ==
  LET td == Old(w) p == put[w] IN
  /\ p.at = "meta" /\ ~p.half
  /\ Writes(w, td.rev, Words(td.meta.data, p.rev), td.text, td.hash, td.file)
  /\ Moves(w, "meta", TRUE, p.text, p.rev)

MetaData(w) ==
  LET td == Old(w) p == put[w] IN
  /\ p.at = "meta" /\ p.half
  /\ Writes(w, td.rev, Words(p.rev, td.meta.size), td.text, td.hash, td.file)
  /\ Moves(w, "text", FALSE, p.text, p.rev)

TextSize(w) ==
  LET td == Old(w) p == put[w] IN
  /\ p.at = "text" /\ ~p.half
  /\ Writes(w, td.rev, td.meta, Words(td.text.data, p.text.size), td.hash, td.file)
  /\ Moves(w, "text", TRUE, p.text, p.rev)

TextData(w) ==
  LET td == Old(w) p == put[w] IN
  /\ p.at = "text" /\ p.half
  /\ Writes(w, td.rev, td.meta, Words(p.text.data, td.text.size), td.hash, td.file)
  /\ Moves(w, "hash", FALSE, p.text, p.rev)

HashWord(w) ==
  LET td == Old(w) p == put[w] IN
  /\ p.at = "hash"
  /\ Writes(w, td.rev, td.meta, td.text, HashOf(p.rev, p.text), td.file)
  /\ Moves(w, "file", FALSE, p.text, p.rev)

FileSize(w) ==
  LET td == Old(w) p == put[w] IN
  /\ p.at = "file" /\ ~p.half
  /\ Writes(w, td.rev, td.meta, td.text, td.hash, Words(td.file.data, p.file))
  /\ Moves(w, "file", TRUE, p.text, p.rev)

FileData(w) ==
  LET td == Old(w) p == put[w] IN
  /\ p.at = "file" /\ p.half
  /\ Writes(w, td.rev, td.meta, td.text, td.hash, Words(p.file, td.file.size))
  /\ put' = [put EXCEPT ![w] = IdlePut]

(* The fields of a tiddler, set one at a time.                             *)
LEMMA SetField ==
  ASSUME NEW td \in MemTiddlers, NEW x
  PROVE  /\ [td EXCEPT !.rev = x] = Fields(x, td.meta, td.text, td.hash, td.file)
         /\ [td EXCEPT !["meta"] = x] = Fields(td.rev, x, td.text, td.hash, td.file)
         /\ [td EXCEPT !["text"] = x] = Fields(td.rev, td.meta, x, td.hash, td.file)
         /\ [td EXCEPT !.hash = x] = Fields(td.rev, td.meta, td.text, x, td.file)
         /\ [td EXCEPT !["file"] = x] = Fields(td.rev, td.meta, td.text, td.hash, x)
         /\ td["meta"] = td.meta /\ td["text"] = td.text /\ td["file"] = td.file
<1>1. /\ [td EXCEPT !["meta"] = x] = [td EXCEPT !.meta = x]
      /\ [td EXCEPT !["text"] = x] = [td EXCEPT !.text = x]
      /\ [td EXCEPT !["file"] = x] = [td EXCEPT !.file = x]
  OBVIOUS
<1> QED BY <1>1 DEF MemTiddlers, Fields

(* The words of a string, set one at a time.                               *)
LEMMA SetWord ==
  ASSUME NEW S, NEW s \in Strings(S), NEW x
  PROVE  /\ [s EXCEPT !.size = x] = Words(s.data, x)
         /\ [s EXCEPT !.data = x] = Words(x, s.size)
  BY DEF Strings, Words

(* A word of a tiddler set in place.                                       *)
LEMMA SetMeta ==
  ASSUME NEW td \in MemTiddlers, NEW x
  PROVE  /\ [td EXCEPT !["meta"] = [td["meta"] EXCEPT !.size = x]]
              = Fields(td.rev, Words(td.meta.data, x), td.text, td.hash, td.file)
         /\ [td EXCEPT !["meta"] = [td["meta"] EXCEPT !.data = x]]
              = Fields(td.rev, Words(x, td.meta.size), td.text, td.hash, td.file)
<1>1. td["meta"] = td.meta /\ td.meta \in Strings(Nat)
  BY DEF MemTiddlers
<1>2. /\ [td["meta"] EXCEPT !.size = x] = Words(td.meta.data, x)
      /\ [td["meta"] EXCEPT !.data = x] = Words(x, td.meta.size)
  BY <1>1, SetWord, Zenon
<1>3. \A y : [td EXCEPT !["meta"] = y] = Fields(td.rev, y, td.text, td.hash, td.file)
  BY SetField, Zenon
<1> QED BY <1>2, <1>3, Zenon

LEMMA SetText ==
  ASSUME NEW td \in MemTiddlers, NEW x
  PROVE  /\ [td EXCEPT !["text"] = [td["text"] EXCEPT !.size = x]]
              = Fields(td.rev, td.meta, Words(td.text.data, x), td.hash, td.file)
         /\ [td EXCEPT !["text"] = [td["text"] EXCEPT !.data = x]]
              = Fields(td.rev, td.meta, Words(x, td.text.size), td.hash, td.file)
<1>1. td["text"] = td.text /\ td.text \in Strings(Texts)
  BY DEF MemTiddlers, MemTexts
<1>2. /\ [td["text"] EXCEPT !.size = x] = Words(td.text.data, x)
      /\ [td["text"] EXCEPT !.data = x] = Words(x, td.text.size)
  BY <1>1, SetWord, Zenon
<1>3. \A y : [td EXCEPT !["text"] = y] = Fields(td.rev, td.meta, y, td.hash, td.file)
  BY SetField, Zenon
<1> QED BY <1>2, <1>3, Zenon

LEMMA SetFile ==
  ASSUME NEW td \in MemTiddlers, NEW x
  PROVE  /\ [td EXCEPT !["file"] = [td["file"] EXCEPT !.size = x]]
              = Fields(td.rev, td.meta, td.text, td.hash, Words(td.file.data, x))
         /\ [td EXCEPT !["file"] = [td["file"] EXCEPT !.data = x]]
              = Fields(td.rev, td.meta, td.text, td.hash, Words(x, td.file.size))
<1>1. td["file"] = td.file /\ td.file \in Strings(Files \cup {NoFile})
  BY DEF MemTiddlers
<1>2. /\ [td["file"] EXCEPT !.size = x] = Words(td.file.data, x)
      /\ [td["file"] EXCEPT !.data = x] = Words(x, td.file.size)
  BY <1>1, SetWord, Zenon
<1>3. \A y : [td EXCEPT !["file"] = y] = Fields(td.rev, td.meta, td.text, td.hash, y)
  BY SetField, Zenon
<1> QED BY <1>2, <1>3, Zenon

(* The fields of a Put, set one at a time.                                 *)
LEMMA SetPut ==
  ASSUME NEW p \in PutStates, NEW x
  PROVE  /\ [p EXCEPT !.at = x] = Moved(p, x, p.half, p.text, p.rev)
         /\ [p EXCEPT !.half = x] = Moved(p, p.at, x, p.text, p.rev)
         /\ [p EXCEPT !.text = x] = Moved(p, p.at, p.half, x, p.rev)
         /\ [p EXCEPT !.rev = x] = Moved(p, p.at, p.half, p.text, x)
  BY DEF PutStates, Moved

(* Every step of an update is one of those above.                          *)
LEMMA UpdateCases ==
  ASSUME Basics, NEW w \in Putters, Update(w)
  PROVE  \/ TakesText(w) \/ DrawsRev(w) \/ MetaSize(w) \/ MetaData(w)
         \/ TextSize(w) \/ TextData(w) \/ HashWord(w) \/ FileSize(w) \/ FileData(w)
<1> DEFINE td == Old(w)
           p == put[w]
<1>1. p \in PutStates /\ td \in MemTiddlers
  BY DEF Basics, PutOK, TypeOK, Update, Updating, ReadText, IncRev, WriteSize, WriteData,
         WriteHash, WriteFile, Old
<1>2. /\ p.at \in {"skinny", "rev", "hash"} => p.half = FALSE
      /\ p.at \in {"skinny", "rev"} => p.rev = 0
  BY <1>1 DEF Basics, PutOK, PutStates
<1>3. /\ Value(p)["meta"].size = p.rev /\ Value(p)["meta"].data = p.rev
      /\ Value(p)["text"].size = p.text.size /\ Value(p)["text"].data = p.text.data
      /\ Value(p)["file"].size = p.file /\ Value(p)["file"].data = p.file
      /\ After["meta"] = "text" /\ After["text"] = "hash" /\ After["hash"] = "file"
  BY DEF Value, Str, After
<1>4. CASE ReadText(w)
  <2> DEFINE q == [p EXCEPT !.text = td.text]
  <2>1. q = Moved(p, p.at, p.half, td.text, p.rev)
    BY <1>1, SetPut, Zenon
  <2>2. put' = [put EXCEPT ![w] = [q EXCEPT !.at = "rev"]]
    BY <1>4 DEF ReadText, Old
  <2> HIDE DEF q
  <2>3. [q EXCEPT !.at = "rev"] = Moved(p, "rev", p.half, td.text, p.rev)
    BY <2>1 DEF Moved
  <2> QED BY <1>2, <1>4, <2>2, <2>3 DEF ReadText, TakesText, Moves
<1>5. CASE IncRev(w)
  <2> DEFINE n == td.rev + 1
             q == [p EXCEPT !.rev = n]
  <2>1. kv' = [kv EXCEPT ![p.key] = [td EXCEPT !.rev = n]]
    BY <1>5 DEF IncRev, Old
  <2>2. put' = [put EXCEPT ![w] = [q EXCEPT !.at = "meta"]]
    BY <1>5 DEF IncRev, Old
  <2>3. p.at = "rev" /\ p.half = FALSE
    BY <1>2, <1>5 DEF IncRev
  <2> HIDE DEF n
  <2>4. [td EXCEPT !.rev = n] = Fields(n, td.meta, td.text, td.hash, td.file)
    BY <1>1, SetField, Zenon
  <2>5. q = Moved(p, p.at, p.half, p.text, n)
    BY <1>1, SetPut, Zenon
  <2> HIDE DEF q
  <2>6. [q EXCEPT !.at = "meta"] = Moved(p, "meta", p.half, p.text, n)
    BY <2>5 DEF Moved
  <2>7. Writes(w, n, td.meta, td.text, td.hash, td.file)
    BY <2>1, <2>4 DEF Writes
  <2>8. Moves(w, "meta", FALSE, p.text, n)
    BY <2>2, <2>3, <2>6 DEF Moves
  <2> QED BY <2>3, <2>7, <2>8 DEF DrawsRev, n
<1>6. CASE WriteSize(w)
  <2>1. kv' = [kv EXCEPT ![p.key] =
          [td EXCEPT ![p.at] = [td[p.at] EXCEPT !.size = Value(p)[p.at].size]]]
    BY <1>6 DEF WriteSize, Old
  <2>2. put' = [put EXCEPT ![w] = [p EXCEPT !.half = TRUE]] /\ ~p.half
    BY <1>6 DEF WriteSize
  <2>3. [p EXCEPT !.half = TRUE] = Moved(p, p.at, TRUE, p.text, p.rev)
    BY <1>1, SetPut, Zenon
  <2>4. Moves(w, p.at, TRUE, p.text, p.rev)
    BY <2>2, <2>3 DEF Moves
  <2>5. CASE p.at = "meta"
    <3>1. kv' = [kv EXCEPT ![p.key] =
            [td EXCEPT !["meta"] = [td["meta"] EXCEPT !.size = p.rev]]]
      BY <1>3, <2>1, <2>5, Zenon
    <3>2. Writes(w, td.rev, Words(td.meta.data, p.rev), td.text, td.hash, td.file)
      BY <1>1, <3>1, SetMeta, Zenon DEF Writes
    <3> QED BY <2>2, <2>4, <2>5, <3>2 DEF MetaSize
  <2>6. CASE p.at = "text"
    <3>1. kv' = [kv EXCEPT ![p.key] =
            [td EXCEPT !["text"] = [td["text"] EXCEPT !.size = p.text.size]]]
      BY <1>3, <2>1, <2>6, Zenon
    <3>2. Writes(w, td.rev, td.meta, Words(td.text.data, p.text.size), td.hash, td.file)
      BY <1>1, <3>1, SetText, Zenon DEF Writes
    <3> QED BY <2>2, <2>4, <2>6, <3>2 DEF TextSize
  <2>7. CASE p.at = "file"
    <3>1. kv' = [kv EXCEPT ![p.key] =
            [td EXCEPT !["file"] = [td["file"] EXCEPT !.size = p.file]]]
      BY <1>3, <2>1, <2>7, Zenon
    <3>2. Writes(w, td.rev, td.meta, td.text, td.hash, Words(td.file.data, p.file))
      BY <1>1, <3>1, SetFile, Zenon DEF Writes
    <3> QED BY <2>2, <2>4, <2>7, <3>2 DEF FileSize
  <2> QED BY <1>6, <2>5, <2>6, <2>7 DEF WriteSize
<1>7. CASE WriteData(w)
  <2> DEFINE no == FALSE
             q == [p EXCEPT !.half = no]
  <2>1. kv' = [kv EXCEPT ![p.key] =
          [td EXCEPT ![p.at] = [td[p.at] EXCEPT !.data = Value(p)[p.at].data]]]
    BY <1>7 DEF WriteData, Old
  <2>2. put' = [put EXCEPT ![w] = [q EXCEPT !.at = After[p.at]]] /\ p.half
    BY <1>7 DEF WriteData
  <2> HIDE DEF no
  <2>3. q = Moved(p, p.at, no, p.text, p.rev)
    BY <1>1, SetPut, Zenon
  <2> HIDE DEF q
  <2>4. CASE p.at = "meta"
    <3>1. [q EXCEPT !.at = "text"] = Moved(p, "text", no, p.text, p.rev)
      BY <2>3 DEF Moved
    <3>2. Moves(w, "text", FALSE, p.text, p.rev)
      BY <1>3, <2>2, <2>4, <3>1, Zenon DEF Moves, no
    <3>3. kv' = [kv EXCEPT ![p.key] =
            [td EXCEPT !["meta"] = [td["meta"] EXCEPT !.data = p.rev]]]
      BY <1>3, <2>1, <2>4, Zenon
    <3>4. Writes(w, td.rev, Words(p.rev, td.meta.size), td.text, td.hash, td.file)
      BY <1>1, <3>3, SetMeta, Zenon DEF Writes
    <3> QED BY <2>2, <2>4, <3>2, <3>4 DEF MetaData
  <2>5. CASE p.at = "text"
    <3>1. [q EXCEPT !.at = "hash"] = Moved(p, "hash", no, p.text, p.rev)
      BY <2>3 DEF Moved
    <3>2. Moves(w, "hash", FALSE, p.text, p.rev)
      BY <1>3, <2>2, <2>5, <3>1, Zenon DEF Moves, no
    <3>3. kv' = [kv EXCEPT ![p.key] =
            [td EXCEPT !["text"] = [td["text"] EXCEPT !.data = p.text.data]]]
      BY <1>3, <2>1, <2>5, Zenon
    <3>4. Writes(w, td.rev, td.meta, Words(p.text.data, td.text.size), td.hash, td.file)
      BY <1>1, <3>3, SetText, Zenon DEF Writes
    <3> QED BY <2>2, <2>5, <3>2, <3>4 DEF TextData
  <2> QED BY <1>7, <2>4, <2>5 DEF WriteData
<1>8. CASE WriteHash(w)
  <2>1. kv' = [kv EXCEPT ![p.key] = [td EXCEPT !.hash = HashOf(p.rev, p.text)]]
    BY <1>8 DEF WriteHash, Old
  <2>2. put' = [put EXCEPT ![w] = [p EXCEPT !.at = "file"]] /\ p.at = "hash" /\ p.half = FALSE
    BY <1>2, <1>3, <1>8 DEF WriteHash
  <2>3. Writes(w, td.rev, td.meta, td.text, HashOf(p.rev, p.text), td.file)
    BY <1>1, <2>1, SetField, Zenon DEF Writes
  <2>4. Moves(w, "file", FALSE, p.text, p.rev)
    <3>1. [p EXCEPT !.at = "file"] = Moved(p, "file", p.half, p.text, p.rev)
      BY <1>1, SetPut, Zenon
    <3> QED BY <2>2, <3>1 DEF Moves
  <2> QED BY <2>2, <2>3, <2>4 DEF HashWord
<1>9. CASE WriteFile(w)
  <2>1. kv' = [kv EXCEPT ![p.key] = [td EXCEPT !["file"] = [td["file"] EXCEPT !.data = p.file]]]
    BY <1>1, <1>9, SetField DEF WriteFile, Old
  <2>2. Writes(w, td.rev, td.meta, td.text, td.hash, Words(p.file, td.file.size))
    BY <1>1, <2>1, SetFile, Zenon DEF Writes
  <2> QED BY <1>9, <2>2 DEF FileData, WriteFile
<1> HIDE DEF td, p
<1> QED BY <1>4, <1>5, <1>6, <1>7, <1>8, <1>9, Zenon DEF Update

(* Of an update, in general: what is written is a tiddler, and the Put     *)
(* goes on with its title or is done.                                      *)
SomeTiddler(w) ==
  \E td \in MemTiddlers : /\ kv' = [kv EXCEPT ![put[w].key] = td]
                          /\ td.rev >= Old(w).rev

SomePut(w) ==
  \E p \in PutStates :
    /\ put' = [put EXCEPT ![w] = p]
    /\ p.at # "idle" => p.key = put[w].key
    /\ p.at # "lock"
    /\ p.half => p.at \in {"meta", "text", "file"}
    /\ p.at \in {"idle", "skinny", "rev"} => p.rev = 0

LEMMA UpdateShape ==
  ASSUME Basics, NEW w \in Putters, Update(w)
  PROVE  /\ Updating(w) /\ put[w].key \in Keys /\ Old(w) \in MemTiddlers
         /\ SomeTiddler(w) /\ SomePut(w)
         /\ UNCHANGED <<fileRef, get, handed, mixed, skipped, cacheVars>>
<1> DEFINE td == Old(w)
           p == put[w]
<1>1. /\ p \in PutStates /\ p.key \in Keys /\ Updating(w)
      /\ td \in MemTiddlers /\ kv \in [Keys -> MemTiddlers \cup {Absent}]
  BY DEF Basics, PutOK, TypeOK, Update, Updating, ReadText, IncRev, WriteSize, WriteData,
         WriteHash, WriteFile, Old
<1>2. /\ td.rev \in Nat /\ td.meta \in Strings(Nat) /\ td.text \in MemTexts
      /\ td.file \in Strings(Files \cup {NoFile})
      /\ td.hash \in [rev : Nat, text : MemTexts]
      /\ p.text \in MemTexts /\ p.file \in Files \cup {NoFile} /\ p.rev \in Nat
  BY <1>1 DEF MemTiddlers, PutStates
<1>3. ASSUME NEW S, NEW s \in Strings(S), NEW x \in S
      PROVE  Words(s.data, x) \in Strings(S) /\ Words(x, s.size) \in Strings(S)
  BY DEF Strings, Words
<1>4. ASSUME NEW rev \in Nat, NEW meta \in Strings(Nat), NEW text \in MemTexts,
             NEW hash \in [rev : Nat, text : MemTexts],
             NEW file \in Strings(Files \cup {NoFile}),
             Writes(w, rev, meta, text, hash, file), rev >= td.rev
      PROVE  SomeTiddler(w)
  <2> DEFINE new == Fields(rev, meta, text, hash, file)
  <2>1. new \in MemTiddlers /\ new.rev = rev
    BY DEF Fields, MemTiddlers
  <2>2. kv' = [kv EXCEPT ![put[w].key] = new]
    BY <1>4 DEF Writes
  <2> HIDE DEF new
  <2> QED BY <1>4, <2>1, <2>2 DEF SomeTiddler
<1>5. ASSUME NEW at \in {"rev", "meta", "text", "hash", "file"}, NEW half \in BOOLEAN,
             NEW text \in MemTexts, NEW rev \in Nat,
             half => at \in {"meta", "text", "file"}, at = "rev" => rev = 0,
             Moves(w, at, half, text, rev)
      PROVE  SomePut(w)
  <2> DEFINE new == Moved(p, at, half, text, rev)
  <2>1. /\ new \in PutStates /\ new.at = at /\ new.half = half /\ new.rev = rev
        /\ new.key = p.key
    BY <1>1 DEF Moved, PutStates
  <2>2. put' = [put EXCEPT ![w] = new]
    BY <1>5 DEF Moves
  <2> HIDE DEF new
  <2> QED BY <1>5, <2>1, <2>2 DEF SomePut
<1>a. /\ Words(td.meta.data, p.rev) \in Strings(Nat) /\ Words(p.rev, td.meta.size) \in Strings(Nat)
      /\ Words(td.text.data, p.text.size) \in MemTexts
      /\ Words(p.text.data, td.text.size) \in MemTexts
      /\ Words(td.file.data, p.file) \in Strings(Files \cup {NoFile})
      /\ Words(p.file, td.file.size) \in Strings(Files \cup {NoFile})
      /\ HashOf(p.rev, p.text) \in [rev : Nat, text : MemTexts]
      /\ td.rev >= td.rev /\ td.rev + 1 >= td.rev /\ td.rev + 1 \in Nat
  BY <1>2 DEF Words, Strings, MemTexts, HashOf
<1>b. UNCHANGED <<fileRef, get, handed, mixed, skipped, cacheVars>>
  BY DEF Update, ReadText, IncRev, WriteSize, WriteData, WriteHash, WriteFile
<1> HIDE DEF td, p
<1>6. CASE TakesText(w)
  <2>1. SomeTiddler(w)
    BY <1>1, <1>6, <1>a DEF TakesText, SomeTiddler, td, Old
  <2>2. SomePut(w)
    BY <1>2, <1>5, <1>6 DEF TakesText, td
  <2> QED BY <1>1, <1>b, <2>1, <2>2 DEF td, p
<1>7. CASE DrawsRev(w)
  <2>1. SomeTiddler(w)
    BY <1>2, <1>4, <1>7, <1>a DEF DrawsRev, td
  <2>2. SomePut(w)
    BY <1>2, <1>5, <1>7, <1>a DEF DrawsRev, td, p
  <2> QED BY <1>1, <1>b, <2>1, <2>2 DEF td, p
<1>8. CASE MetaSize(w) \/ MetaData(w) \/ TextSize(w) \/ TextData(w) \/ HashWord(w) \/ FileSize(w)
  <2>1. SomeTiddler(w)
    BY <1>2, <1>4, <1>8, <1>a
       DEF MetaSize, MetaData, TextSize, TextData, HashWord, FileSize, td, p
  <2>2. SomePut(w)
    BY <1>2, <1>5, <1>8, <1>a
       DEF MetaSize, MetaData, TextSize, TextData, HashWord, FileSize, td, p
  <2> QED BY <1>1, <1>b, <2>1, <2>2 DEF td, p
<1>9. CASE FileData(w)
  <2>1. SomeTiddler(w)
    BY <1>2, <1>4, <1>9, <1>a DEF FileData, td, p
  <2>2. SomePut(w)
    BY <1>9, IdleTypes DEF FileData, SomePut
  <2> QED BY <1>1, <1>b, <2>1, <2>2 DEF td, p
<1> QED BY <1>6, <1>7, <1>8, <1>9, UpdateCases

(* Every step leaves the store and everybody at work in it well-formed.    *)
LEMMA BasicsStep == Basics /\ [Next]_vars => Basics'
<1> SUFFICES ASSUME Basics, [Next]_vars PROVE Basics'
  OBVIOUS
<1>0. /\ kv \in [Keys -> MemTiddlers \cup {Absent}]
      /\ put \in [Putters -> PutStates]
      /\ get \in [Getters -> GetStates]
      /\ fileRef \in [Files -> Nat] /\ handed \in Files \cup {NoFile}
      /\ owned \in [Keys -> SUBSET Files] /\ rebound \in SUBSET Files
      /\ mixed \in [Keys -> BOOLEAN] /\ sent \in [Keys -> Texts \cup {Absent}]
      /\ skipped \subseteq Keys /\ CacheTypeOK(MemListings)
  BY DEF Basics, TypeOK
<1>1. ASSUME NEW w \in Putters, NEW k \in Keys, NEW text \in Texts \cup {Skinny},
             NEW file \in Files \cup {NoFile}, PutBegin(w, k, text, file)
      PROVE  Basics'
  <2> DEFINE p == [IdlePut EXCEPT
               !.at = IF kv[k] = Absent THEN "lock" ELSE IF text = Skinny THEN "skinny" ELSE "rev",
               !.key = k, !.skinny = (text = Skinny),
               !.text = Str(IF text = Skinny THEN EmptyText ELSE text), !.file = file]
  <2>1. put' = [put EXCEPT ![w] = p]
    BY <1>1 DEF PutBegin
  <2>2. /\ p \in PutStates /\ p.key = k /\ ~p.half /\ p.rev = 0
        /\ p.at \in {"lock", "skinny", "rev"}
        /\ p.at # "lock" => kv[k] # Absent
    <3>1. Str(IF text = Skinny THEN EmptyText ELSE text) \in MemTexts
      BY StrType DEF MemTexts
    <3> QED BY <3>1, IdleTypes DEF PutStates, IdlePut
  <2> HIDE DEF p
  <2>3. ASSUME NEW r \in Getters
        PROVE  /\ get'[r] \in GetStates /\ get'[r].at = get[r].at /\ get'[r].key = get[r].key
    <3>1. get'[r] = IF Reading(r) /\ get[r].key = k THEN [get[r] EXCEPT !.over = TRUE]
                    ELSE get[r]
      BY <1>1 DEF PutBegin
    <3>2. get[r] \in GetStates
      BY <1>0
    <3> QED BY <3>1, <3>2 DEF GetStates
  <2>a. get' \in [Getters -> GetStates]
    BY <1>1, <2>3 DEF PutBegin
  <2>4. mixed' \in [Keys -> BOOLEAN]
    BY <1>0, <1>1 DEF PutBegin
  <2>5. TypeOK'
    BY <1>0, <1>1, <2>1, <2>2, <2>a, <2>4, CacheSameType DEF TypeOK, PutBegin
  <2>6. ASSUME NEW v \in Putters PROVE PutOK(v)'
    <3>1. CASE v = w
      <4>1. put'[v] = p /\ kv' = kv
        BY <1>0, <1>1, <2>1, <3>1 DEF PutBegin
      <4> QED BY <2>2, <4>1 DEF PutOK, Updating
    <3>2. CASE v # w
      <4>1. put'[v] = put[v] /\ kv' = kv
        BY <1>0, <1>1, <2>1, <3>2 DEF PutBegin
      <4> QED BY <4>1 DEF PutOK, Updating, Basics
    <3> QED BY <3>1, <3>2
  <2>7. ASSUME NEW r \in Getters PROVE GetOK(r)'
    BY <1>1, <2>3 DEF PutBegin, Basics, GetOK, Reading
  <2> QED BY <2>5, <2>6, <2>7 DEF Basics
<1>2. ASSUME NEW w \in Putters, PutLocked(w)
      PROVE  Basics'
  <2> DEFINE k == put[w].key
             new == Made(IF kv[k] = Absent THEN 1 ELSE kv[k].rev + 1,
                         Kept(put[w], kv[k]), put[w].file)
  <2>1. /\ k \in Keys /\ put[w].text \in MemTexts /\ put[w].text.data \in Texts
        /\ put[w].file \in Files \cup {NoFile}
    BY <1>0, <1>2 DEF PutLocked, Basics, PutOK, PutStates, MemTexts, Strings
  <2>2. kv[k] # Absent => kv[k].rev + 1 \in Nat /\ kv[k].text \in MemTexts
    BY <1>0, <2>1 DEF MemTiddlers
  <2>3. new \in MemTiddlers
    BY <2>1, <2>2, MadeType DEF Kept
  <2>4. kv' = [kv EXCEPT ![k] = new] /\ put' = [put EXCEPT ![w] = IdlePut]
    BY <1>2 DEF PutLocked
  <2> HIDE DEF new
  <2>5. fileRef' \in [Files -> Nat]
    BY <1>0, <1>2, <2>1 DEF PutLocked
  <2>6. /\ owned' \in [Keys -> SUBSET Files] /\ rebound' \in SUBSET Files
        /\ mixed' \in [Keys -> BOOLEAN] /\ sent' \in [Keys -> Texts \cup {Absent}]
    BY <1>0, <1>2, <2>1 DEF PutLocked, Named, PutStates
  <2>7. CacheTypeOK(MemListings)'
    BY <1>0, <1>2, CacheFlagType DEF PutLocked
  <2>8. TypeOK'
    BY <1>0, <1>2, <2>1, <2>3, <2>4, <2>5, <2>6, <2>7, IdleTypes DEF TypeOK, PutLocked
  <2>9. \A v \in Putters : PutOK(v)'
    BY <1>0, <1>2, <2>4, IdleTypes DEF PutLocked, Exclusive, Basics, PutOK, Updating
  <2>10. \A r \in Getters : GetOK(r)'
    BY <1>2 DEF PutLocked, Exclusive, Basics, GetOK, Reading
  <2> QED BY <2>8, <2>9, <2>10 DEF Basics
<1>3. ASSUME NEW w \in Putters, Update(w)
      PROVE  Basics'
  <2> DEFINE k == put[w].key
  <2>1. /\ Updating(w) /\ k \in Keys /\ kv[k] \in MemTiddlers
        /\ SomeTiddler(w) /\ SomePut(w)
        /\ UNCHANGED <<fileRef, get, handed, mixed, skipped, cacheVars>>
    BY <1>3, UpdateShape DEF Old
  <2>2. PICK td \in MemTiddlers : kv' = [kv EXCEPT ![k] = td]
    BY <2>1 DEF SomeTiddler
  <2>3. PICK p \in PutStates :
          /\ put' = [put EXCEPT ![w] = p]
          /\ p.at # "idle" => p.key = k
          /\ p.at # "lock"
          /\ p.half => p.at \in {"meta", "text", "file"}
          /\ p.at \in {"idle", "skinny", "rev"} => p.rev = 0
    BY <2>1 DEF SomePut
  <2>4. /\ owned' \in [Keys -> SUBSET Files] /\ rebound' \in SUBSET Files
        /\ sent' \in [Keys -> Texts \cup {Absent}]
    <3>1. put[w].file \in Files \cup {NoFile} /\ put[w].text.data \in Texts
      BY <1>0 DEF PutStates, MemTexts, Strings
    <3> QED BY <1>0, <1>3, <2>1, <3>1
            DEF Update, ReadText, IncRev, WriteSize, WriteData, WriteHash, WriteFile, Named
  <2>5. CacheTypeOK(MemListings)'
    BY <1>0, <2>1, CacheSameType
  <2>6. TypeOK'
    BY <1>0, <2>1, <2>2, <2>3, <2>4, <2>5 DEF TypeOK
  <2>7. \A j \in Keys : kv[j] # Absent => kv'[j] # Absent
    BY <1>0, <2>1, <2>2
  <2>8. ASSUME NEW v \in Putters PROVE PutOK(v)'
    <3>1. CASE v = w
      <4>1. put'[v] = p
        BY <1>0, <2>3, <3>1
      <4>2. kv'[k] # Absent
        BY <2>1, <2>7
      <4> QED BY <2>1, <2>3, <4>1, <4>2 DEF PutOK, Updating
    <3>2. CASE v # w
      <4>1. put'[v] = put[v]
        BY <1>0, <2>3, <3>2
      <4> QED BY <2>7, <4>1 DEF PutOK, Updating, Basics
    <3> QED BY <3>1, <3>2
  <2>9. ASSUME NEW r \in Getters PROVE GetOK(r)'
    BY <2>1, <2>7 DEF GetOK, Reading, Basics
  <2> QED BY <2>6, <2>8, <2>9 DEF Basics
<1>4. ASSUME NEW k \in Keys, Del(k)
      PROVE  Basics'
  <2>1. kv[k] \in MemTiddlers /\ NameOf(kv[k].file) \in Files \cup {NoFile}
    BY <1>0, <1>4 DEF Del, MemTiddlers, Strings, NameOf
  <2> DEFINE file == NameOf(kv[k].file)
  <2>2. fileRef' = IF file # NoFile /\ fileRef[file] > 0
                     THEN [fileRef EXCEPT ![file] = @ - 1] ELSE fileRef
    BY <1>4 DEF Del
  <2>a. handed' \in {file, NoFile}
    BY <1>4 DEF Del
  <2> HIDE DEF file
  <2>3. fileRef' \in [Files -> Nat] /\ handed' \in Files \cup {NoFile}
    BY <1>0, <2>1, <2>2, <2>a DEF file
  <2>4. CacheTypeOK(MemListings)'
    BY <1>0, <1>4, CacheFlagType DEF Del
  <2>5. TypeOK'
    BY <1>0, <1>4, <2>3, <2>4 DEF TypeOK, Del
  <2>6. ASSUME NEW v \in Putters PROVE PutOK(v)'
    BY <1>4 DEF Del, Exclusive, Basics, PutOK, Updating
  <2>7. ASSUME NEW r \in Getters PROVE GetOK(r)'
    BY <1>4 DEF Del, Exclusive, Basics, GetOK, Reading
  <2> QED BY <2>5, <2>6, <2>7 DEF Basics
<1>5. ASSUME NEW k \in Keys, NEW file \in Files, AttachAttachment(k, file)
      PROVE  Basics'
  <2>1. kv[k] \in MemTiddlers /\ Str(file) \in Strings(Files \cup {NoFile})
    BY <1>0, <1>5, StrType DEF AttachAttachment
  <2>2. [kv[k] EXCEPT !.file = Str(file)] \in MemTiddlers
    BY <2>1 DEF MemTiddlers
  <2>3. CacheTypeOK(MemListings)'
    BY <1>0, <1>5, CacheSameType DEF AttachAttachment
  <2>4. TypeOK'
    BY <1>0, <1>5, <2>2, <2>3 DEF TypeOK, AttachAttachment
  <2>5. ASSUME NEW v \in Putters PROVE PutOK(v)'
    BY <1>5 DEF AttachAttachment, Exclusive, Basics, PutOK, Updating
  <2>6. ASSUME NEW r \in Getters PROVE GetOK(r)'
    BY <1>5 DEF AttachAttachment, Exclusive, Basics, GetOK, Reading
  <2> QED BY <2>4, <2>5, <2>6 DEF Basics
<1>6. ASSUME NEW r \in Getters, NEW k \in Keys, GetBegin(r, k)
      PROVE  Basics'
  <2> DEFINE g == [IdleGet EXCEPT !.at = "meta", !.key = k,
                                  !.over = mixed[k] \/ UpdatersOf(k) # {}]
  <2>1. get' = [get EXCEPT ![r] = g]
    BY <1>6 DEF GetBegin
  <2>2. g \in GetStates /\ g.key = k
    BY <1>0, IdleTypes DEF GetStates, IdleGet
  <2> HIDE DEF g
  <2>3. TypeOK'
    BY <1>0, <1>6, <2>1, <2>2, CacheSameType DEF TypeOK, GetBegin
  <2>4. ASSUME NEW v \in Putters PROVE PutOK(v)'
    BY <1>6 DEF GetBegin, Basics, PutOK, Updating
  <2>5. ASSUME NEW q \in Getters PROVE GetOK(q)'
    BY <1>0, <1>6, <2>1, <2>2 DEF GetBegin, Basics, GetOK, Reading
  <2> QED BY <2>3, <2>4, <2>5 DEF Basics
<1>7. ASSUME NEW r \in Getters, GetField(r)
      PROVE  Basics'
  <2> DEFINE g == get[r]
             td == kv[g.key]
  <2>1. /\ g \in GetStates /\ g.key \in Keys /\ td \in MemTiddlers
        /\ g.at \in {"meta", "rev", "text", "hash"}
    BY <1>0, <1>7 DEF GetField, Basics, GetOK, Reading, GetStates
  <2>2. PICK new \in GetStates : get' = [get EXCEPT ![r] = new] /\ new.key = g.key
    <3> DEFINE got == [g.got EXCEPT ![g.at] = td[g.at]]
               q == [g EXCEPT !.got = got]
               new == [q EXCEPT !.at = GetNext[g.at]]
    <3>1. got \in MemTiddlers
      <4>1. g.got \in MemTiddlers
        BY <2>1 DEF GetStates
      <4>2. CASE g.at = "meta"
        BY <2>1, <4>1, <4>2 DEF MemTiddlers
      <4>3. CASE g.at = "rev"
        BY <2>1, <4>1, <4>3 DEF MemTiddlers
      <4>4. CASE g.at = "text"
        BY <2>1, <4>1, <4>4 DEF MemTiddlers
      <4>5. CASE g.at = "hash"
        BY <2>1, <4>1, <4>5 DEF MemTiddlers
      <4> QED BY <2>1, <4>2, <4>3, <4>4, <4>5
    <3>2. get' = [get EXCEPT ![r] = new]
      BY <1>7 DEF GetField
    <3>3. GetNext[g.at] \in {"rev", "text", "hash", "done"}
      BY <2>1 DEF GetNext
    <3> HIDE DEF got
    <3>4. q \in GetStates /\ q.key = g.key
      BY <2>1, <3>1 DEF GetStates
    <3> HIDE DEF q
    <3>5. new \in GetStates /\ new.key = g.key
      BY <3>3, <3>4 DEF GetStates
    <3> HIDE DEF new
    <3> QED BY <3>2, <3>5
  <2>a. CacheTypeOK(MemListings)'
    BY <1>0, <1>7, CacheSameType DEF GetField
  <2>b. get' \in [Getters -> GetStates]
    BY <1>0, <2>2
  <2>c. UNCHANGED <<kv, fileRef, put, handed, owned, rebound, mixed, sent, skipped>>
    BY <1>7 DEF GetField
  <2>3. TypeOK'
    BY <1>0, <2>a, <2>b, <2>c DEF TypeOK
  <2>4. ASSUME NEW v \in Putters PROVE PutOK(v)'
    BY <1>7 DEF GetField, Basics, PutOK, Updating
  <2>5. ASSUME NEW q \in Getters PROVE GetOK(q)'
    BY <1>0, <1>7, <2>1, <2>2 DEF GetField, Basics, GetOK, Reading
  <2> QED BY <2>3, <2>4, <2>5 DEF Basics
<1>b. ASSUME NEW r \in Getters, GetFails(r)
      PROVE  Basics'
  <2>1. get' = [get EXCEPT ![r] = IdleGet]
    BY <1>b DEF GetFails
  <2>2. TypeOK'
    BY <1>0, <1>b, <2>1, IdleTypes, CacheSameType DEF TypeOK, GetFails
  <2>3. ASSUME NEW v \in Putters PROVE PutOK(v)'
    BY <1>b DEF GetFails, Basics, PutOK, Updating
  <2>4. ASSUME NEW q \in Getters PROVE GetOK(q)'
    BY <1>0, <1>b, <2>1, IdleTypes DEF GetFails, Basics, GetOK, Reading
  <2> QED BY <2>2, <2>3, <2>4 DEF Basics
<1>8. ASSUME UNCHANGED memVars, skipped' \subseteq Keys, CacheTypeOK(MemListings)'
      PROVE  Basics'
  <2>1. TypeOK'
    BY <1>0, <1>8 DEF TypeOK, memVars
  <2> QED BY <1>8, <2>1 DEF memVars, Basics, PutOK, GetOK, Updating, Reading
<1>9. ASSUME NEW g \in Listers, RequestList(g) \/ Snapshot(g) \/ AnswerList(g)
      PROVE  Basics'
  <2>1. PICK without : CallList(g) \/ BuildList(g, MemListing(without)) \/ ListStep(g)
    BY <1>9 DEF RequestList, Snapshot, AnswerList
  <2>2. CacheTypeOK(MemListings)'
    BY <1>0, <2>1, CacheStepType, MemListingType
  <2>3. skipped' \subseteq Keys
    BY <1>0, <1>9 DEF RequestList, Snapshot, AnswerList, Torn
  <2> QED BY <1>8, <1>9, <2>2, <2>3 DEF RequestList, Snapshot, AnswerList
<1>10. CASE UNCHANGED vars
  BY <1>0, <1>8, <1>10, CacheSameType DEF vars
<1> QED BY <1>1, <1>2, <1>3, <1>4, <1>5, <1>6, <1>7, <1>b, <1>9, <1>10 DEF Next

(* The store, every Put, Get and listing and the history variables are     *)
(* always well-formed.                                                     *)
THEOREM Always == Spec => []Basics
  BY BasicsInit, BasicsStep, PTL DEF Spec

(* Whatever Puts, Gets, Dels and listings do at the same time, every       *)
(* variable keeps its type: no Put works on a title that is not there.     *)
THEOREM TypeCorrect == Spec => []TypeOK
<1>1. Basics => TypeOK
  BY DEF Basics
<1> QED BY <1>1, Always, PTL

(* An update in place (putExist under RLock) always writes a tiddler that  *)
(* is in the map: no Del and no second create detaches it meanwhile.       *)
THEOREM NoDetachedUpdate == Spec => []UpdatesAttached
<1>1. Basics => UpdatesAttached
  BY DEF Basics, PutOK, UpdatesAttached
<1> QED BY <1>1, Always, PTL

(* While a title is stored its revision never goes back.                   *)
THEOREM RevisionsOnlyGrow == Spec => RevisionsGrow
<1> DEFINE Grow == \A k \in Keys :
             kv[k] # Absent /\ kv'[k] # Absent => kv'[k].rev >= kv[k].rev
<1>1. ASSUME Basics, [Next]_vars PROVE [Grow]_vars
  <2>0. kv \in [Keys -> MemTiddlers \cup {Absent}] /\ put \in [Putters -> PutStates]
    BY <1>1 DEF Basics, TypeOK
  <2>a. \A td \in MemTiddlers : td.rev \in Nat
    BY DEF MemTiddlers
  <2>1. ASSUME NEW w \in Putters, PutLocked(w) PROVE Grow
    <3> DEFINE k == put[w].key
               new == Made(IF kv[k] = Absent THEN 1 ELSE kv[k].rev + 1,
                           Kept(put[w], kv[k]), put[w].file)
    <3>1. kv' = [kv EXCEPT ![k] = new]
      BY <2>1 DEF PutLocked
    <3>2. new.rev = IF kv[k] = Absent THEN 1 ELSE kv[k].rev + 1
      BY DEF Made
    <3> HIDE DEF new
    <3> QED BY <2>0, <2>a, <3>1, <3>2
  <2>2. ASSUME NEW w \in Putters, Update(w) PROVE Grow
    BY <1>1, <2>0, <2>2, <2>a, UpdateShape DEF SomeTiddler, Old
  <2>3. ASSUME NEW k \in Keys, Del(k) PROVE Grow
    BY <2>0, <2>3, <2>a DEF Del
  <2>4. ASSUME NEW k \in Keys, NEW file \in Files, AttachAttachment(k, file) PROVE Grow
    BY <2>0, <2>4, <2>a DEF AttachAttachment, MemTiddlers
  <2>5. ASSUME UNCHANGED kv PROVE Grow
    BY <2>0, <2>5, <2>a
  <2>6. CASE Next
    BY <2>1, <2>2, <2>3, <2>4, <2>5, <2>6
       DEF Next, PutBegin, GetBegin, GetField, GetFails, RequestList, Snapshot, AnswerList, memVars
  <2> QED BY <1>1, <2>6
<1> QED BY <1>1, Always, PTL DEF Spec, RevisionsGrow

-----------------------------------------------------------------------------
(* Only an update that draws one changes the revision its Put holds; it is *)
(* then the one the tiddler has just reached.                              *)
LEMMA UpdateRev ==
  ASSUME Basics, NEW w \in Putters, Update(w)
  PROVE  \/ put'[w].rev = 0
         \/ put'[w].rev = put[w].rev /\ put'[w].key = put[w].key
         \/ /\ put'[w].rev = Old(w).rev + 1 /\ put'[w].key = put[w].key
            /\ kv'[put[w].key].rev = Old(w).rev + 1
<1> DEFINE k == put[w].key
<1>1. /\ put \in [Putters -> PutStates] /\ kv \in [Keys -> MemTiddlers \cup {Absent}]
      /\ k \in Keys
  BY UpdateShape DEF Basics, TypeOK
<1>2. ASSUME NEW at, NEW half, NEW text, NEW rev, Moves(w, at, half, text, rev)
      PROVE  put'[w].rev = rev /\ put'[w].key = k
  BY <1>1, <1>2 DEF Moves, Moved
<1>3. CASE TakesText(w)
  BY <1>2, <1>3 DEF TakesText
<1>4. CASE DrawsRev(w)
  <2>1. put'[w].rev = Old(w).rev + 1 /\ put'[w].key = k
    BY <1>2, <1>4 DEF DrawsRev
  <2>2. kv'[k].rev = Old(w).rev + 1
    BY <1>1, <1>4 DEF DrawsRev, Writes, Fields
  <2> QED BY <2>1, <2>2
<1>5. CASE MetaSize(w) \/ MetaData(w) \/ TextSize(w) \/ TextData(w) \/ HashWord(w) \/ FileSize(w)
  BY <1>2, <1>5 DEF MetaSize, MetaData, TextSize, TextData, HashWord, FileSize
<1>6. CASE FileData(w)
  BY <1>1, <1>6, IdleTypes DEF FileData
<1> QED BY <1>3, <1>4, <1>5, <1>6, UpdateCases

(* Two Puts never hold one revision of a title: it is drawn atomically, is *)
(* greater than all drawn before, and a create excludes every update.      *)
LEMMA RevsStep == Basics /\ RevsDistinct /\ [Next]_vars => RevsDistinct'
<1> SUFFICES ASSUME Basics, RevsDistinct, [Next]_vars PROVE RevsDistinct'
  OBVIOUS
<1>1. /\ kv \in [Keys -> MemTiddlers \cup {Absent}] /\ put \in [Putters -> PutStates]
      /\ \A w \in Putters : put[w].rev \in Nat
  BY DEF Basics, TypeOK, PutStates
<1>2. \A w \in Putters : put[w].rev # 0 =>
        put[w].key \in Keys /\ Updating(w) /\ kv[put[w].key] # Absent
  BY <1>1 DEF Basics, PutOK, Updating, PutStates
<1>3. \A td \in MemTiddlers : td.rev \in Nat
  BY DEF MemTiddlers
<1>4. ASSUME UNCHANGED <<kv, put>> PROVE RevsDistinct'
  BY <1>4 DEF RevsDistinct
<1>5. ASSUME Exclusive, \A w \in Putters : put'[w] \in {put[w], IdlePut}
      PROVE  RevsDistinct'
  <2>1. \A w \in Putters : put'[w].rev = 0
    BY <1>2, <1>5, IdleTypes DEF Exclusive
  <2> QED BY <2>1 DEF RevsDistinct
<1>6. ASSUME NEW w \in Putters, NEW k \in Keys, NEW text \in Texts \cup {Skinny},
             NEW file \in Files \cup {NoFile}, PutBegin(w, k, text, file)
      PROVE  RevsDistinct'
  <2>1. kv' = kv /\ put'[w].rev = 0 /\ \A v \in Putters \ {w} : put'[v] = put[v]
    BY <1>1, <1>6 DEF PutBegin, IdlePut
  <2> QED BY <2>1 DEF RevsDistinct
<1>7. ASSUME NEW w \in Putters, Update(w) PROVE RevsDistinct'
  <2> DEFINE k == put[w].key
  <2>1. PICK td \in MemTiddlers : kv' = [kv EXCEPT ![k] = td] /\ td.rev >= kv[k].rev
    BY <1>7, UpdateShape DEF SomeTiddler, Old
  <2>2. k \in Keys /\ kv[k] \in MemTiddlers
    BY <1>7, UpdateShape DEF Old
  <2>3. \A v \in Putters \ {w} : put'[v] = put[v]
    BY <1>1, <1>7, UpdateShape DEF SomePut
  <2>4. \A j \in Keys : kv[j] # Absent => kv'[j].rev >= kv[j].rev
    BY <1>1, <1>3, <2>1, <2>2
  <2>5. \A v \in Putters : put[v].rev # 0 => put[v].rev <= kv[put[v].key].rev
    BY DEF RevsDistinct
  <2>6. \/ put'[w].rev = 0
        \/ put'[w].rev = put[w].rev /\ put'[w].key = k
        \/ put'[w].rev = kv[k].rev + 1 /\ put'[w].key = k /\ kv'[k].rev = kv[k].rev + 1
    BY <1>7, UpdateRev DEF Old
  <2>7. \A v \in Putters : kv[put[v].key].rev \in Nat \/ put[v].rev = 0
    BY <1>1, <1>2, <1>3
  <2>a. \A v \in Putters : put[v].rev # 0 => kv'[put[v].key].rev \in Nat
    BY <1>1, <1>2, <1>3, <2>1
  <2>8. ASSUME NEW u \in Putters, put'[u].rev # 0
        PROVE  put'[u].rev <= kv'[put'[u].key].rev
    <3>1. CASE u = w
      BY <1>1, <1>2, <1>3, <2>2, <2>4, <2>5, <2>6, <2>7, <2>8, <2>a, <3>1
    <3>2. CASE u # w
      <4>1. put'[u] = put[u]
        BY <2>3, <3>2
      <4>2. put[u].rev <= kv[put[u].key].rev /\ kv'[put[u].key].rev >= kv[put[u].key].rev
        BY <1>2, <2>4, <2>5, <2>8, <4>1
      <4> QED BY <1>1, <2>7, <2>8, <2>a, <4>1, <4>2
    <3> QED BY <3>1, <3>2
  <2>9. ASSUME NEW u \in Putters \ {w}, put[u].key = put'[w].key,
               put[u].rev # 0 \/ put'[w].rev # 0
        PROVE  put[u].rev # put'[w].rev
    <3>1. CASE put'[w].rev = 0
      BY <2>9, <3>1
    <3>2. CASE put'[w].rev = put[w].rev /\ put'[w].key = k
      BY <2>9, <3>2 DEF RevsDistinct
    <3>3. CASE put'[w].rev = kv[k].rev + 1 /\ put'[w].key = k
      BY <1>1, <1>3, <2>2, <2>5, <2>9, <3>3
    <3> QED BY <2>6, <3>1, <3>2, <3>3
  <2>b. ASSUME NEW u \in Putters, NEW v \in Putters, put'[u].rev # 0, v # u,
               put'[v].key = put'[u].key
        PROVE  put'[v].rev # put'[u].rev
    <3>1. CASE u = w \/ v = w
      BY <2>3, <2>9, <2>b, <3>1
    <3>2. CASE u # w /\ v # w
      BY <2>3, <2>b, <3>2 DEF RevsDistinct
    <3> QED BY <3>1, <3>2
  <2> QED BY <2>8, <2>b DEF RevsDistinct
<1>8. ASSUME NEW w \in Putters, PutLocked(w) PROVE RevsDistinct'
  <2>1. \A v \in Putters : put'[v] \in {put[v], IdlePut}
    BY <1>1, <1>8 DEF PutLocked
  <2> QED BY <1>5, <1>8, <2>1 DEF PutLocked
<1>9. ASSUME NEW k \in Keys, Del(k) PROVE RevsDistinct'
  BY <1>5, <1>9 DEF Del
<1>10. ASSUME NEW k \in Keys, NEW file \in Files, AttachAttachment(k, file)
       PROVE  RevsDistinct'
  BY <1>5, <1>10 DEF AttachAttachment
<1> QED
  BY <1>4, <1>6, <1>7, <1>8, <1>9, <1>10
     DEF Next, GetBegin, GetField, GetFails, RequestList, Snapshot, AnswerList, memVars, vars

(* Puts that overlap never answer with the same revision of a title.       *)
THEOREM RevisionsDiffer == Spec => []RevsDistinct
<1>1. Init => RevsDistinct
  BY IdleTypes DEF Init, RevsDistinct
<1>2. Basics /\ RevsDistinct /\ [Next]_vars => RevsDistinct'
  BY RevsStep
<1> QED BY <1>1, <1>2, Always, PTL DEF Spec

-----------------------------------------------------------------------------
(***************************************************************************)
(* Reference counts.  The name a stored tiddler has of its attachment is   *)
(* one the title was bound to, but for a size just written by an update.   *)
(***************************************************************************)
Bound(k, word) == word \in owned[k] \cup {NoFile}

SizeDue(k) ==
  \E w \in UpdatersOf(k) :
    put[w].at = "file" /\ put[w].half /\ put[w].file = kv[k].file.size

OwnedOK ==
  \A k \in Keys : kv[k] # Absent =>
    /\ Bound(k, kv[k].file.data)
    /\ Bound(k, kv[k].file.size) \/ SizeDue(k)

(* What was handed back is forgotten when the next Put begins.             *)
HandOK == handed # NoFile => \A w \in Putters : ~Updating(w)

RefInv == Basics /\ OwnedOK /\ RefsCover /\ HandOK /\ HandedIsUnbound

(* An update leaves the other titles and the other Puts alone ...          *)
LEMMA UpdateFrame ==
  ASSUME Basics, NEW w \in Putters, Update(w)
  PROVE  /\ kv'[put[w].key] \in MemTiddlers
         /\ \A k \in Keys \ {put[w].key} : kv'[k] = kv[k]
         /\ \A k \in Keys : kv'[k] = Absent <=> kv[k] = Absent
         /\ \A v \in Putters \ {w} : put'[v] = put[v]
<1>1. PICK td \in MemTiddlers : kv' = [kv EXCEPT ![put[w].key] = td]
  BY UpdateShape DEF SomeTiddler
<1>2. PICK p \in PutStates : put' = [put EXCEPT ![w] = p]
  BY UpdateShape DEF SomePut
<1>3. /\ kv \in [Keys -> MemTiddlers \cup {Absent}] /\ put \in [Putters -> PutStates]
      /\ put[w].key \in Keys /\ kv[put[w].key] # Absent
  BY UpdateShape DEF Basics, TypeOK, Old
<1> QED BY <1>1, <1>2, <1>3

(* ... and writes the file name last, size first.                          *)
LEMMA UpdateFile ==
  ASSUME Basics, NEW w \in Putters, Update(w)
  PROVE  LET k == put[w].key
             file == put[w].file
         IN
         \/ /\ ~(put[w].at = "file" /\ put[w].half)
            /\ kv'[k].file = kv[k].file
            /\ UNCHANGED <<owned, rebound, sent>>
         \/ /\ ~put[w].half
            /\ kv'[k].file = Words(kv[k].file.data, file)
            /\ put'[w].at = "file" /\ put'[w].half /\ put'[w].key = k /\ put'[w].file = file
            /\ UNCHANGED <<owned, rebound, sent>>
         \/ /\ put[w].at = "file" /\ put[w].half
            /\ kv'[k].file = Words(file, kv[k].file.size)
            /\ owned' = [owned EXCEPT ![k] = @ \cup Named(file)]
            /\ rebound' = rebound \cup (Named(file) \ owned[k])
            /\ sent' = IF put[w].skinny THEN sent ELSE [sent EXCEPT ![k] = put[w].text.data]
            /\ put'[w] = IdlePut
<1> DEFINE k == put[w].key
<1>1. /\ kv \in [Keys -> MemTiddlers \cup {Absent}] /\ put \in [Putters -> PutStates]
      /\ k \in Keys
  BY UpdateShape DEF Basics, TypeOK
<1>2. ASSUME NEW rev, NEW meta, NEW text, NEW hash, NEW file,
             Writes(w, rev, meta, text, hash, file)
      PROVE  kv'[k].file = file
  BY <1>1, <1>2 DEF Writes, Fields
<1>3. ~(put[w].at = "file" /\ put[w].half) => UNCHANGED <<owned, rebound, sent>>
  BY DEF Update, ReadText, IncRev, WriteSize, WriteData, WriteHash, WriteFile
<1>4. CASE TakesText(w)
  BY <1>3, <1>4 DEF TakesText
<1>5. CASE DrawsRev(w)
  BY <1>2, <1>3, <1>5 DEF DrawsRev, Old
<1>6. CASE MetaSize(w) \/ MetaData(w) \/ TextSize(w) \/ TextData(w) \/ HashWord(w)
  BY <1>2, <1>3, <1>6 DEF MetaSize, MetaData, TextSize, TextData, HashWord, Old
<1>7. CASE FileSize(w)
  <2>1. kv'[k].file = Words(kv[k].file.data, put[w].file)
    BY <1>2, <1>7 DEF FileSize, Old
  <2>2. put'[w].at = "file" /\ put'[w].half /\ put'[w].key = k /\ put'[w].file = put[w].file
    BY <1>1, <1>7 DEF FileSize, Moves, Moved
  <2> QED BY <1>3, <1>7, <2>1, <2>2 DEF FileSize
<1>8. CASE FileData(w)
  <2>1. kv'[k].file = Words(put[w].file, kv[k].file.size)
    BY <1>2, <1>8 DEF FileData, Old
  <2>2. put'[w] = IdlePut /\ put[w].at = "file" /\ put[w].half
    BY <1>1, <1>8 DEF FileData
  <2>3. WriteFile(w)
    BY <2>2 DEF Update, ReadText, IncRev, WriteSize, WriteData, WriteHash, WriteFile
  <2> QED BY <2>1, <2>2, <2>3 DEF WriteFile
<1> QED BY <1>4, <1>5, <1>6, <1>7, <1>8, UpdateCases

(* Owners, and what happens to their number.                               *)
Owners(f) == {k \in Keys : f \in owned[k]}

LEMMA OwnersFinite ==
  ASSUME NEW f
  PROVE  /\ IsFiniteSet(Owners(f)) /\ Cardinality(Owners(f)) \in Nat
         /\ IsFiniteSet(Owners(f))' /\ Cardinality(Owners(f))' \in Nat
  BY FS_Subset, FS_CardinalityType DEF Owners

LEMMA CoverKept ==
  ASSUME RefsCover, NEW f \in Files \ rebound, Owners(f)' \subseteq Owners(f),
         fileRef[f] \in Nat, fileRef'[f] \in Nat, fileRef'[f] >= fileRef[f]
  PROVE  (Cardinality(Owners(f)) <= fileRef[f])'
<1>1. Cardinality(Owners(f)') <= Cardinality(Owners(f))
  BY OwnersFinite, FS_Subset
<1>2. Cardinality(Owners(f)) <= fileRef[f]
  BY DEF RefsCover, Owners
<1> QED BY <1>1, <1>2, OwnersFinite

LEMMA CoverPaid ==
  ASSUME RefsCover, NEW f \in Files \ rebound, NEW k, Owners(f)' \subseteq Owners(f) \cup {k},
         fileRef[f] \in Nat, fileRef'[f] = fileRef[f] + 1
  PROVE  (Cardinality(Owners(f)) <= fileRef[f])'
<1> DEFINE old == Owners(f)
           more == old \cup {k}
<1>1. IsFiniteSet(old) /\ Cardinality(old) \in Nat
  BY OwnersFinite
<1>2. Cardinality(old) <= fileRef[f]
  BY DEF RefsCover, Owners
<1> HIDE DEF old
<1>3. IsFiniteSet(more) /\ Cardinality(more) \in Nat
  BY <1>1, FS_AddElement, FS_CardinalityType
<1>4. Cardinality(more) = IF k \in old THEN Cardinality(old) ELSE Cardinality(old) + 1
  BY <1>1, FS_AddElement
<1>5. Cardinality(more) <= fileRef'[f]
  BY <1>1, <1>2, <1>3, <1>4
<1>6. Cardinality(Owners(f)') <= Cardinality(more)
  <2>1. Owners(f)' \in SUBSET more
    BY DEF old
  <2> HIDE DEF more
  <2> QED BY <1>3, <2>1, FS_Subset
<1> HIDE DEF more
<1> QED BY <1>3, <1>5, <1>6, OwnersFinite

LEMMA CoverLeft ==
  ASSUME RefsCover, NEW f \in Files \ rebound, NEW k \in Owners(f),
         Owners(f)' = Owners(f) \ {k},
         fileRef[f] \in Nat, fileRef'[f] \in {fileRef[f], fileRef[f] - 1}
  PROVE  (Cardinality(Owners(f)) <= fileRef[f])'
<1> DEFINE old == Owners(f)
<1>1. IsFiniteSet(old) /\ Cardinality(old) \in Nat
  BY OwnersFinite
<1>2. Cardinality(old) <= fileRef[f]
  BY DEF RefsCover, Owners
<1>3. k \in old
  OBVIOUS
<1>4. Owners(f)' = old \ {k}
  OBVIOUS
<1> HIDE DEF old
<1>5. Cardinality(old \ {k}) = Cardinality(old) - 1
  BY <1>1, <1>3, FS_RemoveElement
<1>6. Cardinality(Owners(f)') = Cardinality(old) - 1
  BY <1>4, <1>5, Zenon
<1>7. fileRef'[f] \in Nat /\ fileRef'[f] >= fileRef[f] - 1
  <2>1. Cardinality(old) # 0
    BY <1>1, <1>3, FS_EmptySet
  <2> QED BY <1>1, <1>2, <2>1
<1> QED BY <1>1, <1>2, <1>6, <1>7

(* Every step keeps the counts sufficient.                                 *)
LEMMA RefInit == Init => RefInv
<1> SUFFICES ASSUME Init PROVE RefInv
  OBVIOUS
<1>1. OwnedOK /\ HandOK /\ HandedIsUnbound
  BY DEF Init, OwnedOK, HandOK, HandedIsUnbound
<1>2. ASSUME NEW f \in Files PROVE Cardinality({k \in Keys : f \in owned[k]}) <= fileRef[f]
  <2>1. {k \in Keys : f \in owned[k]} = {}
    BY DEF Init
  <2>2. fileRef[f] = 0
    BY DEF Init
  <2>3. Cardinality({k \in Keys : f \in owned[k]}) = 0
    BY <2>1, FS_EmptySet, Zenon
  <2> QED BY <2>2, <2>3
<1> QED BY <1>1, <1>2, BasicsInit DEF RefInv, RefsCover

LEMMA RefStep == RefInv /\ [Next]_vars => RefInv'
<1> SUFFICES ASSUME RefInv, [Next]_vars PROVE RefInv'
  OBVIOUS
<1>0. Basics /\ Basics' /\ OwnedOK /\ RefsCover /\ HandOK /\ HandedIsUnbound
  BY BasicsStep DEF RefInv
<1>a. /\ kv \in [Keys -> MemTiddlers \cup {Absent}] /\ put \in [Putters -> PutStates]
      /\ fileRef \in [Files -> Nat] /\ fileRef' \in [Files -> Nat]
      /\ owned \in [Keys -> SUBSET Files] /\ rebound \in SUBSET Files
      /\ NoFile \notin Files
  BY <1>0 DEF Basics, TypeOK
<1>b. handed' = NoFile => HandOK' /\ HandedIsUnbound'
  BY <1>a DEF HandOK, HandedIsUnbound
<1>c. Exclusive => \A k \in Keys : kv[k] # Absent =>
        Bound(k, kv[k].file.data) /\ Bound(k, kv[k].file.size)
  BY <1>0 DEF Exclusive, OwnedOK, SizeDue, UpdatersOf
<1>d. ASSUME \A f \in Files \ rebound' : (Cardinality(Owners(f)) <= fileRef[f])'
      PROVE  RefsCover'
  BY <1>d DEF RefsCover, Owners
<1>1. ASSUME NEW w \in Putters, NEW k \in Keys, NEW text \in Texts \cup {Skinny},
             NEW file \in Files \cup {NoFile}, PutBegin(w, k, text, file)
      PROVE  RefInv'
  <2>1. \A v \in Putters : put[v].at = "file" => put'[v] = put[v]
    BY <1>1, <1>a DEF PutBegin
  <2>2. UNCHANGED <<kv, owned, fileRef, rebound>>
    BY <1>1 DEF PutBegin
  <2>3. OwnedOK'
    BY <1>0, <2>1, <2>2 DEF OwnedOK, Bound, SizeDue, UpdatersOf, Updating
  <2>4. RefsCover'
    BY <1>0, <2>2 DEF RefsCover
  <2> QED BY <1>0, <1>1, <1>b, <2>3, <2>4 DEF PutBegin, RefInv
<1>2. ASSUME NEW w \in Putters, PutLocked(w)
      PROVE  RefInv'
  <2> DEFINE k == put[w].key
             file == put[w].file
             new == Made(IF kv[k] = Absent THEN 1 ELSE kv[k].rev + 1,
                         Kept(put[w], kv[k]), file)
  <2>1. k \in Keys /\ file \in Files \cup {NoFile}
    BY <1>0, <1>2, <1>a DEF PutLocked, Basics, PutOK, PutStates
  <2>2. kv' = [kv EXCEPT ![k] = new] /\ Exclusive
    BY <1>2 DEF PutLocked
  <2>3. new.file = Str(file)
    BY DEF Made
  <2>4. owned' = [owned EXCEPT ![k] = @ \cup Named(file)]
    BY <1>2 DEF PutLocked
  <2> HIDE DEF new
  <2>5. OwnedOK'
    <3>1. ASSUME NEW j \in Keys, kv'[j] # Absent, j # k
          PROVE  kv'[j] = kv[j] /\ owned'[j] = owned[j]
      BY <1>a, <2>2, <2>4, <3>1
    <3>2. kv'[k].file.data = file /\ kv'[k].file.size = file /\ file \in owned'[k] \cup {NoFile}
      BY <1>a, <2>1, <2>2, <2>3, <2>4 DEF Str, Named
    <3> QED BY <1>c, <2>2, <3>1, <3>2 DEF OwnedOK, Bound
  <2>6. RefsCover'
    <3>1. ASSUME NEW f \in Files \ rebound'
          PROVE  (Cardinality(Owners(f)) <= fileRef[f])'
      <4>1. CASE f = file /\ kv[k] = Absent
        <5>1. fileRef'[f] = fileRef[f] + 1 /\ rebound' = rebound
          BY <1>2, <1>a, <3>1, <4>1 DEF PutLocked
        <5>2. Owners(f)' \subseteq Owners(f) \cup {k}
          BY <1>a, <2>4 DEF Owners
        <5> QED BY <1>0, <1>a, <3>1, <5>1, <5>2, CoverPaid
      <4>2. CASE f = file /\ kv[k] # Absent
        <5>1. fileRef' = fileRef /\ rebound' = rebound \cup (Named(file) \ owned[k])
          BY <1>2, <4>2 DEF PutLocked
        <5>2. f \in owned[k] /\ f \notin rebound
          BY <1>a, <3>1, <4>2, <5>1 DEF Named
        <5>3. Owners(f)' \subseteq Owners(f)
          BY <1>a, <2>4, <5>2 DEF Owners
        <5> QED BY <1>0, <1>a, <3>1, <5>1, <5>2, <5>3, CoverKept
      <4>3. CASE f # file
        <5>1. fileRef'[f] = fileRef[f] /\ f \notin rebound
          BY <1>2, <1>a, <2>1, <3>1, <4>3 DEF PutLocked
        <5>2. Owners(f)' \subseteq Owners(f)
          BY <1>a, <2>4, <4>3 DEF Owners, Named
        <5> QED BY <1>0, <1>a, <3>1, <5>1, <5>2, CoverKept
      <4> QED BY <4>1, <4>2, <4>3
    <3> QED BY <1>d, <3>1
  <2> QED BY <1>0, <1>2, <1>b, <2>5, <2>6 DEF PutLocked, RefInv
<1>3. ASSUME NEW w \in Putters, Update(w)
      PROVE  RefInv'
  <2>0. PICK k \in Keys, file \in Files \cup {NoFile} : k = put[w].key /\ file = put[w].file
    BY <1>0, <1>3, <1>a, UpdateShape DEF PutStates
  <2>1. /\ kv[k] \in MemTiddlers /\ kv[k] # Absent
        /\ Updating(w) /\ fileRef' = fileRef /\ handed' = handed
    BY <1>0, <1>3, <2>0, UpdateShape DEF Old, Basics, PutOK
  <2>2. /\ \A j \in Keys \ {k} : kv'[j] = kv[j]
        /\ \A v \in Putters \ {w} : put'[v] = put[v]
        /\ \A j \in Keys : kv'[j] # Absent => kv[j] # Absent
    BY <1>0, <1>3, <2>0, UpdateFrame
  <2>3. \/ /\ ~(put[w].at = "file" /\ put[w].half) /\ kv'[k].file = kv[k].file
           /\ owned' = owned /\ rebound' = rebound
        \/ /\ ~put[w].half /\ kv'[k].file = Words(kv[k].file.data, file)
           /\ put'[w].at = "file" /\ put'[w].half /\ put'[w].key = k /\ put'[w].file = file
           /\ owned' = owned /\ rebound' = rebound
        \/ /\ put[w].at = "file" /\ put[w].half
           /\ kv'[k].file = Words(file, kv[k].file.size)
           /\ owned' = [owned EXCEPT ![k] = @ \cup Named(file)]
           /\ rebound' = rebound \cup (Named(file) \ owned[k])
    BY <1>0, <1>3, <2>0, UpdateFile
  <2>4. \A j \in Keys : owned[j] \subseteq owned'[j] /\ (j # k => owned'[j] = owned[j])
    BY <1>a, <2>1, <2>3
  <2>5. ASSUME NEW j \in Keys, SizeDue(j), j # k \/ ~(put[w].at = "file" /\ put[w].half),
               kv'[j].file.size = kv[j].file.size
        PROVE  SizeDue(j)'
    BY <2>0, <2>2, <2>5 DEF SizeDue, UpdatersOf, Updating
  <2>6. ASSUME NEW j \in Keys \ {k}, kv'[j] # Absent
        PROVE  (Bound(j, kv[j].file.data) /\ (Bound(j, kv[j].file.size) \/ SizeDue(j)))'
    BY <1>0, <2>2, <2>4, <2>5, <2>6 DEF OwnedOK, Bound
  <2>7. Bound(k, kv[k].file.data) /\ (Bound(k, kv[k].file.size) \/ SizeDue(k))
    BY <1>0, <2>1 DEF OwnedOK
  <2>8. (Bound(k, kv[k].file.data) /\ (Bound(k, kv[k].file.size) \/ SizeDue(k)))'
    <3>1. CASE ~(put[w].at = "file" /\ put[w].half) /\ kv'[k].file = kv[k].file
      BY <2>1, <2>4, <2>5, <2>7, <3>1 DEF Bound
    <3>2. CASE /\ kv'[k].file = Words(kv[k].file.data, file)
               /\ put'[w].at = "file" /\ put'[w].half /\ put'[w].key = k /\ put'[w].file = file
      <4>1. SizeDue(k)'
        BY <2>0, <3>2 DEF SizeDue, UpdatersOf, Updating, Words
      <4>2. kv'[k].file.data = kv[k].file.data
        BY <3>2 DEF Words
      <4> QED BY <2>1, <2>4, <2>7, <4>1, <4>2 DEF Bound
    <3>3. CASE /\ kv'[k].file = Words(file, kv[k].file.size)
               /\ put[w].at = "file" /\ put[w].half
               /\ owned' = [owned EXCEPT ![k] = @ \cup Named(file)]
      <4>1. kv'[k].file.data = file /\ kv'[k].file.size = kv[k].file.size
        BY <3>3 DEF Words
      <4>2. file \in owned'[k] \cup {NoFile}
        BY <1>a, <2>1, <3>3 DEF Named
      <4>3. CASE Bound(k, kv[k].file.size)
        BY <2>1, <2>4, <4>1, <4>2, <4>3 DEF Bound
      <4>4. CASE SizeDue(k)
        <5>1. PICK v \in Putters : /\ Updating(v) /\ put[v].key = k /\ put[v].at = "file"
                                   /\ put[v].half /\ put[v].file = kv[k].file.size
          BY <4>4 DEF SizeDue, UpdatersOf
        <5>2. CASE v = w
          BY <2>0, <4>1, <4>2, <5>1, <5>2 DEF Bound
        <5>3. CASE v # w
          BY <2>0, <2>2, <4>1, <4>2, <5>1, <5>3 DEF Bound, SizeDue, UpdatersOf, Updating
        <5> QED BY <5>2, <5>3
      <4> QED BY <2>7, <4>3, <4>4
    <3> QED BY <2>3, <3>1, <3>2, <3>3
  <2>9. OwnedOK'
    BY <2>6, <2>8 DEF OwnedOK
  <2>10. RefsCover'
    <3>1. ASSUME NEW f \in Files \ rebound'
          PROVE  (Cardinality(Owners(f)) <= fileRef[f])'
      <4>1. f \notin rebound /\ Owners(f)' \subseteq Owners(f)
        BY <1>a, <2>1, <2>3, <3>1 DEF Owners, Named
      <4> QED BY <1>0, <1>a, <2>1, <3>1, <4>1, CoverKept
    <3> QED BY <1>d, <3>1
  <2>11. handed' = NoFile
    BY <1>0, <2>1 DEF HandOK
  <2> QED BY <1>0, <1>b, <2>9, <2>10, <2>11 DEF RefInv
<1>4. ASSUME NEW k \in Keys, Del(k)
      PROVE  RefInv'
  <2> DEFINE file == NameOf(kv[k].file)
  <2>1. /\ Exclusive /\ kv[k] # Absent /\ file \in owned[k] \cup {NoFile}
        /\ kv' = [kv EXCEPT ![k] = Absent] /\ owned' = [owned EXCEPT ![k] = {}]
        /\ put' = put /\ rebound' = rebound
    BY <1>4, <1>c DEF Del, Bound, NameOf
  <2>2. /\ \/ file = NoFile /\ fileRef' = fileRef
           \/ fileRef[file] = 0 /\ fileRef' = fileRef
           \/ fileRef' = [fileRef EXCEPT ![file] = @ - 1] /\ fileRef[file] > 0
        /\ handed' # NoFile => handed' = file /\ fileRef'[file] = 0 /\ file \in Files
    <3>1. file = NoFile \/ file \in Files
      BY <1>a, <2>1
    <3> QED BY <1>4, <1>a, <3>1 DEF Del
  <2> HIDE DEF file
  <2>3. OwnedOK'
    BY <1>a, <1>c, <2>1 DEF OwnedOK, Bound
  <2>4. RefsCover'
    <3>1. ASSUME NEW f \in Files \ rebound'
          PROVE  (Cardinality(Owners(f)) <= fileRef[f])'
      <4>0. f \in Files \ rebound /\ Owners(f)' = Owners(f) \ {k}
        BY <1>a, <2>1, <3>1 DEF Owners
      <4>1. CASE f = file
        <5>1. k \in Owners(f)
          BY <1>a, <2>1, <4>1 DEF Owners
        <5>2. fileRef'[f] \in {fileRef[f], fileRef[f] - 1}
          BY <1>a, <2>2, <4>1
        <5> QED BY <1>0, <1>a, <4>0, <5>1, <5>2, CoverLeft
      <4>2. CASE f # file
        <5>1. fileRef'[f] = fileRef[f]
          BY <1>a, <2>2, <4>0, <4>2
        <5>2. Owners(f)' \subseteq Owners(f)
          BY <4>0
        <5> QED BY <1>0, <1>a, <2>1, <3>1, <5>1, <5>2, CoverKept
      <4> QED BY <4>1, <4>2
    <3> QED BY <1>d, <3>1
  <2>5. HandOK'
    BY <2>1 DEF HandOK, Exclusive, Updating
  <2>6. HandedIsUnbound'
    <3>1. ASSUME NEW f \in Files \ rebound', f = handed', NEW j \in Keys, kv'[j] # Absent
          PROVE  f \notin {kv'[j].file.data, kv'[j].file.size}
      <4>1. Cardinality(Owners(f))' = 0
        <5>1. fileRef'[f] = 0
          BY <1>a, <2>2, <3>1
        <5>2. (Cardinality(Owners(f)) <= fileRef[f])'
          BY <2>4, <3>1 DEF RefsCover, Owners
        <5> QED BY <5>1, <5>2, OwnersFinite
      <4>2. Owners(f)' = {}
        BY <4>1, OwnersFinite, FS_EmptySet
      <4>3. f \notin owned'[j]
        BY <4>2 DEF Owners
      <4>4. kv'[j] = kv[j] /\ owned'[j] = owned[j]
        BY <1>a, <2>1, <3>1
      <4> QED BY <1>a, <1>c, <2>1, <3>1, <4>3, <4>4 DEF Bound
    <3> QED BY <3>1 DEF HandedIsUnbound
  <2> QED BY <1>0, <2>3, <2>4, <2>5, <2>6 DEF RefInv
<1>5. ASSUME NEW k \in Keys, NEW file \in Files, AttachAttachment(k, file)
      PROVE  RefInv'
  <2>1. /\ Exclusive /\ kv[k] \in MemTiddlers
        /\ kv' = [kv EXCEPT ![k].file = Str(file)] /\ rebound' = rebound
        /\ owned' = [owned EXCEPT ![k] = @ \cup {file}]
        /\ fileRef' = [fileRef EXCEPT ![file] = @ + 1]
    BY <1>5, <1>a DEF AttachAttachment
  <2>2. OwnedOK'
    <3>1. kv'[k].file.data = file /\ kv'[k].file.size = file
      BY <1>a, <2>1 DEF MemTiddlers, Str
    <3>2. \A j \in Keys \ {k} : kv'[j] = kv[j] /\ owned'[j] = owned[j]
      BY <1>a, <2>1
    <3> QED BY <1>a, <1>c, <2>1, <3>1, <3>2 DEF OwnedOK, Bound
  <2>3. RefsCover'
    <3>1. ASSUME NEW f \in Files \ rebound'
          PROVE  (Cardinality(Owners(f)) <= fileRef[f])'
      <4>1. CASE f = file
        <5>1. Owners(f)' \subseteq Owners(f) \cup {k} /\ fileRef'[f] = fileRef[f] + 1
          BY <1>a, <2>1, <4>1 DEF Owners
        <5> QED BY <1>0, <1>a, <2>1, <3>1, <5>1, CoverPaid
      <4>2. CASE f # file
        <5>1. Owners(f)' \subseteq Owners(f) /\ fileRef'[f] = fileRef[f]
          BY <1>a, <2>1, <4>2 DEF Owners
        <5> QED BY <1>0, <1>a, <2>1, <3>1, <5>1, CoverKept
      <4> QED BY <4>1, <4>2
    <3> QED BY <1>d, <3>1
  <2> QED BY <1>0, <1>5, <1>b, <2>2, <2>3 DEF AttachAttachment, RefInv
<1>6. ASSUME UNCHANGED <<kv, fileRef, put, handed, owned, rebound>>
      PROVE  RefInv'
  <2>1. OwnedOK' /\ HandOK' /\ HandedIsUnbound'
    BY <1>0, <1>6
       DEF OwnedOK, Bound, SizeDue, UpdatersOf, HandOK, HandedIsUnbound, Updating
  <2> QED BY <1>0, <1>6, <2>1 DEF RefInv, RefsCover
<1> QED
  BY <1>1, <1>2, <1>3, <1>4, <1>5, <1>6
     DEF Next, GetBegin, GetField, GetFails, RequestList, Snapshot, AnswerList, memVars, vars

(* The count of an attachment stays at least the number of titles that may *)
(* be bound to it, unless an update bound it to a title uncounted.         *)
THEOREM RefsSufficient == Spec => []RefsCover
<1>1. RefInv => RefsCover
  BY DEF RefInv
<1> QED BY <1>1, RefInit, RefStep, PTL DEF Spec

(* What Del hands back for removal ("for removing file if tiddler delete") *)
(* no stored tiddler refers to, under the same condition.                  *)
THEOREM HandedSafe == Spec => []HandedIsUnbound
<1>1. RefInv => HandedIsUnbound
  BY DEF RefInv
<1> QED BY <1>1, RefInit, RefStep, PTL DEF Spec

-----------------------------------------------------------------------------
(***************************************************************************)
(* What a Put leaves.  An update that met no other one of its title has    *)
(* the tiddler for itself: word by word it takes the revision, the meta,   *)
(* the text and the hash of the Put, whatever was there before.            *)
(***************************************************************************)
SentWhole(w) ==
  /\ ~put[w].skinny \/ put[w].at = "lock" => Whole(put[w].text)
  /\ put[w].at = "skinny" => put[w].skinny

Sole(w) == \A v \in UpdatersOf(put[w].key) : v = w

(* The text the Put is going to leave is the last one sent, or its own.    *)
TextKept(w) ==
  LET p == put[w] IN
  p.skinny => Str(sent[p.key]) = IF p.at = "skinny" THEN kv[p.key].text ELSE p.text

(* How far the update has come.                                            *)
RevWritten(w) == put[w].at \in {"meta", "text", "hash", "file"} => Old(w).rev = put[w].rev
MetaWritten(w) ==
  LET p == put[w] IN
  /\ p.at = "meta" /\ p.half => Old(w).meta.size = p.rev
  /\ p.at \in {"text", "hash", "file"} => Old(w).meta = Str(p.rev)
TextWritten(w) ==
  LET p == put[w] IN
  /\ p.at = "text" /\ p.half => Old(w).text.size = p.text.size
  /\ p.at \in {"hash", "file"} => Old(w).text = p.text
HashWritten(w) ==
  put[w].at = "file" => Old(w).hash = HashOf(put[w].rev, put[w].text)

Alone(w) ==
  /\ Sole(w) /\ TextKept(w)
  /\ RevWritten(w) /\ MetaWritten(w) /\ TextWritten(w) /\ HashWritten(w)

(* A title nobody is updating.                                             *)
Settled(k) ==
  IF kv[k] = Absent THEN sent[k] = Absent
  ELSE Consistent(kv[k]) /\ kv[k].text = Str(sent[k])

UpdateInv ==
  /\ Basics
  /\ \A w \in Putters : SentWhole(w)
  /\ \A w \in Putters : Updating(w) /\ ~mixed[put[w].key] => Alone(w)
  /\ \A k \in Keys : UpdatersOf(k) = {} /\ ~mixed[k] => Settled(k)

(* A Get that nobody disturbs has read fields of one consistent tiddler.   *)
ReadSoFar(r) ==
  LET g == get[r] IN
  /\ g.at \in {"rev", "text", "hash"} => g.got.meta = kv[g.key].meta
  /\ g.at \in {"text", "hash"} => g.got.rev = kv[g.key].rev
  /\ g.at = "hash" => g.got.text = kv[g.key].text

GetInv ==
  /\ UpdateInv
  /\ GetConsistent
  /\ \A r \in Getters : Reading(r) /\ ~get[r].over =>
       UpdatersOf(get[r].key) = {} /\ ~mixed[get[r].key] /\ ReadSoFar(r)

(* The fields of what a step of an update leaves.                          *)
LEMMA WrittenFields ==
  ASSUME Basics, NEW w \in Putters, put[w].key \in Keys,
         NEW rev, NEW meta, NEW text, NEW hash, NEW file,
         Writes(w, rev, meta, text, hash, file)
  PROVE  LET td == kv'[put[w].key]
         IN  /\ td.rev = rev /\ td.meta = meta /\ td.text = text
             /\ td.hash = hash /\ td.file = file
  BY DEF Basics, TypeOK, Writes, Fields

LEMMA MovedFields ==
  ASSUME Basics, NEW w \in Putters,
         NEW at, NEW half, NEW text, NEW rev, Moves(w, at, half, text, rev)
  PROVE  /\ put'[w].at = at /\ put'[w].half = half /\ put'[w].text = text
         /\ put'[w].rev = rev /\ put'[w].key = put[w].key
         /\ put'[w].skinny = put[w].skinny /\ put'[w].file = put[w].file
  BY DEF Basics, TypeOK, Moves, Moved

(* Two words of one value are its string.                                  *)
LEMMA WordsMeet ==
  /\ \A x : Words(x, x) = Str(x)
  /\ \A S : \A s \in Strings(S) : Words(s.data, s.size) = s /\ (Whole(s) => s = Str(s.data))
  BY DEF Words, Str, Strings, Whole

(* An update that is alone comes one word further, or leaves its title     *)
(* settled.                                                                *)
LEMMA AloneStep ==
  ASSUME Basics, NEW w \in Putters, Update(w), SentWhole(w), Alone(w),
         NEW k \in Keys, k = put[w].key
  PROVE  /\ SentWhole(w)'
         /\ Updating(w)' => /\ put'[w].key = k /\ TextKept(w)' /\ RevWritten(w)'
                            /\ MetaWritten(w)' /\ TextWritten(w)' /\ HashWritten(w)'
         /\ ~Updating(w)' => Settled(k)'
<1> DEFINE td == kv[k]
           new == kv'[k]
           p == put[w]
           q == put'[w]
<1>0. /\ kv \in [Keys -> MemTiddlers \cup {Absent}] /\ put \in [Putters -> PutStates]
      /\ td \in MemTiddlers /\ p \in PutStates /\ p.text \in MemTexts
      /\ sent \in [Keys -> Texts \cup {Absent}]
  BY UpdateShape DEF Basics, TypeOK, Old, PutStates
<1>1. /\ p.at = "meta" /\ p.half => td.meta.size = p.rev
      /\ p.at \in {"text", "hash", "file"} => td.meta = Str(p.rev)
      /\ p.at = "text" /\ p.half => td.text.size = p.text.size
      /\ p.at \in {"hash", "file"} => td.text = p.text
      /\ p.at = "file" => td.hash = HashOf(p.rev, p.text)
      /\ p.at \in {"meta", "text", "hash", "file"} => td.rev = p.rev
      /\ p.skinny => Str(sent[k]) = IF p.at = "skinny" THEN td.text ELSE p.text
      /\ ~p.skinny => Whole(p.text) /\ p.at # "skinny"
  BY DEF Alone, TextKept, RevWritten, MetaWritten, TextWritten, HashWritten, Old, SentWhole
<1>2. ASSUME q.at \notin {"idle", "lock"}, q.key = k, q.skinny = p.skinny, sent' = sent,
             ~q.skinny => Whole(q.text) /\ q.at # "skinny",
             q.skinny => Str(sent[k]) = IF q.at = "skinny" THEN new.text ELSE q.text,
             q.at \in {"meta", "text", "hash", "file"} => new.rev = q.rev,
             q.at = "meta" /\ q.half => new.meta.size = q.rev,
             q.at \in {"text", "hash", "file"} => new.meta = Str(q.rev),
             q.at = "text" /\ q.half => new.text.size = q.text.size,
             q.at \in {"hash", "file"} => new.text = q.text,
             q.at = "file" => new.hash = HashOf(q.rev, q.text)
      PROVE  /\ SentWhole(w)' /\ Updating(w)' /\ q.key = k
             /\ TextKept(w)' /\ RevWritten(w)' /\ MetaWritten(w)' /\ TextWritten(w)'
             /\ HashWritten(w)'
  BY <1>2 DEF TextKept, RevWritten, MetaWritten, TextWritten, HashWritten, Old, SentWhole, Updating
<1>3. ASSUME NEW at, NEW half, NEW text, NEW rev, Moves(w, at, half, text, rev)
      PROVE  /\ q.at = at /\ q.half = half /\ q.text = text /\ q.rev = rev
             /\ q.key = k /\ q.skinny = p.skinny
  BY <1>3, MovedFields
<1>4. ASSUME NEW rev, NEW meta, NEW text, NEW hash, NEW file,
             Writes(w, rev, meta, text, hash, file)
      PROVE  /\ new.rev = rev /\ new.meta = meta /\ new.text = text /\ new.hash = hash
  BY <1>4, WrittenFields
<1>5. ~(p.at = "file" /\ p.half) => sent' = sent
  BY UpdateFile
<1>6. /\ Words(p.rev, p.rev) = Str(p.rev) /\ Words(p.text.data, p.text.size) = p.text
      /\ \A n : Words(n, td.meta.size).size = td.meta.size
      /\ \A n : Words(td.meta.data, n).size = n /\ Words(td.text.data, n).size = n
      /\ Whole(p.text) => p.text = Str(p.text.data)
  BY <1>0, WordsMeet DEF MemTexts, Words
<1> HIDE DEF td, new, p, q
<1>7. CASE TakesText(w)
  <2>1. /\ p.at = "skinny" /\ p.skinny /\ q.at = "rev" /\ q.text = td.text
        /\ q.key = k /\ q.skinny = p.skinny
    BY <1>1, <1>3, <1>7 DEF TakesText, Old, p, td
  <2> QED BY <1>1, <1>2, <1>5, <2>1 DEF q, Updating
<1>8. CASE DrawsRev(w)
  <2>1. /\ p.at = "rev" /\ q.at = "meta" /\ ~q.half /\ q.text = p.text /\ q.rev = td.rev + 1
        /\ q.key = k /\ q.skinny = p.skinny
    BY <1>3, <1>8 DEF DrawsRev, Old, p, td
  <2>2. new.rev = td.rev + 1
    BY <1>4, <1>8 DEF DrawsRev, Old, td
  <2> QED BY <1>1, <1>2, <1>5, <2>1, <2>2 DEF q, Updating
<1>9. CASE MetaSize(w)
  <2>1. /\ p.at = "meta" /\ q.at = "meta" /\ q.text = p.text /\ q.rev = p.rev
        /\ q.key = k /\ q.skinny = p.skinny
    BY <1>3, <1>9 DEF MetaSize, p
  <2>2. new.rev = td.rev /\ new.meta = Words(td.meta.data, p.rev)
    BY <1>4, <1>9 DEF MetaSize, Old, td, p
  <2> QED BY <1>1, <1>2, <1>5, <1>6, <2>1, <2>2 DEF q, Updating
<1>10. CASE MetaData(w)
  <2>1. /\ p.at = "meta" /\ p.half /\ q.at = "text" /\ ~q.half /\ q.text = p.text
        /\ q.rev = p.rev /\ q.key = k /\ q.skinny = p.skinny
    BY <1>3, <1>10 DEF MetaData, p
  <2>2. new.rev = td.rev /\ new.meta = Words(p.rev, td.meta.size)
    BY <1>4, <1>10 DEF MetaData, Old, td, p
  <2> QED BY <1>1, <1>2, <1>5, <1>6, <2>1, <2>2 DEF q, Updating
<1>11. CASE TextSize(w)
  <2>1. /\ p.at = "text" /\ q.at = "text" /\ q.text = p.text
        /\ q.rev = p.rev /\ q.key = k /\ q.skinny = p.skinny
    BY <1>3, <1>11 DEF TextSize, p
  <2>2. /\ new.rev = td.rev /\ new.meta = td.meta
        /\ new.text = Words(td.text.data, p.text.size)
    BY <1>4, <1>11 DEF TextSize, Old, td, p
  <2> QED BY <1>1, <1>2, <1>5, <1>6, <2>1, <2>2 DEF q, Updating
<1>12. CASE TextData(w)
  <2>1. /\ p.at = "text" /\ p.half /\ q.at = "hash" /\ q.text = p.text
        /\ q.rev = p.rev /\ q.key = k /\ q.skinny = p.skinny
    BY <1>3, <1>12 DEF TextData, p
  <2>2. /\ new.rev = td.rev /\ new.meta = td.meta
        /\ new.text = Words(p.text.data, td.text.size)
    BY <1>4, <1>12 DEF TextData, Old, td, p
  <2> QED BY <1>1, <1>2, <1>5, <1>6, <2>1, <2>2 DEF q, Updating
<1>13. CASE HashWord(w)
  <2>1. /\ p.at = "hash" /\ q.at = "file" /\ q.text = p.text
        /\ q.rev = p.rev /\ q.key = k /\ q.skinny = p.skinny
    BY <1>3, <1>13 DEF HashWord, p
  <2>2. /\ new.rev = td.rev /\ new.meta = td.meta /\ new.text = td.text
        /\ new.hash = HashOf(p.rev, p.text)
    BY <1>4, <1>13 DEF HashWord, Old, td, p
  <2> QED BY <1>1, <1>2, <1>5, <2>1, <2>2 DEF q, Updating
<1>14. CASE FileSize(w)
  <2>1. /\ p.at = "file" /\ ~p.half /\ q.at = "file" /\ q.text = p.text
        /\ q.rev = p.rev /\ q.key = k /\ q.skinny = p.skinny
    BY <1>3, <1>14 DEF FileSize, p
  <2>2. /\ new.rev = td.rev /\ new.meta = td.meta /\ new.text = td.text
        /\ new.hash = td.hash
    BY <1>4, <1>14 DEF FileSize, Old, td, p
  <2> QED BY <1>1, <1>2, <1>5, <2>1, <2>2 DEF q, Updating
<1>15. CASE FileData(w)
  <2>1. p.at = "file" /\ p.half /\ q = IdlePut
    BY <1>0, <1>15 DEF FileData, p, q
  <2>2. /\ new.rev = td.rev /\ new.meta = td.meta /\ new.text = td.text
        /\ new.hash = td.hash
    BY <1>4, <1>15 DEF FileData, Old, td, p
  <2>3. SentWhole(w)' /\ ~Updating(w)'
    BY <2>1, StrType DEF SentWhole, Updating, IdlePut, q
  <2>4. sent'[k] = IF p.skinny THEN sent[k] ELSE p.text.data
    BY <1>0, <2>1, UpdateFile DEF p
  <2>5. p.text = Str(sent'[k])
    BY <1>1, <1>6, <2>1, <2>4
  <2>6. Consistent(new) /\ new.text = Str(sent'[k])
    BY <1>1, <2>1, <2>2, <2>5, StrType DEF Consistent
  <2>7. new # Absent
    BY UpdateFrame DEF new
  <2>8. Settled(k)'
    BY <2>6, <2>7 DEF Settled, new
  <2> QED BY <2>3, <2>8
<1> QED BY <1>7, <1>8, <1>9, <1>10, <1>11, <1>12, <1>13, <1>14, <1>15, UpdateCases

(* The text of a Put stays whole, unless it is the old one of the tiddler.  *)
LEMMA SentStep ==
  ASSUME Basics, NEW w \in Putters, Update(w), SentWhole(w)
  PROVE  SentWhole(w)'
<1>0. ASSUME NEW at, NEW half, NEW text, NEW rev, Moves(w, at, half, text, rev)
      PROVE  put'[w].at = at /\ put'[w].text = text /\ put'[w].skinny = put[w].skinny
  BY <1>0, MovedFields
<1>1. ASSUME put'[w].at \notin {"skinny", "lock"}, put'[w].skinny = put[w].skinny,
             put'[w].text = put[w].text \/ put[w].at = "skinny"
      PROVE  SentWhole(w)'
  BY <1>1 DEF SentWhole
<1>2. CASE TakesText(w)
  <2>1. put'[w].at = "rev" /\ put'[w].skinny = put[w].skinny
    BY <1>0, <1>2 DEF TakesText
  <2> QED BY <1>1, <1>2, <2>1 DEF TakesText
<1>3. CASE DrawsRev(w)
  <2>1. /\ put'[w].at = "meta" /\ put'[w].skinny = put[w].skinny
        /\ put'[w].text = put[w].text
    BY <1>0, <1>3 DEF DrawsRev
  <2> QED BY <1>1, <2>1
<1>4. CASE MetaSize(w) \/ MetaData(w) \/ TextSize(w) \/ TextData(w) \/ HashWord(w) \/ FileSize(w)
  <2>1. /\ put'[w].at \in {"meta", "text", "hash", "file"}
        /\ put'[w].skinny = put[w].skinny /\ put'[w].text = put[w].text
    BY <1>0, <1>4 DEF MetaSize, MetaData, TextSize, TextData, HashWord, FileSize
  <2> QED BY <1>1, <2>1
<1>5. CASE FileData(w)
  <2>1. put'[w] = IdlePut
    BY <1>5 DEF FileData, Basics, TypeOK
  <2> QED BY <2>1 DEF SentWhole, IdlePut, Str, Whole
<1> QED BY <1>2, <1>3, <1>4, <1>5, UpdateCases

(* A new store is in order.                                                *)
LEMMA UpdateInit == Init => UpdateInv
<1> SUFFICES ASSUME Init PROVE UpdateInv
  OBVIOUS
<1>1. \A w \in Putters : SentWhole(w) /\ ~Updating(w)
  BY IdleTypes, StrType DEF Init, SentWhole, Updating, IdlePut
<1>2. \A k \in Keys : Settled(k)
  BY DEF Init, Settled
<1> QED BY <1>1, <1>2, BasicsInit DEF UpdateInv

(* Every step keeps what is stored in order.                               *)
LEMMA UpdateStep == UpdateInv /\ [Next]_vars => UpdateInv'
<1> SUFFICES ASSUME UpdateInv, [Next]_vars PROVE UpdateInv'
  OBVIOUS
<1>0. /\ Basics /\ Basics' /\ \A w \in Putters : SentWhole(w)
      /\ \A w \in Putters : Updating(w) /\ ~mixed[put[w].key] => Alone(w)
      /\ \A k \in Keys : UpdatersOf(k) = {} /\ ~mixed[k] => Settled(k)
  BY BasicsStep DEF UpdateInv
<1>a. /\ kv \in [Keys -> MemTiddlers \cup {Absent}] /\ put \in [Putters -> PutStates]
      /\ mixed \in [Keys -> BOOLEAN] /\ sent \in [Keys -> Texts \cup {Absent}]
      /\ \A w \in Putters : Updating(w) => put[w].key \in Keys
  BY <1>0 DEF Basics, TypeOK, PutOK, Updating
<1>b. ASSUME NEW w \in Putters, NEW k \in Keys, k = put[w].key, put'[w] = put[w], kv'[k] = kv[k],
             sent'[k] = sent[k], \A v \in Putters : put'[v] = put[v] \/ ~Updating(v)' \/
                                                    put'[v].key # k, Alone(w)
      PROVE  Alone(w)'
  <2>1. Sole(w)'
    BY <1>b DEF Alone, Sole, UpdatersOf, Updating
  <2>2. TextKept(w)'
    BY <1>b DEF Alone, TextKept
  <2>3. RevWritten(w)' /\ MetaWritten(w)' /\ TextWritten(w)' /\ HashWritten(w)'
    BY <1>b DEF Alone, RevWritten, MetaWritten, TextWritten, HashWritten, Old
  <2> QED BY <2>1, <2>2, <2>3 DEF Alone
<1>c. ASSUME \A w \in Putters : ~Updating(w)',
             \A w \in Putters : put'[w] \in {put[w], IdlePut},
             \A k \in Keys : UpdatersOf(k) = {} /\ ~mixed'[k] => Settled(k)',
             Exclusive
      PROVE  UpdateInv'
  <2>a. ~IdlePut.skinny /\ IdlePut.at = "idle" /\ Whole(IdlePut.text)
    BY DEF IdlePut, Str, Whole
  <2>1. \A w \in Putters : SentWhole(w)'
    BY <1>0, <1>c, <2>a DEF SentWhole
  <2>2. \A k \in Keys : UpdatersOf(k) = {}
    BY <1>c DEF Exclusive, UpdatersOf
  <2> QED BY <1>0, <1>c, <2>1, <2>2 DEF UpdateInv
<1>1. ASSUME NEW w \in Putters, NEW k \in Keys, NEW text \in Texts \cup {Skinny},
             NEW file \in Files \cup {NoFile}, PutBegin(w, k, text, file)
      PROVE  UpdateInv'
  <2>1. /\ put[w].at = "idle" /\ UNCHANGED <<kv, sent>>
        /\ \A v \in Putters \ {w} : put'[v] = put[v]
    BY <1>1, <1>a DEF PutBegin
  <2>2. /\ put'[w].key = k /\ put'[w].skinny = (text = Skinny)
        /\ put'[w].at = IF kv[k] = Absent THEN "lock"
                        ELSE IF text = Skinny THEN "skinny" ELSE "rev"
        /\ put'[w].text = Str(IF text = Skinny THEN EmptyText ELSE text)
    BY <1>1, <1>a DEF PutBegin, IdlePut
  <2>3. /\ \A j \in Keys \ {k} : mixed'[j] = mixed[j]
        /\ kv[k] = Absent => mixed'[k] = mixed[k]
        /\ kv[k] # Absent /\ ~mixed'[k] =>
             UpdatersOf(k) = {} /\ (~mixed[k] \/ text # Skinny)
    BY <1>1, <1>a DEF PutBegin
  <2>4. ASSUME NEW v \in Putters PROVE SentWhole(v)'
    <3>1. CASE v = w
      <4>1. Whole(put'[w].text)
        BY <2>2 DEF Str, Whole
      <4>2. put'[w].at = "skinny" => text = Skinny
        BY <2>2
      <4>3. put'[w].at = "skinny" => put'[w].skinny
        BY <2>2, <4>2, Zenon
      <4> QED BY <3>1, <4>1, <4>3 DEF SentWhole
    <3>2. CASE v # w
      BY <1>0, <2>1, <3>2 DEF SentWhole
    <3> QED BY <3>1, <3>2
  <2>5. ASSUME NEW v \in Putters \ {w}, Updating(v)', ~mixed'[put'[v].key]
        PROVE  Alone(v)'
    <3> DEFINE j == put[v].key
    <3>1. put'[v] = put[v] /\ Updating(v) /\ j \in Keys
      BY <1>a, <2>1, <2>5 DEF Updating
    <3>2. v \in UpdatersOf(j)
      BY <3>1 DEF UpdatersOf
    <3>3. ~mixed[j] /\ (j = k => kv[k] = Absent)
      BY <2>3, <2>5, <3>1, <3>2
    <3>4. Alone(v) /\ kv[j] # Absent
      BY <1>0, <3>1, <3>3 DEF Basics, PutOK
    <3>5. \A u \in Putters : put'[u] = put[u] \/ ~Updating(u)' \/ put'[u].key # j
      BY <2>1, <2>2, <3>3, <3>4 DEF Updating
    <3> QED BY <1>b, <2>1, <3>1, <3>4, <3>5
  <2>6. ASSUME Updating(w)', ~mixed'[k]
        PROVE  Alone(w)'
    <3>1. kv[k] # Absent
      BY <2>2, <2>6 DEF Updating
    <3>2. UpdatersOf(k) = {} /\ (~mixed[k] \/ text # Skinny)
      BY <2>3, <2>6, <3>1
    <3>3. Sole(w)'
      BY <2>1, <2>2, <3>2 DEF Sole, UpdatersOf, Updating
    <3>4. TextKept(w)'
      BY <1>0, <2>1, <2>2, <3>1, <3>2 DEF TextKept, Settled
    <3> QED BY <2>2, <3>3, <3>4
            DEF Alone, RevWritten, MetaWritten, TextWritten, HashWritten
  <2>7. ASSUME NEW j \in Keys, UpdatersOf(j)' = {}, ~mixed'[j]
        PROVE  Settled(j)'
    <3>1. UpdatersOf(j) = {}
      BY <2>1, <2>7 DEF UpdatersOf, Updating
    <3>2. ~mixed[j]
      BY <2>1, <2>2, <2>3, <2>7 DEF UpdatersOf, Updating
    <3> QED BY <1>0, <2>1, <3>1, <3>2 DEF Settled
  <2> QED BY <1>0, <2>2, <2>4, <2>5, <2>6, <2>7 DEF UpdateInv
<1>2. ASSUME NEW w \in Putters, PutLocked(w)
      PROVE  UpdateInv'
  <2>0. PICK k \in Keys : k = put[w].key
    BY <1>0, <1>2 DEF PutLocked, Basics, PutOK
  <2> DEFINE td == kv[k]
             p == put[w]
             rev == IF td = Absent THEN 1 ELSE td.rev + 1
             text == Kept(p, td)
             new == Made(rev, text, p.file)
  <2>1. /\ kv' = [kv EXCEPT ![k] = new] /\ Exclusive /\ p.at = "lock"
        /\ put' = [put EXCEPT ![w] = IdlePut]
        /\ mixed' = [mixed EXCEPT ![k] = @ /\ p.skinny /\ td # Absent]
        /\ sent' = IF p.skinny /\ td # Absent THEN sent ELSE [sent EXCEPT ![k] = p.text.data]
    BY <1>2, <2>0 DEF PutLocked
  <2>2. /\ new.rev = rev /\ new.meta = Str(rev) /\ new.text = text
        /\ new.hash = HashOf(rev, text)
    BY DEF Made
  <2>3. new # Absent
    <3>1. kv'[k] = new /\ kv'[k] \in MemTiddlers \cup {Absent}
      BY <1>0, <1>a, <2>1 DEF Basics, TypeOK
    <3>2. rev \in Nat /\ text \in MemTexts /\ p.file \in Files \cup {NoFile}
      BY <1>a, <2>0 DEF Kept, PutStates, MemTiddlers
    <3> QED BY <3>2, MadeType
  <2>4. Whole(p.text) /\ p.text = Str(p.text.data)
    <3>1. p.text \in MemTexts
      BY <1>a DEF PutStates
    <3>2. Whole(p.text)
      BY <1>0, <2>1 DEF SentWhole
    <3> QED BY <3>1, <3>2, WordsMeet DEF MemTexts
  <2> HIDE DEF new
  <2>5. ASSUME NEW j \in Keys, UpdatersOf(j) = {}, ~mixed'[j]
        PROVE  Settled(j)'
    <3>1. CASE j # k
      <4>1. kv'[j] = kv[j] /\ sent'[j] = sent[j] /\ ~mixed[j]
        BY <1>a, <2>1, <2>5, <3>1
      <4> QED BY <1>0, <2>5, <4>1 DEF Settled
    <3>2. CASE j = k /\ p.skinny /\ td # Absent
      <4>1. ~mixed[k] /\ sent'[k] = sent[k] /\ kv'[k] = new
        BY <1>a, <2>1, <2>5, <3>2
      <4>2. Consistent(td) /\ td.text = Str(sent[k])
        BY <1>0, <2>5, <3>2, <4>1 DEF Settled
      <4>3. text = td.text
        BY <3>2 DEF Kept
      <4> QED BY <2>2, <2>3, <3>2, <4>1, <4>2, <4>3 DEF Settled, Consistent
    <3>3. CASE j = k /\ ~(p.skinny /\ td # Absent)
      <4>1. sent'[k] = p.text.data /\ kv'[k] = new
        BY <1>a, <2>1, <3>3
      <4>2. text = p.text
        BY <3>3 DEF Kept
      <4> QED BY <2>2, <2>3, <2>4, <3>3, <4>1, <4>2 DEF Settled, Consistent
    <3> QED BY <3>1, <3>2, <3>3
  <2>6. \A v \in Putters : put'[v] \in {put[v], IdlePut} /\ ~Updating(v)'
    BY <1>a, <2>1, IdleTypes DEF Exclusive, Updating
  <2> QED BY <1>c, <2>1, <2>5, <2>6
<1>3. ASSUME NEW w \in Putters, Update(w)
      PROVE  UpdateInv'
  <2>0. PICK k \in Keys : k = put[w].key
    BY <1>0, <1>3, UpdateShape
  <2>1. /\ \A j \in Keys \ {k} : kv'[j] = kv[j] /\ sent'[j] = sent[j]
        /\ \A v \in Putters \ {w} : put'[v] = put[v]
        /\ mixed' = mixed /\ Updating(w)
    BY <1>0, <1>3, <1>a, <2>0, UpdateFrame, UpdateFile, UpdateShape
  <2>a. Updating(w)' => put'[w].key = k
    <3>1. PICK q \in PutStates : put' = [put EXCEPT ![w] = q] /\ (q.at # "idle" => q.key = k)
      BY <1>0, <1>3, <2>0, UpdateShape DEF SomePut
    <3>2. put'[w] = q
      BY <1>a, <3>1
    <3> QED BY <3>1, <3>2 DEF Updating
  <2>2. ASSUME NEW v \in Putters PROVE SentWhole(v)'
    BY <1>0, <1>3, <2>1, SentStep DEF SentWhole
  <2>3. ASSUME ~mixed[k]
        PROVE  Alone(w) /\ \A v \in UpdatersOf(k) : v = w
    BY <1>0, <2>0, <2>1, <2>3 DEF Alone, Sole
  <2>4. ASSUME NEW v \in Putters, Updating(v)', ~mixed'[put'[v].key]
        PROVE  Alone(v)'
    <3>1. CASE v = w
      <4>1. Alone(w) /\ \A u \in UpdatersOf(k) : u = w
        BY <2>1, <2>3, <2>4, <2>a, <3>1
      <4>2. /\ put'[w].key = k /\ TextKept(w)' /\ RevWritten(w)'
            /\ MetaWritten(w)' /\ TextWritten(w)' /\ HashWritten(w)'
        BY <1>0, <1>3, <2>0, <2>4, <3>1, <4>1, AloneStep
      <4>3. Sole(w)'
        BY <2>1, <4>1, <4>2 DEF Sole, UpdatersOf, Updating
      <4> QED BY <3>1, <4>2, <4>3 DEF Alone
    <3>2. CASE v # w
      <4>1. put'[v] = put[v] /\ Updating(v) /\ put[v].key \in Keys /\ ~mixed[put[v].key]
        BY <1>a, <2>1, <2>4, <3>2 DEF Updating
      <4>2. put[v].key # k
        BY <2>3, <3>2, <4>1 DEF UpdatersOf
      <4>3. \A u \in Putters : put'[u] = put[u] \/ ~Updating(u)' \/ put'[u].key # put[v].key
        BY <2>1, <2>a, <4>2
      <4> QED BY <1>0, <1>b, <2>1, <4>1, <4>2, <4>3
    <3> QED BY <3>1, <3>2
  <2>5. ASSUME NEW j \in Keys, UpdatersOf(j)' = {}, ~mixed'[j]
        PROVE  Settled(j)'
    <3>1. CASE j = k
      <4>1. Alone(w) /\ \A u \in UpdatersOf(k) : u = w
        BY <2>1, <2>3, <2>5, <3>1
      <4>2. ~Updating(w)'
        BY <2>5, <2>a, <3>1 DEF UpdatersOf
      <4> QED BY <1>0, <1>3, <2>0, <3>1, <4>1, <4>2, AloneStep
    <3>2. CASE j # k
      <4>1. UpdatersOf(j) = {}
        BY <2>0, <2>1, <2>5, <3>2 DEF UpdatersOf, Updating
      <4> QED BY <1>0, <2>1, <2>5, <3>2, <4>1 DEF Settled
    <3> QED BY <3>1, <3>2
  <2> QED BY <1>0, <2>2, <2>4, <2>5 DEF UpdateInv
<1>4. ASSUME NEW k \in Keys, Del(k)
      PROVE  UpdateInv'
  <2>1. /\ kv' = [kv EXCEPT ![k] = Absent] /\ sent' = [sent EXCEPT ![k] = Absent]
        /\ put' = put /\ mixed' = mixed /\ Exclusive
    BY <1>4 DEF Del
  <2>2. \A j \in Keys : UpdatersOf(j) = {} /\ ~mixed'[j] => Settled(j)'
    BY <1>0, <1>a, <2>1 DEF Settled
  <2> QED BY <1>c, <2>1, <2>2 DEF Exclusive, Updating
<1>5. ASSUME NEW k \in Keys, NEW file \in Files, AttachAttachment(k, file)
      PROVE  UpdateInv'
  <2>1. /\ kv' = [kv EXCEPT ![k].file = Str(file)] /\ sent' = sent
        /\ put' = put /\ mixed' = mixed /\ Exclusive /\ kv[k] \in MemTiddlers
    BY <1>5, <1>a DEF AttachAttachment
  <2>a. kv[k] # Absent /\ kv'[k] # Absent
    <3>1. Str(file) \in Strings(Files \cup {NoFile})
      BY StrType
    <3>2. [kv[k] EXCEPT !.file = Str(file)] \in MemTiddlers
      BY <2>1, <3>1 DEF MemTiddlers
    <3> QED BY <1>a, <2>1, <3>2
  <2>2. /\ kv'[k].rev = kv[k].rev /\ kv'[k].meta = kv[k].meta /\ kv'[k].text = kv[k].text
        /\ kv'[k].hash = kv[k].hash /\ kv'[k] # Absent /\ kv[k] # Absent
    BY <1>a, <2>1, <2>a DEF MemTiddlers
  <2>3. ASSUME NEW j \in Keys, UpdatersOf(j) = {}, ~mixed'[j] PROVE Settled(j)'
    <3>1. CASE j = k
      BY <1>0, <2>1, <2>2, <2>3, <3>1 DEF Settled, Consistent
    <3>2. CASE j # k
      BY <1>0, <1>a, <2>1, <2>3, <3>2 DEF Settled
    <3> QED BY <3>1, <3>2
  <2> QED BY <1>c, <2>1, <2>3 DEF Exclusive, Updating
<1>6. ASSUME UNCHANGED <<kv, put, mixed, sent>>
      PROVE  UpdateInv'
  <2>1. \A w \in Putters : SentWhole(w)'
    BY <1>0, <1>6 DEF SentWhole
  <2>2. \A w \in Putters : Updating(w)' /\ ~mixed'[put'[w].key] => Alone(w)'
    BY <1>0, <1>6
       DEF Updating, Alone, Sole, UpdatersOf, TextKept, RevWritten, MetaWritten, TextWritten,
           HashWritten, Old
  <2>3. \A k \in Keys : UpdatersOf(k)' = {} /\ ~mixed'[k] => Settled(k)'
    BY <1>0, <1>6 DEF UpdatersOf, Updating, Settled
  <2> QED BY <1>0, <2>1, <2>2, <2>3 DEF UpdateInv
<1> QED
  BY <1>1, <1>2, <1>3, <1>4, <1>5, <1>6
     DEF Next, GetBegin, GetField, GetFails, RequestList, Snapshot, AnswerList, memVars, vars

(* What the invariant says of a title that nobody is updating.             *)
LEMMA SettledShown == UpdateInv => ConsistentUnlessMixed /\ LastSentIsStored
<1> SUFFICES ASSUME UpdateInv PROVE ConsistentUnlessMixed /\ LastSentIsStored
  OBVIOUS
<1>1. \A k \in Keys : UpdatersOf(k) = {} /\ ~mixed[k] => Settled(k)
  BY DEF UpdateInv
<1> QED BY <1>1 DEF ConsistentUnlessMixed, LastSentIsStored, Settled

(* Whatever Puts, Dels and attachments come in between, a title nobody is  *)
(* updating agrees with itself, unless the last updates overlapped.        *)
THEOREM StoredConsistent == Spec => []ConsistentUnlessMixed
  BY UpdateInit, UpdateStep, SettledShown, PTL DEF Spec

(* Under the same condition it has the text that was last sent for it.     *)
THEOREM LastSentStored == Spec => []LastSentIsStored
  BY UpdateInit, UpdateStep, SettledShown, PTL DEF Spec

-----------------------------------------------------------------------------
(* A Get that no update overlaps reads one consistent tiddler.             *)
LEMMA GetInit == Init => GetInv
<1> SUFFICES ASSUME Init PROVE GetInv
  OBVIOUS
<1>1. \A r \in Getters : get[r].at = "idle"
  BY IdleTypes DEF Init
<1> QED BY <1>1, UpdateInit DEF GetInv, GetConsistent, Reading

LEMMA GetStep == GetInv /\ [Next]_vars => GetInv'
<1> SUFFICES ASSUME GetInv, [Next]_vars PROVE GetInv'
  OBVIOUS
<1> DEFINE Undisturbed(r) ==
             UpdatersOf(get[r].key) = {} /\ ~mixed[get[r].key] /\ ReadSoFar(r)
<1>0. /\ UpdateInv /\ UpdateInv' /\ GetConsistent
      /\ \A r \in Getters : Reading(r) /\ ~get[r].over => Undisturbed(r)
  BY UpdateStep DEF GetInv
<1>a. /\ kv \in [Keys -> MemTiddlers \cup {Absent}] /\ put \in [Putters -> PutStates]
      /\ get \in [Getters -> GetStates] /\ mixed \in [Keys -> BOOLEAN]
      /\ \A r \in Getters : Reading(r) => get[r].key \in Keys /\ kv[get[r].key] # Absent
  BY <1>0 DEF UpdateInv, Basics, TypeOK, GetOK, Reading
<1>b. ASSUME GetConsistent',
             \A r \in Getters : Reading(r)' /\ ~get'[r].over => Undisturbed(r)'
      PROVE  GetInv'
  BY <1>0, <1>b DEF GetInv
<1>c. ASSUME Exclusive, get' = get PROVE GetInv'
  BY <1>0, <1>b, <1>c DEF Exclusive, Reading, GetConsistent
<1>1. ASSUME NEW w \in Putters, NEW k \in Keys, NEW text \in Texts \cup {Skinny},
             NEW file \in Files \cup {NoFile}, PutBegin(w, k, text, file)
      PROVE  GetInv'
  <2>1. ASSUME NEW r \in Getters
        PROVE  \/ Reading(r) /\ get[r].key = k /\ get'[r].over /\ Reading(r)'
               \/ get'[r] = get[r] /\ ~(Reading(r) /\ get[r].key = k)
    <3>1. get'[r] = IF Reading(r) /\ get[r].key = k THEN [get[r] EXCEPT !.over = TRUE]
                    ELSE get[r]
      BY <1>1 DEF PutBegin
    <3>2. get[r] \in GetStates
      BY <1>a
    <3> QED BY <3>1, <3>2 DEF GetStates, Reading
  <2>2. GetConsistent'
    BY <1>0, <2>1 DEF GetConsistent, Reading
  <2>3. ASSUME NEW r \in Getters, Reading(r)', ~get'[r].over
        PROVE  Undisturbed(r)'
    <3>1. get'[r] = get[r] /\ Reading(r) /\ get[r].key \in Keys \ {k}
      BY <1>a, <2>1, <2>3 DEF Reading
    <3>2. /\ kv' = kv /\ mixed'[get[r].key] = mixed[get[r].key]
          /\ put'[w].key = k /\ \A v \in Putters \ {w} : put'[v] = put[v]
      BY <1>1, <1>a, <3>1 DEF PutBegin, IdlePut
    <3> QED BY <1>0, <2>3, <3>1, <3>2 DEF UpdatersOf, Updating, ReadSoFar
  <2> QED BY <1>b, <2>2, <2>3
<1>2. ASSUME NEW w \in Putters, Update(w)
      PROVE  GetInv'
  <2>0. PICK k \in Keys : k = put[w].key
    BY <1>0, <1>2, UpdateShape DEF UpdateInv
  <2>1. /\ get' = get /\ mixed' = mixed /\ w \in UpdatersOf(k)
        /\ \A j \in Keys \ {k} : kv'[j] = kv[j]
        /\ \A v \in Putters \ {w} : put'[v] = put[v]
    BY <1>0, <1>2, <2>0, UpdateShape, UpdateFrame DEF UpdateInv, UpdatersOf
  <2>2. Updating(w)' => put'[w].key = k
    <3>1. PICK q \in PutStates : put' = [put EXCEPT ![w] = q] /\ (q.at # "idle" => q.key = k)
      BY <1>0, <1>2, <2>0, UpdateShape DEF SomePut, UpdateInv
    <3>2. put'[w] = q
      BY <1>a, <3>1
    <3> QED BY <3>1, <3>2 DEF Updating
  <2>3. GetConsistent'
    BY <1>0, <2>1 DEF GetConsistent
  <2>4. ASSUME NEW r \in Getters, Reading(r)', ~get'[r].over
        PROVE  Undisturbed(r)'
    <3>1. Reading(r) /\ get[r].key \in Keys \ {k} /\ Undisturbed(r)
      BY <1>0, <1>a, <2>1, <2>4 DEF Reading
    <3>2. UpdatersOf(get[r].key)' = {}
      BY <2>0, <2>1, <2>2, <3>1 DEF UpdatersOf, Updating
    <3> QED BY <2>1, <3>1, <3>2 DEF ReadSoFar
  <2> QED BY <1>b, <2>3, <2>4
<1>3. ASSUME NEW r \in Getters, NEW k \in Keys, GetBegin(r, k)
      PROVE  GetInv'
  <2>1. /\ get'[r].at = "meta" /\ get'[r].key = k
        /\ get'[r].over = (mixed[k] \/ UpdatersOf(k) # {})
        /\ \A q \in Getters \ {r} : get'[q] = get[q]
        /\ UNCHANGED <<kv, put, mixed>>
    BY <1>3, <1>a DEF GetBegin, IdleGet
  <2>2. GetConsistent'
    BY <1>0, <2>1 DEF GetConsistent
  <2>3. ASSUME NEW q \in Getters, Reading(q)', ~get'[q].over
        PROVE  Undisturbed(q)'
    <3>1. CASE q = r
      <4>1. ~(mixed[k] \/ UpdatersOf(k) # {})
        BY <2>1, <2>3, <3>1, Zenon
      <4>2. UpdatersOf(k)' = {} /\ ~mixed'[k]
        BY <2>1, <4>1 DEF UpdatersOf, Updating
      <4> QED BY <2>1, <3>1, <4>2 DEF ReadSoFar
    <3>2. CASE q # r
      BY <1>0, <2>1, <2>3, <3>2 DEF Reading, UpdatersOf, Updating, ReadSoFar
    <3> QED BY <3>1, <3>2
  <2> QED BY <1>b, <2>2, <2>3
<1>4. ASSUME NEW r \in Getters, GetField(r)
      PROVE  GetInv'
  <2> DEFINE g == get[r]
             h == get'[r]
             td == kv[g.key]
  <2>1. /\ UNCHANGED <<kv, put, mixed>>
        /\ \A q \in Getters \ {r} : get'[q] = get[q]
        /\ Reading(r) /\ g.key \in Keys /\ td \in MemTiddlers
    BY <1>4, <1>a DEF GetField
  <2>2. /\ h.key = g.key /\ h.over = g.over
        /\ \/ g.at = "meta" /\ h.at = "rev" /\ h.got.meta = td.meta
           \/ g.at = "rev" /\ h.at = "text" /\ h.got.rev = td.rev /\ h.got.meta = g.got.meta
           \/ /\ g.at = "text" /\ h.at = "hash" /\ h.got.text = td.text
              /\ h.got.meta = g.got.meta /\ h.got.rev = g.got.rev
           \/ /\ g.at = "hash" /\ h.at = "done" /\ h.got.hash = td.hash
              /\ h.got.meta = g.got.meta /\ h.got.rev = g.got.rev /\ h.got.text = g.got.text
    <3> DEFINE got == [g.got EXCEPT ![g.at] = td[g.at]]
               q == [g EXCEPT !.got = got]
    <3>1. h = [q EXCEPT !.at = GetNext[g.at]]
      BY <1>4, <1>a DEF GetField
    <3>2. /\ g.at \in {"meta", "rev", "text", "hash"} /\ g.got \in MemTiddlers
          /\ g \in GetStates
      BY <1>a, <2>1 DEF GetStates, Reading
    <3>3. /\ \/ g.at = "meta" /\ got.meta = td.meta
             \/ g.at = "rev" /\ got.rev = td.rev /\ got.meta = g.got.meta
             \/ /\ g.at = "text" /\ got.text = td.text
                /\ got.meta = g.got.meta /\ got.rev = g.got.rev
             \/ /\ g.at = "hash" /\ got.hash = td.hash
                /\ got.meta = g.got.meta /\ got.rev = g.got.rev /\ got.text = g.got.text
      <4>1. CASE g.at = "meta"
        BY <2>1, <3>2, <4>1 DEF MemTiddlers
      <4>2. CASE g.at = "rev"
        BY <2>1, <3>2, <4>2 DEF MemTiddlers
      <4>3. CASE g.at = "text"
        BY <2>1, <3>2, <4>3 DEF MemTiddlers
      <4>4. CASE g.at = "hash"
        BY <2>1, <3>2, <4>4 DEF MemTiddlers
      <4> QED BY <3>2, <4>1, <4>2, <4>3, <4>4
    <3> HIDE DEF got
    <3>4. q.key = g.key /\ q.over = g.over /\ q.got = got /\ DOMAIN q = DOMAIN g
      BY <3>2 DEF GetStates
    <3>5. DOMAIN q = {"at", "key", "over", "got"}
      BY <3>2, <3>4 DEF GetStates
    <3> HIDE DEF q
    <3>6. h.key = g.key /\ h.over = g.over /\ h.got = got /\ h.at = GetNext[g.at]
      BY <3>1, <3>4, <3>5
    <3> QED BY <3>3, <3>6 DEF GetNext
  <2> HIDE DEF g, h, td
  <2>3. ASSUME ~h.over
        PROVE  Undisturbed(r) /\ (Reading(r)' => Undisturbed(r)')
                              /\ (h.at = "done" => Consistent(h.got))
    <3>1. Undisturbed(r)
      BY <1>0, <2>1, <2>2, <2>3 DEF g, h
    <3>2. Reading(r)' => Undisturbed(r)'
      BY <2>1, <2>2, <3>1 DEF g, h, td, ReadSoFar, UpdatersOf, Updating
    <3>3. Consistent(td)
      BY <1>0, <1>a, <2>1, <3>1, SettledShown DEF ConsistentUnlessMixed, td, g
    <3>4. h.at = "done" => Consistent(h.got)
      BY <2>2, <3>1, <3>3 DEF ReadSoFar, Consistent, g, td
    <3> QED BY <3>1, <3>2, <3>4
  <2>4. GetConsistent'
    <3>1. ASSUME NEW q \in Getters, get'[q].at = "done", ~get'[q].over
          PROVE  Consistent(get'[q].got)
      BY <1>0, <2>1, <2>3, <3>1 DEF GetConsistent, h
    <3> QED BY <3>1 DEF GetConsistent
  <2>5. ASSUME NEW q \in Getters, Reading(q)', ~get'[q].over
        PROVE  Undisturbed(q)'
    <3>1. CASE q = r
      BY <2>3, <2>5, <3>1 DEF h
    <3>2. CASE q # r
      BY <1>0, <2>1, <2>5, <3>2 DEF Reading, UpdatersOf, Updating, ReadSoFar
    <3> QED BY <3>1, <3>2
  <2> QED BY <1>b, <2>4, <2>5
<1>d. ASSUME NEW r \in Getters, GetFails(r)
      PROVE  GetInv'
  <2>1. /\ UNCHANGED <<kv, put, mixed>> /\ get'[r].at = "idle"
        /\ \A q \in Getters \ {r} : get'[q] = get[q]
    BY <1>d, <1>a DEF GetFails, IdleGet
  <2>2. GetConsistent'
    BY <1>0, <2>1 DEF GetConsistent
  <2>3. ASSUME NEW q \in Getters, Reading(q)', ~get'[q].over
        PROVE  Undisturbed(q)'
    <3>1. q # r
      BY <2>1, <2>3 DEF Reading
    <3> QED BY <1>0, <2>1, <2>3, <3>1 DEF Reading, UpdatersOf, Updating, ReadSoFar
  <2> QED BY <1>b, <2>2, <2>3
<1>5. ASSUME UNCHANGED <<kv, put, get, mixed>>
      PROVE  GetInv'
  <2>1. GetConsistent'
    BY <1>0, <1>5 DEF GetConsistent
  <2>2. \A r \in Getters : Reading(r)' /\ ~get'[r].over => Undisturbed(r)'
    BY <1>0, <1>5 DEF Reading, UpdatersOf, Updating, ReadSoFar
  <2> QED BY <1>b, <2>1, <2>2
<1> QED
  BY <1>1, <1>2, <1>3, <1>4, <1>5, <1>c, <1>d
     DEF Next, PutLocked, Del, AttachAttachment, RequestList, Snapshot, AnswerList, memVars, vars

(* The answer of a Get agrees with itself unless an update overlapped it.  *)
THEOREM AnswerConsistent == Spec => []GetConsistent
<1>1. GetInv => GetConsistent
  BY DEF GetInv
<1> QED BY <1>1, GetInit, GetStep, PTL DEF Spec

(* "Not modified" is answered only to a browser that has cached the text   *)
(* that is stored: equal tags are tags of one text.                        *)
THEOREM NotModifiedRight == Spec => []NotModifiedIsRight
<1>1. ASSUME GetInv PROVE NotModifiedIsRight
  <2>1. ASSUME NEW r \in Getters, get[r].at = "done", ~get[r].over,
               kv[get[r].key] # Absent, UpdatersOf(get[r].key) = {}, ~mixed[get[r].key],
               Etag(kv[get[r].key]) = Etag(get[r].got)
        PROVE  kv[get[r].key].text = get[r].got.text
    <3>1. get[r].key \in Keys
      BY <1>1, <2>1 DEF GetInv, UpdateInv, Basics, GetOK
    <3>2. Consistent(kv[get[r].key]) /\ Consistent(get[r].got)
      BY <1>1, <2>1, <3>1, SettledShown DEF GetInv, ConsistentUnlessMixed, GetConsistent
    <3>3. kv[get[r].key].hash = get[r].got.hash
      BY <2>1 DEF Etag
    <3>4. \A td : Consistent(td) => td.hash.text = td.text
      BY DEF Consistent, HashOf
    <3> QED BY <3>2, <3>3, <3>4
  <2> QED BY <2>1 DEF NotModifiedIsRight
<1> QED BY <1>1, GetInit, GetStep, PTL DEF Spec

-----------------------------------------------------------------------------
(* The listing cache: a current listing has the titles of the store, but   *)
(* for those that were skipped.                                            *)
Titles ==
  {l \in MemListings : \A k \in Keys : IF kv[k] = Absent THEN l[k] = Absent
                                      ELSE l[k] # Absent \/ k \in skipped}

TitlesInv == Basics /\ FreshIn(Titles)

(* A step that changes neither the cache nor which titles are stored.      *)
LEMMA SameTitles ==
  ASSUME TitlesInv, Basics', UNCHANGED <<skipped, cacheVars>>,
         \A k \in Keys : kv'[k] = Absent <=> kv[k] = Absent
  PROVE  TitlesInv'
<1>1. Titles' = Titles
  BY DEF Titles
<1> QED BY <1>1, FreshSame DEF TitlesInv

(* A snapshot is a current listing.  Those that are being published stay   *)
(* current: what they have skipped is kept; the others do not matter now.  *)
LEMMA TitlesBuilt ==
  ASSUME TitlesInv, Basics', NEW g \in Listers, Snapshot(g)
  PROVE  TitlesInv'
<1>1. PICK without \in SUBSET Torn :
        /\ BuildList(g, MemListing(without))
        /\ skipped' = without \cup (IF Publishing THEN skipped ELSE {})
        /\ UNCHANGED memVars
  BY DEF Snapshot
<1>2. kv \in [Keys -> MemTiddlers \cup {Absent}] /\ lister \in [Listers -> ListerOf(MemListings)]
  BY DEF TitlesInv, Basics, TypeOK, CacheTypeOK, ListerOf
<1>3. MemListing(without) \in Titles'
  <2>1. \A td \in MemTiddlers : td.meta.data # Absent
    BY DEF MemTiddlers, Strings
  <2>2. \A k \in Keys : IF kv[k] = Absent THEN MemListing(without)[k] = Absent
                       ELSE MemListing(without)[k] # Absent \/ k \in without
    BY <1>2, <2>1 DEF MemListing
  <2> QED BY <1>1, <1>2, <2>2, MemListingType DEF Titles, memVars
<1>4. Publishing => Titles \subseteq Titles'
  BY <1>1 DEF Titles, memVars
<1>5. /\ lister'[g].at = "store" /\ lister'[g].got = MemListing(without)
      /\ \A h \in Listers \ {g} : lister'[h] = lister[h]
      /\ raced' = (raced /\ Publishing) /\ UNCHANGED <<dirty, cached>>
  BY <1>1, <1>2 DEF BuildList, ListerOf
<1>6. ASSUME NEW h \in Listers, ~raced'
      PROVE  /\ lister'[h].at = "store" => lister'[h].got \in Titles'
             /\ lister'[h].at = "clear" => cached' \in Titles'
  <2>1. CASE h = g
    BY <1>3, <1>5, <2>1
  <2>2. CASE h # g /\ Publishing
    BY <1>4, <1>5, <1>6, <2>2 DEF TitlesInv, FreshIn
  <2>3. CASE h # g /\ ~Publishing
    BY <1>5, <2>3 DEF Publishing
  <2> QED BY <2>1, <2>2, <2>3
<1>7. RebuildDue'
  BY <1>5 DEF RebuildDue
<1> QED BY <1>6, <1>7 DEF TitlesInv, FreshIn

(* Every step keeps the titles of the cached listing fresh unless raced.   *)
LEMMA TitlesStep == TitlesInv /\ [Next]_vars => TitlesInv'
<1> SUFFICES ASSUME TitlesInv, [Next]_vars PROVE TitlesInv'
  OBVIOUS
<1>0. Basics /\ Basics' /\ kv \in [Keys -> MemTiddlers \cup {Absent}]
  BY BasicsStep DEF TitlesInv, Basics, TypeOK
<1>1. ASSUME FlagDirty, NoteChange, UNCHANGED <<cached, lister>> PROVE TitlesInv'
  BY <1>0, <1>1, FreshFlagged DEF TitlesInv
<1>2. ASSUME NEW w \in Putters, Update(w) PROVE TitlesInv'
  BY <1>0, <1>2, UpdateFrame, UpdateShape, SameTitles
<1>3. ASSUME NEW k \in Keys, NEW file \in Files, AttachAttachment(k, file)
      PROVE  TitlesInv'
  <2>1. /\ kv' = [kv EXCEPT ![k].file = Str(file)] /\ UNCHANGED <<skipped, cacheVars>>
        /\ kv[k] \in MemTiddlers
    BY <1>0, <1>3 DEF AttachAttachment
  <2>2. [kv[k] EXCEPT !.file = Str(file)] \in MemTiddlers
    <3>1. Str(file) \in Strings(Files \cup {NoFile})
      BY StrType
    <3> QED BY <2>1, <3>1 DEF MemTiddlers
  <2>3. \A j \in Keys : kv'[j] = Absent <=> kv[j] = Absent
    BY <1>0, <2>1, <2>2
  <2> QED BY <1>0, <2>1, <2>3, SameTitles
<1>4. ASSUME NEW g \in Listers, RequestList(g) \/ AnswerList(g)
      PROVE  TitlesInv'
  <2>1. /\ CacheTypeOK(MemListings) /\ FreshIn(Titles) /\ Titles' = Titles
        /\ CallList(g) \/ ListStep(g)
    BY <1>0, <1>4
       DEF TitlesInv, Basics, TypeOK, RequestList, AnswerList, memVars, Titles
  <2>2. FreshIn(Titles)'
    BY <2>1, FreshListStep
  <2> QED BY <1>0, <2>2 DEF TitlesInv
<1>5. ASSUME UNCHANGED <<kv, skipped, cacheVars>> PROVE TitlesInv'
  BY <1>0, <1>5, SameTitles
<1>6. ASSUME NEW w \in Putters, PutLocked(w) PROVE TitlesInv'
  BY <1>1, <1>6 DEF PutLocked
<1>7. ASSUME NEW k \in Keys, Del(k) PROVE TitlesInv'
  BY <1>1, <1>7 DEF Del
<1>8. ASSUME NEW g \in Listers, Snapshot(g) PROVE TitlesInv'
  BY <1>0, <1>8, TitlesBuilt
<1>9. CASE UNCHANGED vars
  BY <1>5, <1>9 DEF vars, memVars
<1> QED
  BY <1>2, <1>3, <1>4, <1>5, <1>6, <1>7, <1>8, <1>9
     DEF Next, PutBegin, GetBegin, GetField, GetFails

(* Unless a title comes or goes while a listing is being published, the    *)
(* cached one has the titles of the store but for those that a snapshot    *)
(* met half written, or is due for a rebuild.                              *)
THEOREM TitlesFresh == Spec => []TitlesFreshUnlessRaced
<1>1. Init => TitlesInv
  BY BasicsInit, FreshStart DEF Init, TitlesInv
<1>2. TitlesInv => TitlesFreshUnlessRaced
  BY DEF TitlesInv, FreshIn, TitlesFreshUnlessRaced, Titles
<1> QED BY <1>1, <1>2, TitlesStep, PTL DEF Spec

=============================================================================
