-------------------------- MODULE BitcaskStoreProofs --------------------------
(***************************************************************************)
(* Theorems about the bitcask store, for every number of titles,           *)
(* attachments, texts and concurrent listings, and every bound.            *)
(***************************************************************************)
EXTENDS BitcaskStore, ListCacheProofs, FiniteSetTheorems

USE TiddlersAssumption, BitcaskAssumption DEF Named

(* A Put makes a tiddler, which names the file it was given.               *)
LEMMA UpdatedType ==
  ASSUME NEW td \in Tiddler \cup {Absent}, NEW text \in Texts \cup {Skinny},
         NEW file \in Files \cup {NoFile}
  PROVE  Updated(td, text, file) \in Tiddler /\ Updated(td, text, file).file = file
  BY DEF Updated, Tiddler

(* The listing of a store is a listing.                                    *)
LEMMA ListingType ==
  ASSUME NEW d \in [Keys -> Tiddler \cup {Absent}]
  PROVE  Listing(d) \in Listings
  BY DEF Listing, Listings, Tiddler

(* What the section in progress holds: its title and tiddler once it has   *)
(* read the store, and no answer of an earlier Del.                        *)
SectionOK ==
  /\ cs.at = "free" => cs = Free
  /\ cs.at # "free" => handed = NoFile
  /\ cs.at = "putRef" => cs.td.file \in Files
  /\ cs.at \in {"putRef", "putStore"} =>
       /\ cs.key \in Keys
       /\ cs.td \in Tiddler
       /\ \E text \in Texts \cup {Skinny}, file \in Files \cup {NoFile} :
            cs.td = Updated(db[cs.key], text, file)
  /\ cs.at = "attachStore" =>
       /\ cs.key \in Keys
       /\ db[cs.key] # Absent
       /\ \E file \in Files : /\ cs.td = [db[cs.key] EXCEPT !.file = file]
                              /\ cs.credit = file
  /\ cs.at = "delRef" => cs.credit \in Files

Basics == TypeOK /\ SectionOK

(* With the lock free, no section is in progress.                          *)
LEMMA FreeType == Free \in CriticalSection /\ Free.at = "free"
  BY DEF Free, CriticalSection

(* A new store is well-formed.                                             *)
LEMMA BasicsInit == Init => Basics
<1> SUFFICES ASSUME Init PROVE Basics
  OBVIOUS
<1>1. CacheTypeOK(Listings)
  BY CacheInitType DEF Init
<1>2. TypeOK
  BY <1>1, FreeType DEF Init, TypeOK
<1>3. SectionOK
  BY FreeType DEF Init, SectionOK
<1> QED BY <1>2, <1>3 DEF Basics

(* A leaked attachment is an attachment.                                   *)
LEMMA LeakType ==
  ASSUME leaked \in SUBSET Files, NEW file \in Files \cup {NoFile},
         Leak(file) \/ UNCHANGED leaked
  PROVE  leaked' \in SUBSET Files
  BY DEF Leak

(* Every step leaves the store and the section in progress well-formed.    *)
LEMMA BasicsStep == Basics /\ [Next]_vars => Basics'
<1> SUFFICES ASSUME Basics, [Next]_vars PROVE Basics'
  OBVIOUS
<1> USE DEF Basics, TypeOK
<1>1. ASSUME NEW k \in Keys, NEW text \in Texts \cup {Skinny},
             NEW file \in Files \cup {NoFile}, PutBegin(k, text, file)
      PROVE  Basics'
  <2>0. db[k] \in Tiddler \cup {Absent}
    OBVIOUS
  <2>1. Updated(db[k], text, file) \in Tiddler /\ Updated(db[k], text, file).file = file
    <3> HIDE DEF Basics, TypeOK
    <3> QED BY <2>0, UpdatedType
  <2>2. cs' \in CriticalSection
    BY <1>1, <2>1 DEF PutBegin, CriticalSection
  <2>3. TypeOK'
    BY <1>1, <2>2 DEF PutBegin, CacheTypeOK, cacheVars
  <2>4. SectionOK'
    BY <1>1, <2>1 DEF PutBegin, SectionOK
  <2> QED BY <2>3, <2>4
<1>2. CASE PutRef
  <2>1. cs.td.file \in Files
    BY <1>2 DEF PutRef, SectionOK
  <2>2. cs' \in CriticalSection
    BY <1>2, <2>1 DEF PutRef, CriticalSection
  <2>3. fileRef' \in [Files -> Int]
    BY <1>2, <2>1 DEF PutRef
  <2>4. TypeOK'
    BY <1>2, <2>1, <2>2, <2>3 DEF PutRef, CacheTypeOK, cacheVars
  <2>5. SectionOK'
    BY <1>2, <2>1 DEF PutRef, SectionOK, CriticalSection
  <2> QED BY <2>4, <2>5
<1>3. CASE PutStore
  <2>1. cs.key \in Keys /\ cs.td \in Tiddler
    BY <1>3 DEF PutStore, SectionOK
  <2>2. db' \in [Keys -> Tiddler \cup {Absent}] /\ owned' \in [Keys -> SUBSET Files]
    BY <1>3, <2>1 DEF PutStore, Tiddler
  <2>3. CacheTypeOK(Listings)'
    BY <1>3 DEF PutStore, CacheTypeOK, FlagDirty, NoteChange, Publishing
  <2>4. FileOf(db[cs.key]) \in Files \cup {NoFile} /\ cs.credit \in Files \cup {NoFile}
    BY <2>1 DEF FileOf, Tiddler, CriticalSection
  <2>5. leaked' \in SUBSET Files
    BY <1>3, <2>4, LeakType DEF PutStore
  <2>a. uncounted' \in SUBSET Files
    BY <1>3, <2>1 DEF PutStore, Tiddler
  <2>6. TypeOK'
    BY <1>3, <2>2, <2>3, <2>5, <2>a, FreeType DEF PutStore
  <2>7. SectionOK'
    BY <1>3, FreeType DEF PutStore, SectionOK
  <2> QED BY <2>6, <2>7
<1>4. ASSUME NEW k \in Keys, DelStore(k)
      PROVE  Basics'
  <2>1. db[k] \in Tiddler /\ db[k].file \in Files \cup {NoFile}
    BY <1>4 DEF DelStore, Tiddler
  <2>2. TypeOK'
    BY <1>4, <2>1 DEF DelStore, CacheTypeOK, FlagDirty, NoteChange, Publishing, Free, CriticalSection
  <2>3. SectionOK'
    BY <1>4, <2>1 DEF DelStore, SectionOK, Free
  <2> QED BY <2>2, <2>3
<1>5. CASE DelRef
  <2>1. cs.credit \in Files
    BY <1>5 DEF DelRef, SectionOK
  <2>2. leaked' \in SUBSET Files
    BY <1>5, <2>1, LeakType DEF DelRef
  <2>3. TypeOK'
    BY <1>5, <2>1, <2>2, FreeType DEF DelRef, CacheTypeOK, cacheVars
  <2>4. SectionOK'
    BY <1>5, <2>1 DEF DelRef, SectionOK, Free
  <2> QED BY <2>3, <2>4
<1>6. ASSUME NEW k \in Keys, NEW file \in Files, AttachRef(k, file)
      PROVE  Basics'
  <2>1. db[k] \in Tiddler /\ [db[k] EXCEPT !.file = file] \in Tiddler
    BY <1>6 DEF AttachRef, Tiddler
  <2>2. TypeOK'
    BY <1>6, <2>1 DEF AttachRef, CacheTypeOK, cacheVars, CriticalSection
  <2>3. SectionOK'
    BY <1>6, <2>1 DEF AttachRef, SectionOK
  <2> QED BY <2>2, <2>3
<1>7. CASE AttachStore
  <2>1. cs.key \in Keys /\ cs.td \in Tiddler /\ cs.td.file \in Files
    BY <1>7 DEF AttachStore, SectionOK, Tiddler
  <2>2. db[cs.key].file \in Files \cup {NoFile} /\ cs.credit \in Files \cup {NoFile}
    BY <1>7, <2>1 DEF AttachStore, SectionOK, Tiddler, CriticalSection
  <2>3. leaked' \in SUBSET Files
    BY <1>7, <2>2, LeakType DEF AttachStore
  <2>4. TypeOK'
    BY <1>7, <2>1, <2>3, FreeType DEF AttachStore, CacheTypeOK, cacheVars
  <2>5. SectionOK'
    BY <1>7, <2>1 DEF AttachStore, SectionOK, Free
  <2> QED BY <2>4, <2>5
<1>8. ASSUME NEW g \in Listers, RequestList(g) \/ Snapshot(g) \/ AnswerList(g)
      PROVE  Basics'
  <2>1. SectionOK'
    BY <1>8 DEF RequestList, Snapshot, AnswerList, storeVars, SectionOK
  <2>2. Listing(db) \in Listings
    BY ListingType
  <2>3. CacheTypeOK(Listings)'
    BY <1>8, <2>2, CacheStepType
       DEF RequestList, Snapshot, AnswerList
  <2>4. TypeOK'
    BY <1>8, <2>3 DEF RequestList, Snapshot, AnswerList, storeVars
  <2> QED BY <2>1, <2>4
<1>9. CASE Restart
  <2>1. cs.credit \in Files \cup {NoFile}
    BY DEF CriticalSection
  <2>2. leaked' \in SUBSET Files
    BY <1>9, <2>1, LeakType DEF Restart
  <2>3. TypeOK' /\ SectionOK'
    BY <1>9, <2>2, CacheRestartType, FreeType DEF Restart, SectionOK
  <2> QED BY <2>3
<1>10. CASE UNCHANGED vars
  BY <1>10 DEF vars, storeVars, cacheVars, CacheTypeOK, SectionOK
<1> QED
  BY <1>1, <1>2, <1>3, <1>4, <1>5, <1>6, <1>7, <1>8, <1>9, <1>10 DEF Next

(* The store, the counts, the section in progress and the cache always     *)
(* have the shape the functions of store_bitcask.go assume.                *)
THEOREM TypeCorrect == Spec => []TypeOK
<1>1. Spec => []Basics
  BY BasicsInit, BasicsStep, PTL DEF Spec
<1>2. Basics => TypeOK
  BY DEF Basics
<1> QED BY <1>1, <1>2, PTL

-----------------------------------------------------------------------------
(* Reference counts.  A stored tiddler is bound to an attachment its title *)
(* was bound to before; the attachment of a new title has been counted, or *)
(* is known to be uncounted.                                               *)
OwnedOK ==
  \A k \in Keys : IF db[k] = Absent THEN owned[k] = {}
                                    ELSE db[k].file \in owned[k] \cup {NoFile}

CreditOK ==
  /\ cs.at = "putRef" => cs.credit = NoFile
  /\ cs.at = "putStore" =>
       /\ cs.credit \in {NoFile, cs.td.file}
       /\ db[cs.key] = Absent => cs.td.file \in {NoFile, cs.credit} \cup uncounted

RefInv == Basics /\ OwnedOK /\ CreditOK /\ RefsCover

(* An attachment has finitely many owners.                                 *)
LEMMA OwnersFinite ==
  ASSUME NEW f
  PROVE  IsFiniteSet(Owners(f)) /\ Cardinality(Owners(f)) \in Nat
<1>1. Owners(f) \in SUBSET Keys
  BY DEF Owners
<1> QED BY <1>1, FS_Subset, FS_CardinalityType

(* A step that binds no further title to f keeps its count sufficient ...  *)
LEMMA CoverKept ==
  ASSUME Basics, Basics', RefsCover, NEW f \in Files \ uncounted,
         Owners(f)' \subseteq Owners(f),
         fileRef[f]' - Credit(f)' >= fileRef[f] - Credit(f)
  PROVE  (Cardinality(Owners(f)) + Credit(f) <= fileRef[f])'
<1> DEFINE old == Owners(f)
           new == Owners(f)'
<1>0. IsFiniteSet(old) /\ new \in SUBSET old
  BY OwnersFinite
<1> HIDE DEF old, new
<1>1. Cardinality(new) <= Cardinality(old)
  BY <1>0, FS_Subset
<1>2. IsFiniteSet(new)
  BY <1>0, FS_Subset
<1> USE DEF old, new
<1>3. Cardinality(Owners(f)') \in Nat /\ Cardinality(Owners(f)) \in Nat
  BY <1>2, OwnersFinite, FS_CardinalityType
<1>4. fileRef[f] \in Int /\ fileRef'[f] \in Int
  BY DEF Basics, TypeOK
<1>5. Cardinality(Owners(f)) + Credit(f) <= fileRef[f]
  BY DEF RefsCover
<1> QED BY <1>1, <1>3, <1>4, <1>5 DEF Credit

(* ... and so does one that binds one more title to the credited one.      *)
LEMMA CoverPaid ==
  ASSUME Basics, Basics', RefsCover, NEW f \in Files \ uncounted, NEW k \in Keys,
         Owners(f)' = Owners(f) \cup {k}, cs.credit = f, cs'.credit # f,
         fileRef[f]' = fileRef[f]
  PROVE  (Cardinality(Owners(f)) + Credit(f) <= fileRef[f])'
<1> DEFINE old == Owners(f)
           new == Owners(f)'
<1>0. IsFiniteSet(old) /\ Cardinality(old) \in Nat /\ new = old \cup {k}
  BY OwnersFinite
<1> HIDE DEF old, new
<1>a. Cardinality(new) = IF k \in old THEN Cardinality(old) ELSE Cardinality(old) + 1
  BY <1>0, FS_AddElement
<1>1. Cardinality(new) <= Cardinality(old) + 1
  BY <1>0, <1>a
<1>2. IsFiniteSet(new)
  BY <1>0, FS_AddElement
<1> USE DEF old, new
<1>3. Cardinality(Owners(f)') \in Nat /\ Cardinality(Owners(f)) \in Nat
  BY <1>2, OwnersFinite, FS_CardinalityType
<1>4. fileRef[f] \in Int
  BY DEF Basics, TypeOK
<1>5. Cardinality(Owners(f)) + 1 <= fileRef[f]
  BY DEF RefsCover, Credit
<1> QED BY <1>1, <1>3, <1>4, <1>5 DEF Credit

(* What is known to be leaked or uncounted stays so.                       *)
LEMMA Grows == [Next]_vars => leaked \subseteq leaked' /\ uncounted \subseteq uncounted'
  BY DEF Next, vars, storeVars, PutBegin, PutRef, PutStore, DelStore, DelRef, AttachRef,
         AttachStore, RequestList, Snapshot, AnswerList, Restart, Leak

(* In a new store every count is sufficient.                               *)
LEMMA RefInit == Init => RefInv
<1> SUFFICES ASSUME Init PROVE RefInv
  OBVIOUS
<1>1. OwnedOK /\ CreditOK
  BY DEF Init, OwnedOK, CreditOK, Free
<1>2. ASSUME NEW f \in Files
      PROVE  Cardinality(Owners(f)) + Credit(f) <= fileRef[f]
  <2>1. Owners(f) = {}
    BY DEF Init, Owners
  <2>2. Credit(f) = 0 /\ fileRef[f] = 0
    BY DEF Init, Credit, Free
  <2> QED BY <2>1, <2>2, FS_EmptySet
<1> QED BY <1>1, <1>2, BasicsInit DEF RefInv, RefsCover

(* Every step keeps every count sufficient.                                *)
LEMMA RefStep == RefInv /\ [Next]_vars => RefInv'
<1> SUFFICES ASSUME RefInv, [Next]_vars PROVE RefInv'
  OBVIOUS
<1>0. Basics /\ Basics' /\ OwnedOK /\ CreditOK /\ RefsCover
  BY BasicsStep DEF RefInv
<1>a. /\ db \in [Keys -> Tiddler \cup {Absent}]
      /\ fileRef \in [Files -> Int]
      /\ owned \in [Keys -> SUBSET Files]
      /\ cs.at # "free" \/ cs = Free
      /\ uncounted \subseteq uncounted'
  BY Grows, <1>0 DEF Basics, TypeOK, SectionOK, CriticalSection
<1> USE DEF OwnedOK, CreditOK
<1>1. ASSUME NEW k \in Keys, NEW text \in Texts \cup {Skinny},
             NEW file \in Files \cup {NoFile}, PutBegin(k, text, file)
      PROVE  RefInv'
  <2>1. Updated(db[k], text, file).file = file
    BY DEF Updated
  <2>2. OwnedOK' /\ CreditOK'
    BY <1>0, <1>1, <1>a, <2>1 DEF PutBegin, Free
  <2>3. ASSUME NEW f \in Files \ uncounted'
        PROVE  (Cardinality(Owners(f)) + Credit(f) <= fileRef[f])'
    <3>1. Owners(f)' = Owners(f) /\ fileRef' = fileRef
      BY <1>1 DEF PutBegin, Owners
    <3>2. Credit(f)' = 0 /\ Credit(f) = 0
      BY <1>1 DEF PutBegin, Credit, Free
    <3> QED BY <1>0, <1>a, <3>1, <3>2, CoverKept
  <2> QED BY <1>0, <2>2, <2>3 DEF RefInv, RefsCover
<1>2. CASE PutRef
  <2>1. cs.td.file \in Files /\ cs.at = "putRef" /\ cs.credit = NoFile /\ cs \in CriticalSection
    BY <1>0, <1>2 DEF PutRef, Basics, SectionOK, TypeOK
  <2>2. ASSUME NEW f \in Files PROVE Owners(f)' = Owners(f) /\ Credit(f) = 0
    BY <1>2, <2>1 DEF PutRef, Owners, Credit
  <2>3. CASE /\ fileRef' = [fileRef EXCEPT ![cs.td.file] = @ + 1]
             /\ cs' = [cs EXCEPT !.at = "putStore", !.credit = cs.td.file]
    <3>1. cs'.at = "putStore" /\ cs'.credit = cs.td.file /\ cs'.td = cs.td
      BY <2>1, <2>3 DEF CriticalSection
    <3>2. OwnedOK' /\ CreditOK'
      BY <1>0, <1>2, <3>1 DEF PutRef
    <3>3. ASSUME NEW f \in Files \ uncounted'
          PROVE  (Cardinality(Owners(f)) + Credit(f) <= fileRef[f])'
      <4>1. Credit(f)' = IF f = cs.td.file THEN 1 ELSE 0
        BY <3>1 DEF Credit
      <4>2. fileRef'[f] - Credit(f)' >= fileRef[f] - Credit(f)
        BY <1>a, <2>1, <2>2, <2>3, <4>1
      <4> QED BY <1>0, <1>a, <2>2, <4>2, CoverKept
    <3> QED BY <1>0, <3>2, <3>3 DEF RefInv, RefsCover
  <2>4. CASE /\ cs' = [cs EXCEPT !.at = "putStore"]
             /\ uncounted' = uncounted \cup {cs.td.file}
             /\ fileRef' = fileRef
    <3>1. cs'.at = "putStore" /\ cs'.credit = NoFile /\ cs'.td = cs.td
      BY <2>1, <2>4 DEF CriticalSection
    <3>2. OwnedOK' /\ CreditOK'
      BY <1>0, <1>2, <2>4, <3>1 DEF PutRef
    <3>3. ASSUME NEW f \in Files \ uncounted'
          PROVE  (Cardinality(Owners(f)) + Credit(f) <= fileRef[f])'
      <4>1. Credit(f)' = 0
        BY <3>1 DEF Credit
      <4>2. fileRef'[f] - Credit(f)' >= fileRef[f] - Credit(f)
        BY <1>a, <2>2, <2>4, <4>1
      <4> QED BY <1>0, <1>a, <2>2, <4>2, CoverKept
    <3> QED BY <1>0, <3>2, <3>3 DEF RefInv, RefsCover
  <2> QED BY <1>2, <2>3, <2>4 DEF PutRef
<1>3. CASE PutStore
  <2>1. cs.key \in Keys /\ cs.td \in Tiddler /\ cs.td.file \in Files \cup {NoFile}
    BY <1>0, <1>3 DEF PutStore, Basics, SectionOK, Tiddler
  <2>2. OwnedOK' /\ CreditOK'
    BY <1>0, <1>3, <1>a, <2>1 DEF PutStore, Free, Tiddler
  <2>3. ASSUME NEW f \in Files \ uncounted'
        PROVE  (Cardinality(Owners(f)) + Credit(f) <= fileRef[f])'
    <3>1. Credit(f)' = 0 /\ fileRef' = fileRef /\ cs'.credit # f
      BY <1>3 DEF PutStore, Credit, Free
    <3>2. CASE Owners(f)' \subseteq Owners(f)
      BY <1>0, <1>a, <3>1, <3>2, CoverKept DEF Credit
    <3>3. CASE ~(Owners(f)' \subseteq Owners(f))
      <4>1. /\ owned' = [owned EXCEPT ![cs.key] = @ \cup Named(cs.td.file)]
            /\ cs.td.file = f
            /\ f \notin owned[cs.key]
            /\ f # NoFile
        BY <1>3, <1>a, <2>1, <3>3 DEF PutStore, Owners
      <4>a. db[cs.key] = Absent
        BY <1>3, <1>a, <3>3, <4>1 DEF PutStore, Owners
      <4>2. Owners(f)' = Owners(f) \cup {cs.key}
        BY <1>a, <2>1, <4>1 DEF Owners
      <4>3. cs.credit = f
        BY <1>0, <1>3, <1>a, <4>1, <4>a DEF PutStore
      <4> QED BY <1>0, <1>a, <2>1, <3>1, <4>2, <4>3, CoverPaid
    <3> QED BY <3>2, <3>3
  <2> QED BY <1>0, <2>2, <2>3 DEF RefInv, RefsCover
<1>4. ASSUME NEW k \in Keys, DelStore(k)
      PROVE  RefInv'
  <2>1. db[k] \in Tiddler /\ db[k].file \in owned[k] \cup {NoFile}
    BY <1>0, <1>4, <1>a DEF DelStore
  <2>2. OwnedOK' /\ CreditOK'
    BY <1>0, <1>4, <1>a DEF DelStore, Free
  <2>3. ASSUME NEW f \in Files \ uncounted'
        PROVE  (Cardinality(Owners(f)) + Credit(f) <= fileRef[f])'
    <3>1. Owners(f)' = Owners(f) \ {k} /\ fileRef' = fileRef
      BY <1>4, <1>a DEF DelStore, Owners
    <3>2. Credit(f) = 0 /\ Credit(f)' = IF f = db[k].file THEN 1 ELSE 0
      BY <1>4 DEF DelStore, Credit, Free
    <3>3. CASE f # db[k].file
      <4>1. Owners(f)' \subseteq Owners(f)
        BY <3>1
      <4>2. fileRef[f]' - Credit(f)' >= fileRef[f] - Credit(f)
        BY <1>a, <3>1, <3>2, <3>3
      <4> QED BY <1>0, <1>a, <4>1, <4>2, CoverKept
    <3>4. CASE f = db[k].file
      <4> DEFINE old == Owners(f)
      <4>1. k \in old /\ IsFiniteSet(old) /\ Cardinality(old) \in Nat
        BY <2>1, <3>4, OwnersFinite DEF Owners
      <4> HIDE DEF old
      <4>2. Cardinality(old \ {k}) = Cardinality(old) - 1
        BY <4>1, FS_RemoveElement
      <4>3. Cardinality(old) + 0 <= fileRef[f]
        BY <1>0, <1>a, <3>2 DEF RefsCover, old
      <4>4. Cardinality(old \ {k}) + 1 <= fileRef[f]
        BY <1>a, <4>1, <4>2, <4>3
      <4> QED BY <3>1, <3>2, <3>4, <4>4 DEF old
    <3> QED BY <3>3, <3>4
  <2> QED BY <1>0, <2>2, <2>3 DEF RefInv, RefsCover
<1>5. CASE DelRef
  <2>1. cs.credit \in Files
    BY <1>0, <1>5 DEF DelRef, Basics, SectionOK
  <2>2. OwnedOK' /\ CreditOK'
    BY <1>0, <1>5, <1>a DEF DelRef, Free
  <2>3. ASSUME NEW f \in Files \ uncounted'
        PROVE  (Cardinality(Owners(f)) + Credit(f) <= fileRef[f])'
    <3>1. Owners(f)' = Owners(f) /\ Credit(f)' = 0
      BY <1>5 DEF DelRef, Owners, Credit, Free
    <3>2. fileRef'[f] >= fileRef[f] - Credit(f)
      BY <1>5, <1>a, <2>1 DEF DelRef, Credit
    <3>3. fileRef'[f] \in Int
      BY <1>0 DEF Basics, TypeOK
    <3>4. fileRef[f]' - Credit(f)' >= fileRef[f] - Credit(f)
      BY <1>a, <3>1, <3>2, <3>3 DEF Credit
    <3> QED BY <1>0, <1>a, <3>1, <3>4, CoverKept
  <2> QED BY <1>0, <2>2, <2>3 DEF RefInv, RefsCover
<1>6. ASSUME NEW k \in Keys, NEW file \in Files, AttachRef(k, file)
      PROVE  RefInv'
  <2>1. OwnedOK' /\ CreditOK'
    BY <1>0, <1>6, <1>a DEF AttachRef
  <2>2. ASSUME NEW f \in Files \ uncounted'
        PROVE  (Cardinality(Owners(f)) + Credit(f) <= fileRef[f])'
    <3>1. Owners(f)' = Owners(f)
      BY <1>6 DEF AttachRef, Owners
    <3>2. Credit(f) = 0 /\ Credit(f)' = IF f = file THEN 1 ELSE 0
      BY <1>6 DEF AttachRef, Credit, Free
    <3>3. fileRef'[f] - Credit(f)' >= fileRef[f] - Credit(f)
      BY <1>6, <1>a, <3>2 DEF AttachRef
    <3> QED BY <1>0, <1>a, <3>1, <3>3, CoverKept
  <2> QED BY <1>0, <2>1, <2>2 DEF RefInv, RefsCover
<1>7. CASE AttachStore
  <2>1. /\ cs.key \in Keys /\ db[cs.key] # Absent /\ cs.td \in Tiddler
        /\ cs.td.file \in Files /\ cs.credit = cs.td.file
    <3>1. PICK file \in Files : /\ cs.td = [db[cs.key] EXCEPT !.file = file]
                                /\ cs.credit = file
      BY <1>0, <1>7 DEF AttachStore, Basics, SectionOK
    <3>2. cs.key \in Keys /\ db[cs.key] # Absent
      BY <1>0, <1>7 DEF AttachStore, Basics, SectionOK
    <3>3. db[cs.key] \in Tiddler
      BY <1>a, <3>2
    <3> QED BY <3>1, <3>2, <3>3 DEF Tiddler
  <2>2. OwnedOK' /\ CreditOK'
    BY <1>0, <1>7, <1>a, <2>1 DEF AttachStore, Free
  <2>3. ASSUME NEW f \in Files \ uncounted'
        PROVE  (Cardinality(Owners(f)) + Credit(f) <= fileRef[f])'
    <3>1. Credit(f)' = 0 /\ fileRef' = fileRef /\ cs'.credit # f
      BY <1>7 DEF AttachStore, Credit, Free
    <3>2. CASE Owners(f)' \subseteq Owners(f)
      BY <1>0, <1>a, <3>1, <3>2, CoverKept DEF Credit
    <3>3. CASE ~(Owners(f)' \subseteq Owners(f))
      <4>1. /\ owned' = [owned EXCEPT ![cs.key] = @ \cup {cs.td.file}]
            /\ cs.td.file = f
        BY <1>7, <1>a, <2>1, <3>3 DEF AttachStore, Owners
      <4>2. Owners(f)' = Owners(f) \cup {cs.key}
        BY <1>a, <2>1, <4>1 DEF Owners
      <4> QED BY <1>0, <1>a, <2>1, <3>1, <4>1, <4>2, CoverPaid
    <3> QED BY <3>2, <3>3
  <2> QED BY <1>0, <2>2, <2>3 DEF RefInv, RefsCover
<1>8. ASSUME UNCHANGED storeVars
      PROVE  RefInv'
  BY <1>0, <1>8 DEF storeVars, RefInv, RefsCover, Owners, Credit
<1>9. CASE Restart
  <2>1. OwnedOK' /\ CreditOK'
    BY <1>0, <1>9 DEF Restart, Free
  <2>2. ASSUME NEW f \in Files \ uncounted'
        PROVE  (Cardinality(Owners(f)) + Credit(f) <= fileRef[f])'
    <3>1. Owners(f)' = Owners(f) /\ fileRef' = fileRef /\ Credit(f)' = 0
      BY <1>9 DEF Restart, Owners, Credit, Free
    <3> QED BY <1>0, <1>a, <3>1, CoverKept DEF Credit
  <2> QED BY <1>0, <2>1, <2>2 DEF RefInv, RefsCover
<1>10. ASSUME NEW g \in Listers, RequestList(g) \/ Snapshot(g) \/ AnswerList(g)
       PROVE  UNCHANGED storeVars
  BY <1>10 DEF RequestList, Snapshot, AnswerList
<1>11. UNCHANGED vars => UNCHANGED storeVars
  BY DEF vars
<1> QED
  BY <1>1, <1>2, <1>3, <1>4, <1>5, <1>6, <1>7, <1>8, <1>9, <1>10, <1>11 DEF Next

(* Whatever writes fail and wherever the process is killed, a reference    *)
(* count never falls below the number of titles that may be bound to the   *)
(* attachment, as long as every Put that names it makes a new title and    *)
(* gets its count written.                                                 *)
THEOREM RefsSufficient == Spec => []RefsCover
<1>1. RefInv /\ [Next]_vars => RefInv'
  BY RefStep
<1>2. RefInv => RefsCover
  BY DEF RefInv
<1> QED BY <1>1, <1>2, RefInit, PTL DEF Spec

-----------------------------------------------------------------------------
(* Leaks.  A title that was bound to an attachment still is, and an        *)
(* attachment that is being counted for a title was not bound to it.       *)
OwnedIsBound ==
  \A f \in Files \ leaked, k \in Keys : f \in owned[k] => FileOf(db[k]) = f

FreshCredit ==
  /\ cs.at = "putRef" => db[cs.key] = Absent
  /\ cs.at = "putStore" /\ cs.credit # NoFile => db[cs.key] = Absent
  /\ cs.at = "attachStore" => \A k \in Keys : cs.credit \notin owned[k]

CountsBounded ==
  \A f \in Files \ leaked : fileRef[f] <= Cardinality(Owners(f)) + Credit(f)

ExactInv == RefInv /\ OwnedIsBound /\ FreshCredit /\ CountsBounded

(* With no section in progress, the two bounds of a count meet.            *)
LEMMA BoundsMeet == ExactInv => RefsExact
<1> SUFFICES ASSUME ExactInv, cs = Free, NEW f \in Files \ (leaked \cup uncounted)
             PROVE  fileRef[f] = Cardinality(BoundTo(f))
  BY DEF RefsExact
<1>1. BoundTo(f) = Owners(f)
  BY DEF ExactInv, RefInv, OwnedOK, OwnedIsBound, BoundTo, Owners, FileOf
<1>2. Credit(f) = 0
  BY DEF Credit, Free
<1>3. Cardinality(Owners(f)) <= fileRef[f] /\ fileRef[f] <= Cardinality(Owners(f))
  BY <1>2, OwnersFinite DEF ExactInv, RefInv, RefsCover, CountsBounded
<1>4. fileRef[f] \in Int /\ Cardinality(Owners(f)) \in Nat
  BY OwnersFinite DEF ExactInv, RefInv, Basics, TypeOK
<1> QED BY <1>1, <1>3, <1>4

(* A step that takes f off no title keeps its count bounded ...            *)
LEMMA BoundKept ==
  ASSUME Basics, Basics', CountsBounded, NEW f \in Files \ leaked,
         Owners(f) \subseteq Owners(f)',
         fileRef[f]' - Credit(f)' <= fileRef[f] - Credit(f)
  PROVE  (fileRef[f] <= Cardinality(Owners(f)) + Credit(f))'
<1> DEFINE old == Owners(f)
           new == Owners(f)'
<1>0. new \in SUBSET Keys /\ old \subseteq new
  BY DEF Owners
<1> HIDE DEF old, new
<1>1. /\ Cardinality(old) <= Cardinality(new)
      /\ Cardinality(old) \in Nat /\ Cardinality(new) \in Nat
  BY <1>0, FS_Subset, FS_CardinalityType
<1>2. fileRef[f] <= Cardinality(old) + Credit(f)
  BY DEF CountsBounded, old
<1>3. fileRef[f] \in Int /\ fileRef'[f] \in Int
  BY DEF Basics, TypeOK
<1>4. fileRef'[f] <= Cardinality(new) + Credit(f)'
  BY <1>1, <1>2, <1>3 DEF Credit
<1> QED BY <1>4 DEF new

(* ... and so does one that spends its credit on a new title ...           *)
LEMMA BoundPaid ==
  ASSUME Basics, Basics', CountsBounded, NEW f \in Files \ leaked, NEW k \in Keys,
         k \notin Owners(f), Owners(f)' = Owners(f) \cup {k}, cs.credit = f,
         fileRef[f]' = fileRef[f]
  PROVE  (fileRef[f] <= Cardinality(Owners(f)) + Credit(f))'
<1> DEFINE old == Owners(f)
<1>1. IsFiniteSet(old) /\ Cardinality(old) \in Nat /\ k \notin old
  BY OwnersFinite
<1>2. fileRef[f] <= Cardinality(old) + 1
  BY DEF CountsBounded, Credit
<1>3. fileRef[f] \in Int
  BY DEF Basics, TypeOK
<1> HIDE DEF old
<1>4. Cardinality(old \cup {k}) = Cardinality(old) + 1
  BY <1>1, FS_AddElement
<1>5. fileRef[f] <= Cardinality(old \cup {k}) + Credit(f)'
  BY <1>1, <1>2, <1>3, <1>4 DEF Credit
<1> QED BY <1>5 DEF old

(* ... or keeps the reference of a deleted title as a credit.              *)
LEMMA BoundOwed ==
  ASSUME Basics, Basics', CountsBounded, NEW f \in Files \ leaked, NEW k \in Keys,
         k \in Owners(f), Owners(f)' = Owners(f) \ {k}, cs.credit # f, cs'.credit = f,
         fileRef[f]' = fileRef[f]
  PROVE  (fileRef[f] <= Cardinality(Owners(f)) + Credit(f))'
<1> DEFINE old == Owners(f)
<1>1. IsFiniteSet(old) /\ Cardinality(old) \in Nat /\ k \in old
  BY OwnersFinite
<1>2. fileRef[f] <= Cardinality(old) + 0
  BY DEF CountsBounded, Credit
<1>3. fileRef[f] \in Int
  BY DEF Basics, TypeOK
<1> HIDE DEF old
<1>4. Cardinality(old \ {k}) = Cardinality(old) - 1
  BY <1>1, FS_RemoveElement
<1>5. fileRef[f] <= Cardinality(old \ {k}) + 1
  BY <1>1, <1>2, <1>3, <1>4
<1> QED BY <1>5 DEF old, Credit

(* Every step keeps the count of every attachment that has not leaked.     *)
LEMMA ExactStep == ExactInv /\ [Next]_vars => ExactInv'
<1> SUFFICES ASSUME ExactInv, [Next]_vars PROVE ExactInv'
  OBVIOUS
<1>0. /\ RefInv /\ RefInv' /\ Basics /\ Basics' /\ OwnedOK /\ CreditOK
      /\ OwnedIsBound /\ FreshCredit /\ CountsBounded
  BY RefStep DEF ExactInv, RefInv
<1>a. /\ db \in [Keys -> Tiddler \cup {Absent}]
      /\ fileRef \in [Files -> Int]
      /\ owned \in [Keys -> SUBSET Files]
      /\ cs \in CriticalSection
      /\ Free.at = "free" /\ Free.credit = NoFile
      /\ leaked \subseteq leaked' /\ uncounted \subseteq uncounted'
  BY <1>0, FreeType, Grows DEF Basics, TypeOK, Free
<1> DEFINE Bounded(f) == fileRef[f] <= Cardinality(Owners(f)) + Credit(f)
<1>b. ASSUME OwnedIsBound', FreshCredit', \A f \in Files \ leaked' : Bounded(f)'
      PROVE  ExactInv'
  BY <1>0, <1>b DEF ExactInv, CountsBounded
<1> HIDE DEF Bounded
<1>1. ASSUME NEW k \in Keys, NEW text \in Texts \cup {Skinny},
             NEW file \in Files \cup {NoFile}, PutBegin(k, text, file)
      PROVE  ExactInv'
  <2>1. UNCHANGED <<db, fileRef, owned, leaked>>
    BY <1>1 DEF PutBegin
  <2>2. OwnedIsBound' /\ FreshCredit'
    BY <1>0, <1>1, <2>1 DEF OwnedIsBound, FreshCredit, PutBegin
  <2>3. ASSUME NEW f \in Files \ leaked'
        PROVE  Bounded(f)'
    <3>1. Owners(f)' = Owners(f) /\ Credit(f)' = 0 /\ Credit(f) = 0
      BY <1>1, <1>a, <2>1 DEF PutBegin, Owners, Credit
    <3> QED BY <1>0, <1>a, <2>1, <3>1, BoundKept DEF Bounded
  <2> QED BY <1>b, <2>1, <2>2, <2>3
<1>2. CASE PutRef
  <2>1. /\ cs.td.file \in Files /\ cs.at = "putRef" /\ cs.credit = NoFile
        /\ db[cs.key] = Absent
        /\ UNCHANGED <<db, owned, leaked>>
    BY <1>0, <1>2 DEF PutRef, Basics, SectionOK, CreditOK, FreshCredit
  <2>2. /\ cs'.at = "putStore" /\ cs'.key = cs.key
        /\ \/ /\ fileRef' = [fileRef EXCEPT ![cs.td.file] = @ + 1]
              /\ cs'.credit = cs.td.file
           \/ fileRef' = fileRef /\ cs'.credit = NoFile
    BY <1>2, <1>a, <2>1 DEF CriticalSection, PutRef
  <2>3. OwnedIsBound' /\ FreshCredit'
    BY <1>0, <2>1, <2>2 DEF OwnedIsBound, FreshCredit
  <2>4. ASSUME NEW f \in Files \ leaked'
        PROVE  Bounded(f)'
    <3>1. Owners(f)' = Owners(f) /\ Credit(f) = 0
      BY <2>1 DEF Owners, Credit
    <3>2. fileRef[f]' - Credit(f)' <= fileRef[f] - Credit(f)
      BY <1>a, <2>1, <2>2, <3>1 DEF Credit
    <3> QED BY <1>0, <1>a, <3>1, <3>2, BoundKept DEF Bounded
  <2> QED BY <1>b, <2>3, <2>4
<1>3. CASE PutStore
  <2>1. /\ cs.key \in Keys /\ cs.td \in Tiddler /\ cs.at = "putStore"
        /\ cs.td # Absent /\ cs' = Free /\ fileRef' = fileRef
    BY <1>0, <1>3, TiddlersAssumption DEF PutStore, Basics, SectionOK
  <2>2. FreshCredit'
    BY <1>a, <2>1 DEF FreshCredit
  <2>3. CASE /\ db' = [db EXCEPT ![cs.key] = cs.td]
             /\ owned' = [owned EXCEPT ![cs.key] = @ \cup Named(cs.td.file)]
             /\ IF FileOf(db[cs.key]) = cs.td.file THEN UNCHANGED leaked
                ELSE Leak(FileOf(db[cs.key]))
    <3>1. leaked \subseteq leaked'
      BY <2>3 DEF Leak
    <3>2. ASSUME NEW f \in Files \ leaked', NEW k \in Keys, f \in owned'[k]
          PROVE  FileOf(db'[k]) = f
      <4>1. CASE k # cs.key
        BY <1>0, <1>a, <2>1, <2>3, <3>1, <3>2, <4>1 DEF OwnedIsBound
      <4>2. CASE k = cs.key
        <5>1. FileOf(db'[k]) = cs.td.file
          BY <1>a, <2>1, <2>3, <4>2 DEF FileOf
        <5>2. CASE f \in owned[k]
          <6>1. FileOf(db[k]) = f /\ f # NoFile
            BY <1>0, <3>1, <5>2, TiddlersAssumption DEF OwnedIsBound
          <6> QED BY <2>3, <3>2, <4>2, <5>1, <6>1 DEF Leak
        <5>3. CASE f \notin owned[k]
          BY <1>a, <2>1, <2>3, <3>2, <4>2, <5>1, <5>3
        <5> QED BY <5>2, <5>3
      <4> QED BY <4>1, <4>2
    <3>3. ASSUME NEW f \in Files \ leaked'
          PROVE  Bounded(f)'
      <4>0. f \in Files \ leaked /\ f # NoFile
        BY <3>1, TiddlersAssumption
      <4>1. Credit(f)' = 0
        BY <1>a, <2>1, <4>0 DEF Credit
      <4>2. CASE cs.credit = f
        <5>1. owned[cs.key] = {} /\ cs.td.file = f
          BY <1>0, <2>1, <4>0, <4>2 DEF FreshCredit, OwnedOK, CreditOK
        <5>2. cs.key \notin Owners(f) /\ Owners(f)' = Owners(f) \cup {cs.key}
          BY <1>a, <2>1, <2>3, <4>0, <5>1 DEF Owners
        <5> QED BY <1>0, <1>a, <2>1, <4>0, <4>2, <5>2, BoundPaid DEF Bounded
      <4>3. CASE cs.credit # f
        <5>2. Owners(f) \subseteq Owners(f)'
          BY <1>a, <2>1, <2>3 DEF Owners
        <5>3. Credit(f) = 0
          BY <4>3 DEF Credit
        <5> QED BY <1>0, <1>a, <2>1, <4>0, <4>1, <5>2, <5>3, BoundKept DEF Bounded
      <4> QED BY <4>2, <4>3
    <3> QED BY <1>b, <2>2, <3>2, <3>3 DEF OwnedIsBound
  <2>4. CASE Leak(cs.credit) /\ UNCHANGED <<db, owned>>
    <3>1. leaked \subseteq leaked' /\ (cs.credit # NoFile => cs.credit \in leaked')
      BY <2>4 DEF Leak
    <3>2. OwnedIsBound'
      BY <1>0, <2>4, <3>1 DEF OwnedIsBound
    <3>3. ASSUME NEW f \in Files \ leaked'
          PROVE  Bounded(f)'
      <4>1. Owners(f)' = Owners(f) /\ Credit(f) = 0 /\ Credit(f)' = 0
        BY <1>a, <2>1, <2>4, <3>1, TiddlersAssumption DEF Owners, Credit
      <4> QED BY <1>0, <1>a, <2>1, <3>1, <4>1, BoundKept DEF Bounded
    <3> QED BY <1>b, <2>2, <3>2, <3>3
  <2> QED BY <1>3, <2>3, <2>4 DEF PutStore
<1>4. ASSUME NEW k \in Keys, DelStore(k)
      PROVE  ExactInv'
  <2>1. /\ db[k] # Absent /\ cs = Free /\ UNCHANGED <<fileRef, leaked>>
        /\ db' = [db EXCEPT ![k] = Absent] /\ owned' = [owned EXCEPT ![k] = {}]
    BY <1>4 DEF DelStore
  <2>2. OwnedIsBound' /\ FreshCredit'
    BY <1>0, <1>4, <1>a, <2>1 DEF OwnedIsBound, FreshCredit, DelStore, Free
  <2>3. ASSUME NEW f \in Files \ leaked'
        PROVE  Bounded(f)'
    <3>1. Owners(f)' = Owners(f) \ {k} /\ f # NoFile
      BY <1>a, <2>1, TiddlersAssumption DEF Owners
    <3>2. Credit(f) = 0 /\ cs.credit # f
      BY <1>a, <2>1, <3>1 DEF Credit
    <3>3. CASE k \in Owners(f)
      <4>1. db[k].file = f
        BY <1>0, <2>1, <3>3 DEF OwnedIsBound, Owners, FileOf
      <4>2. cs'.credit = f
        BY <1>4, <3>1, <4>1 DEF DelStore, Free
      <4> QED BY <1>0, <1>a, <2>1, <3>1, <3>2, <3>3, <4>2, BoundOwed DEF Bounded
    <3>4. CASE k \notin Owners(f)
      <4>1. db[k].file # f
        BY <1>0, <2>1, <3>1, <3>4 DEF OwnedOK, Owners
      <4>2. Owners(f)' = Owners(f) /\ Credit(f)' = 0
        BY <1>4, <3>1, <3>4, <4>1 DEF DelStore, Free, Credit
      <4> QED BY <1>0, <1>a, <2>1, <3>2, <4>2, BoundKept DEF Bounded
    <3> QED BY <3>3, <3>4
  <2> QED BY <1>b, <2>1, <2>2, <2>3
<1>5. CASE DelRef
  <2>1. /\ cs.credit \in Files /\ cs' = Free /\ UNCHANGED <<db, owned>>
        /\ leaked \subseteq leaked'
    BY <1>0, <1>5 DEF DelRef, Basics, SectionOK, Leak
  <2>2. OwnedIsBound' /\ FreshCredit'
    BY <1>0, <1>a, <2>1 DEF OwnedIsBound, FreshCredit
  <2>3. ASSUME NEW f \in Files \ leaked'
        PROVE  Bounded(f)'
    <3>1. f \in Files \ leaked /\ Owners(f)' = Owners(f) /\ Credit(f)' = 0
      BY <1>a, <2>1, TiddlersAssumption DEF Owners, Credit
    <3>2. fileRef'[f] = fileRef[f] - Credit(f)
      <4>1. CASE fileRef' = [fileRef EXCEPT ![cs.credit] = @ - 1]
        BY <1>a, <2>1, <4>1 DEF Credit
      <4>2. CASE Leak(cs.credit) /\ UNCHANGED fileRef
        <5>1. cs.credit # f
          BY <2>1, <4>2, TiddlersAssumption DEF Leak
        <5> QED BY <1>a, <4>2, <5>1 DEF Credit
      <4> QED BY <1>5, <4>1, <4>2 DEF DelRef
    <3>3. fileRef[f]' - Credit(f)' <= fileRef[f] - Credit(f)
      BY <1>a, <3>1, <3>2 DEF Credit
    <3> QED BY <1>0, <1>a, <3>1, <3>3, BoundKept DEF Bounded
  <2> QED BY <1>b, <2>2, <2>3
<1>6. ASSUME NEW k \in Keys, NEW file \in Files, AttachRef(k, file)
      PROVE  ExactInv'
  <2>1. /\ cs = Free /\ cs'.at = "attachStore" /\ cs'.credit = file
        /\ fileRef' = [fileRef EXCEPT ![file] = @ + 1]
        /\ UNCHANGED <<db, owned, leaked>>
        /\ \A l \in Keys : file \notin owned[l]
    BY <1>6 DEF AttachRef, Unused
  <2>2. OwnedIsBound' /\ FreshCredit'
    BY <1>0, <2>1 DEF OwnedIsBound, FreshCredit
  <2>3. ASSUME NEW f \in Files \ leaked'
        PROVE  Bounded(f)'
    <3>1. Owners(f)' = Owners(f)
      BY <2>1 DEF Owners
    <3>2. Credit(f) = 0 /\ Credit(f)' = IF f = file THEN 1 ELSE 0
      BY <1>a, <2>1, TiddlersAssumption DEF Credit
    <3>3. fileRef[f]' - Credit(f)' <= fileRef[f] - Credit(f)
      BY <1>a, <2>1, <3>2
    <3> QED BY <1>0, <1>a, <3>1, <3>3, BoundKept DEF Bounded
  <2> QED BY <1>b, <2>1, <2>2, <2>3
<1>7. CASE AttachStore
  <2>1. /\ cs.at = "attachStore" /\ cs' = Free /\ fileRef' = fileRef
        /\ cs.key \in Keys /\ db[cs.key] # Absent
    BY <1>0, <1>7 DEF AttachStore, Basics, SectionOK
  <2>2. PICK file \in Files : cs.td = [db[cs.key] EXCEPT !.file = file] /\ cs.credit = file
    BY <1>0, <2>1 DEF Basics, SectionOK
  <2>3. db[cs.key] \in Tiddler /\ cs.td \in Tiddler /\ cs.td.file = file /\ cs.td # Absent
    BY <1>a, <2>1, <2>2, TiddlersAssumption DEF Tiddler
  <2>4. FreshCredit' /\ \A k \in Keys : file \notin owned[k]
    BY <1>0, <1>a, <2>1, <2>2 DEF FreshCredit
  <2>5. CASE /\ db' = [db EXCEPT ![cs.key] = cs.td]
             /\ owned' = [owned EXCEPT ![cs.key] = @ \cup {cs.td.file}]
             /\ Leak(db[cs.key].file)
    <3>1. leaked \subseteq leaked'
      BY <2>5 DEF Leak
    <3>2. ASSUME NEW f \in Files \ leaked', NEW k \in Keys, f \in owned'[k]
          PROVE  FileOf(db'[k]) = f
      <4>1. CASE k # cs.key
        BY <1>0, <1>a, <2>1, <2>5, <3>1, <3>2, <4>1 DEF OwnedIsBound
      <4>2. CASE k = cs.key
        <5>1. FileOf(db'[k]) = file
          BY <1>a, <2>1, <2>3, <2>5, <4>2 DEF FileOf
        <5>2. f \notin owned[k]
          <6>1. f \in owned[k] => db[k].file = f
            BY <1>0, <2>1, <3>1, <4>2 DEF OwnedIsBound, FileOf
          <6> QED BY <2>5, <3>2, <4>2, <6>1, TiddlersAssumption DEF Leak
        <5> QED BY <1>a, <2>1, <2>3, <2>5, <3>2, <4>2, <5>1, <5>2
      <4> QED BY <4>1, <4>2
    <3>3. ASSUME NEW f \in Files \ leaked'
          PROVE  Bounded(f)'
      <4>0. f \in Files \ leaked /\ f # NoFile
        BY <3>1, TiddlersAssumption
      <4>1. Credit(f)' = 0
        BY <1>a, <2>1, <4>0 DEF Credit
      <4>2. CASE f = file
        <5>1. cs.key \notin Owners(f) /\ Owners(f)' = Owners(f) \cup {cs.key}
          BY <1>a, <2>1, <2>3, <2>4, <2>5, <4>2 DEF Owners
        <5> QED BY <1>0, <1>a, <2>1, <2>2, <4>0, <4>2, <5>1, BoundPaid DEF Bounded
      <4>3. CASE f # file
        <5>1. Owners(f)' = Owners(f) /\ Credit(f) = 0
          BY <1>a, <2>1, <2>2, <2>3, <2>5, <4>3 DEF Owners, Credit
        <5> QED BY <1>0, <1>a, <2>1, <4>0, <4>1, <5>1, BoundKept DEF Bounded
      <4> QED BY <4>2, <4>3
    <3> QED BY <1>b, <2>4, <3>2, <3>3 DEF OwnedIsBound
  <2>6. CASE Leak(cs.credit) /\ UNCHANGED <<db, owned>>
    <3>1. leaked \subseteq leaked' /\ cs.credit \in leaked'
      BY <2>2, <2>6, TiddlersAssumption DEF Leak
    <3>2. OwnedIsBound'
      BY <1>0, <2>6, <3>1 DEF OwnedIsBound
    <3>3. ASSUME NEW f \in Files \ leaked'
          PROVE  Bounded(f)'
      <4>1. Owners(f)' = Owners(f) /\ Credit(f) = 0 /\ Credit(f)' = 0
        BY <1>a, <2>1, <2>6, <3>1, TiddlersAssumption DEF Owners, Credit
      <4> QED BY <1>0, <1>a, <2>1, <3>1, <4>1, BoundKept DEF Bounded
    <3> QED BY <1>b, <2>4, <3>2, <3>3
  <2> QED BY <1>7, <2>5, <2>6 DEF AttachStore
<1>8. ASSUME UNCHANGED storeVars
      PROVE  ExactInv'
  BY <1>0, <1>8 DEF storeVars, ExactInv, OwnedIsBound, FreshCredit, CountsBounded,
                    Owners, Credit
<1>9. CASE Restart
  <2>1. /\ cs' = Free /\ UNCHANGED <<db, fileRef, owned>>
        /\ leaked \subseteq leaked' /\ (cs.credit # NoFile => cs.credit \in leaked')
    BY <1>9 DEF Restart, Leak
  <2>2. OwnedIsBound' /\ FreshCredit'
    BY <1>0, <1>a, <2>1 DEF OwnedIsBound, FreshCredit
  <2>3. ASSUME NEW f \in Files \ leaked'
        PROVE  Bounded(f)'
    <3>1. Owners(f)' = Owners(f) /\ Credit(f) = 0 /\ Credit(f)' = 0
      BY <1>a, <2>1, TiddlersAssumption DEF Owners, Credit
    <3> QED BY <1>0, <1>a, <2>1, <3>1, BoundKept DEF Bounded
  <2> QED BY <1>b, <2>2, <2>3
<1>10. ASSUME NEW g \in Listers, RequestList(g) \/ Snapshot(g) \/ AnswerList(g)
       PROVE  UNCHANGED storeVars
  BY <1>10 DEF RequestList, Snapshot, AnswerList
<1>11. UNCHANGED vars => UNCHANGED storeVars
  BY DEF vars
<1> QED
  BY <1>1, <1>2, <1>3, <1>4, <1>5, <1>6, <1>7, <1>8, <1>9, <1>10, <1>11 DEF Next

(* A new store has no count.                                               *)
LEMMA ExactInit == Init => ExactInv
<1> SUFFICES ASSUME Init PROVE ExactInv
  OBVIOUS
<1>1. OwnedIsBound /\ FreshCredit
  BY DEF Init, OwnedIsBound, FreshCredit, Free
<1>2. ASSUME NEW f \in Files
      PROVE  fileRef[f] <= Cardinality(Owners(f)) + Credit(f)
  <2>1. fileRef[f] = 0 /\ Credit(f) \in {0, 1} /\ Cardinality(Owners(f)) \in Nat
    BY OwnersFinite DEF Init, Credit
  <2> QED BY <2>1
<1> QED BY <1>1, <1>2, RefInit DEF ExactInv, CountsBounded

(* The count of an attachment is exactly the number of tiddlers bound to   *)
(* it, unless an update has taken it off a title, a write was lost, or a   *)
(* Put bound it without counting it: its file is removed with the last     *)
(* tiddler.                                                                *)
THEOREM CountsExact == Spec => []RefsExact
<1>1. ExactInv /\ [Next]_vars => ExactInv'
  BY ExactStep
<1> QED BY <1>1, ExactInit, BoundsMeet, PTL DEF Spec

-----------------------------------------------------------------------------
(* Removal.  While Del's answer stands, no title may be bound to the file, *)
(* unless a Put has bound one without counting it.                         *)
HandInv ==
  /\ RefInv
  /\ handed # NoFile => /\ cs = Free
                        /\ handed \notin uncounted => Owners(handed) = {}

(* No tiddler is bound to an attachment without owners.                    *)
LEMMA UnownedIsUnbound ==
  ASSUME RefInv, NEW f \in Files, Owners(f) = {}
  PROVE  \A k \in Keys : FileOf(db[k]) # f
  BY DEF RefInv, OwnedOK, Owners, FileOf

(* A count of one in Del is the credit of the deleted tiddler alone.       *)
LEMMA LastReference ==
  ASSUME RefInv, NEW f \in Files \ uncounted, cs.credit = f, fileRef[f] - 1 = 0
  PROVE  Owners(f) = {}
<1>1. Cardinality(Owners(f)) + 1 <= fileRef[f]
  BY DEF RefInv, RefsCover, Credit
<1>2. fileRef[f] \in Int
  BY DEF RefInv, Basics, TypeOK
<1>3. IsFiniteSet(Owners(f)) /\ Cardinality(Owners(f)) \in Nat
  BY OwnersFinite
<1>4. Cardinality(Owners(f)) = 0
  BY <1>1, <1>2, <1>3
<1> QED BY <1>3, <1>4, FS_EmptySet

(* Every step keeps what Del has handed back without owners.               *)
LEMMA HandStep == HandInv /\ [Next]_vars => HandInv'
<1> SUFFICES ASSUME HandInv, [Next]_vars PROVE HandInv'
  OBVIOUS
<1>0. RefInv /\ RefInv' /\ SectionOK
  BY RefStep DEF HandInv, RefInv, Basics
<1>1. ASSUME handed' = NoFile
      PROVE  HandInv'
  BY <1>0, <1>1 DEF HandInv
<1>2. CASE DelRef
  <2>1. cs.credit \in Files /\ handed = NoFile
    BY <1>0, <1>2 DEF DelRef, SectionOK
  <2>2. CASE handed' = NoFile
    BY <1>1, <2>2
  <2>3. CASE handed' # NoFile
    <3>1. handed' = cs.credit /\ fileRef[cs.credit] - 1 = 0
      BY <1>2, <2>1, <2>3 DEF DelRef
    <3>2. cs.credit \notin uncounted => Owners(cs.credit) = {}
      BY <1>0, <2>1, <3>1, LastReference
    <3>3. (handed \notin uncounted => Owners(handed) = {})'
      BY <1>2, <3>1, <3>2 DEF DelRef, Owners
    <3> QED BY <1>0, <1>2, <3>3 DEF HandInv, DelRef
  <2> QED BY <2>2, <2>3
<1>3. CASE PutRef \/ PutStore \/ AttachStore
  BY <1>0, <1>1, <1>3 DEF PutRef, PutStore, AttachStore, SectionOK
<1>4. ASSUME UNCHANGED storeVars
      PROVE  HandInv'
  BY <1>0, <1>4 DEF HandInv, storeVars, Owners
<1>5. ASSUME NEW g \in Listers, RequestList(g) \/ Snapshot(g) \/ AnswerList(g)
      PROVE  UNCHANGED storeVars
  BY <1>5 DEF RequestList, Snapshot, AnswerList
<1>6. UNCHANGED vars => UNCHANGED storeVars
  BY DEF vars
<1> QED
  BY <1>1, <1>2, <1>3, <1>4, <1>5, <1>6
     DEF Next, PutBegin, DelStore, AttachRef, Restart

(* An attachment Del hands back for removal is bound to no stored tiddler, *)
(* whatever writes fail and wherever the process is killed, as long as     *)
(* every Put that names it makes a new title and gets its count written.   *)
THEOREM HandedSafe == Spec => []HandedIsUnbound
<1>1. HandInv /\ [Next]_vars => HandInv'
  BY HandStep
<1>2. Init => HandInv
  BY RefInit DEF HandInv, Init
<1>3. HandInv => HandedIsUnbound
  BY UnownedIsUnbound DEF HandInv, HandedIsUnbound, HandedIsNeverBound, RefInv, Basics, TypeOK
<1> QED BY <1>1, <1>2, <1>3, PTL DEF Spec

-----------------------------------------------------------------------------
(* The listing cache.                                                      *)
CacheInv == Basics /\ FreshIn({Listing(db)})

(* A step that changes neither the cache nor what a listing shows.         *)
LEMMA InvisibleChange ==
  ASSUME CacheInv, Basics', UNCHANGED cacheVars, Listing(db)' = Listing(db)
  PROVE  CacheInv'
  BY FreshSame DEF CacheInv

(* Every step of the store keeps the cache fresh unless raced.             *)
LEMMA CacheStep == CacheInv /\ [Next]_vars => CacheInv'
<1> SUFFICES ASSUME CacheInv, [Next]_vars PROVE CacheInv'
  OBVIOUS
<1>0. Basics /\ Basics'
  BY BasicsStep DEF CacheInv
<1>1. CASE PutStore
  <2>1. CASE FlagDirty /\ NoteChange
    BY <1>0, <1>1, <2>1, FreshFlagged DEF PutStore, CacheInv
  <2>2. CASE UNCHANGED <<db, owned, uncounted, dirty, raced>>
    BY <1>0, <1>1, <2>2, InvisibleChange DEF PutStore, cacheVars
  <2> QED BY <1>1, <2>1, <2>2 DEF PutStore
<1>2. ASSUME NEW k \in Keys, DelStore(k)
      PROVE  CacheInv'
  BY <1>0, <1>2, FreshFlagged DEF DelStore, CacheInv
<1>3. CASE AttachStore
  <2>1. PICK file \in Files : cs.td = [db[cs.key] EXCEPT !.file = file]
    BY <1>0, <1>3 DEF AttachStore, Basics, SectionOK
  <2>2. cs.key \in Keys /\ db[cs.key] # Absent /\ db \in [Keys -> Tiddler \cup {Absent}]
    BY <1>0, <1>3 DEF AttachStore, Basics, SectionOK, TypeOK
  <2>3. db[cs.key] \in Tiddler
    BY <2>2
  <2>4. cs.td \in Tiddler /\ cs.td.rev = db[cs.key].rev /\ cs.td.text = db[cs.key].text
    BY <2>1, <2>3 DEF Tiddler
  <2>5. cs.td # Absent
    BY <2>4
  <2>6. \/ db' = [db EXCEPT ![cs.key] = cs.td]
        \/ db' = db
    BY <1>3 DEF AttachStore
  <2>7. Listing(db)' = Listing(db)
    BY <2>2, <2>4, <2>5, <2>6 DEF Listing
  <2> QED BY <1>0, <1>3, <2>7, InvisibleChange DEF AttachStore
<1>4. ASSUME NEW g \in Listers, RequestList(g) \/ Snapshot(g) \/ AnswerList(g)
      PROVE  CacheInv'
  <2>1. CacheTypeOK(Listings) /\ FreshIn({Listing(db)}) /\ Listing(db)' = Listing(db)
    BY <1>0, <1>4 DEF CacheInv, Basics, TypeOK, RequestList, Snapshot, AnswerList, storeVars
  <2>2. FreshIn({Listing(db)})'
    BY <1>4, <2>1, FreshListStep DEF RequestList, Snapshot, AnswerList
  <2> QED BY <1>0, <2>2 DEF CacheInv
<1>5. CASE Restart
  BY <1>0, <1>5, FreshRestart DEF Restart, CacheInv
<1>6. ASSUME UNCHANGED <<db, cacheVars>>
      PROVE  CacheInv'
  BY <1>0, <1>6, InvisibleChange
<1>7. UNCHANGED vars => UNCHANGED <<db, cacheVars>>
  BY DEF vars, storeVars
<1> QED
  BY <1>1, <1>2, <1>3, <1>4, <1>5, <1>6, <1>7
     DEF Next, PutBegin, PutRef, DelRef, AttachRef

(* Unless the store changes between the last lister's snapshot and its     *)
(* reset of the dirty flag, the cached listing is current or due for a     *)
(* rebuild.                                                                *)
THEOREM CacheFresh == Spec => []FreshUnlessRaced
<1>1. Init => CacheInv
  BY BasicsInit, FreshStart DEF Init, CacheInv
<1>2. CacheInv => FreshUnlessRaced
  BY DEF CacheInv, FreshIn, FreshUnlessRaced
<1> QED BY <1>1, <1>2, CacheStep, PTL DEF Spec

-----------------------------------------------------------------------------
(* Refinement.  A section is one step of the interface where it writes the *)
(* tiddlers; Del answers in a second one.                                  *)
LEMMA ImplStep == HandInv /\ [Next]_vars => [Interface!Next]_(Interface!vars)
<1> SUFFICES ASSUME HandInv, [Next]_vars PROVE [Interface!Next]_(Interface!vars)
  OBVIOUS
<1> DEFINE unbound == IF cs.at = "delRef" THEN Counted(cs.credit) ELSE NoFile
           back == Counted(handed)
<1>0. /\ HandInv' /\ RefInv /\ SectionOK
      /\ db \in [Keys -> Tiddler \cup {Absent}]
  BY HandStep DEF HandInv, RefInv, Basics, TypeOK
<1>1. ASSUME db' = db, handed' = NoFile, unbound' = NoFile
      PROVE  Interface!Next
  <2>1. back' = NoFile
    BY <1>1 DEF Counted
  <2> QED BY <1>1, <2>1 DEF Interface!Next, Interface!Withhold
<1>2. CASE PutStore
  <2>1. unbound' = NoFile /\ handed' = NoFile
    BY <1>0, <1>2 DEF PutStore, Free, SectionOK
  <2>2. CASE db' = db
    BY <1>1, <2>1, <2>2
  <2>3. CASE db' # db
    <3>1. /\ cs.key \in Keys
          /\ \E text \in Texts \cup {Skinny}, file \in Files \cup {NoFile} :
               cs.td = Updated(db[cs.key], text, file)
      BY <1>0, <1>2 DEF PutStore, SectionOK
    <3>2. PICK text \in Texts \cup {Skinny}, file \in Files \cup {NoFile} :
            cs.td = Updated(db[cs.key], text, file)
      BY <3>1
    <3>3. db' = [db EXCEPT ![cs.key] = Updated(db[cs.key], text, file)]
      BY <1>2, <2>3, <3>2 DEF PutStore
    <3>a. back' = NoFile
      BY <2>1 DEF Counted
    <3>4. Interface!Put(cs.key, text, file)
      BY <2>1, <3>3, <3>a DEF Interface!Put, Interface!Updated, Updated
    <3> QED BY <3>1, <3>4 DEF Interface!Next
  <2> QED BY <2>2, <2>3
<1>3. ASSUME NEW k \in Keys, DelStore(k)
      PROVE  Interface!Next
  <2>1. unbound' \in {FileOf(db[k]), NoFile} /\ back' = NoFile
    BY <1>3 DEF DelStore, Free, FileOf, Counted
  <2>2. Interface!Del(k)
    BY <1>3, <2>1 DEF DelStore, Interface!Del, Interface!FileOf, FileOf
  <2> QED BY <2>2 DEF Interface!Next
<1>4. CASE DelRef
  <2>1. /\ cs.credit \in Files /\ unbound = Counted(cs.credit)
        /\ unbound' = NoFile /\ db' = db /\ uncounted' = uncounted
    BY <1>0, <1>4 DEF DelRef, SectionOK, Free
  <2>2. CASE back' = NoFile
    BY <2>1, <2>2 DEF Interface!Next, Interface!Withhold
  <2>3. CASE back' # NoFile
    <3>1. handed' = cs.credit /\ cs.credit \notin uncounted
      BY <1>0, <1>4, <2>1, <2>3 DEF DelRef, SectionOK, Counted
    <3>a. Owners(cs.credit) = {}
      BY <1>0, <1>4, <2>1, <3>1 DEF HandInv, DelRef, Owners
    <3>b. \A k \in Keys : FileOf(db[k]) # cs.credit
      BY <1>0, <2>1, <3>a, UnownedIsUnbound
    <3>2. unbound = cs.credit /\ back' = cs.credit
      BY <2>1, <3>1 DEF Counted
    <3>3. Interface!HandBack
      BY <2>1, <3>2, <3>b DEF Interface!HandBack, Interface!FileOf, FileOf
    <3> QED BY <3>3 DEF Interface!Next
  <2> QED BY <2>2, <2>3
<1>5. CASE AttachStore
  <2>1. unbound' = NoFile /\ handed' = NoFile
    BY <1>0, <1>5 DEF AttachStore, Free, SectionOK
  <2>2. CASE db' = db
    BY <1>1, <2>1, <2>2
  <2>3. CASE db' # db
    <3>1. PICK file \in Files : cs.td = [db[cs.key] EXCEPT !.file = file]
      BY <1>0, <1>5 DEF AttachStore, SectionOK
    <3>2. cs.key \in Keys /\ db[cs.key] # Absent
      BY <1>0, <1>5 DEF AttachStore, SectionOK
    <3>3. db' = [db EXCEPT ![cs.key] = [db[cs.key] EXCEPT !.file = file]]
      BY <1>5, <2>3, <3>1 DEF AttachStore
    <3>a. back' = NoFile
      BY <2>1 DEF Counted
    <3>4. Interface!Attach(cs.key, file)
      BY <2>1, <3>2, <3>3, <3>a DEF Interface!Attach
    <3> QED BY <3>2, <3>4 DEF Interface!Next
  <2> QED BY <2>2, <2>3
<1>6. CASE PutRef
  BY <1>0, <1>1, <1>6 DEF PutRef, SectionOK, HandInv, RefInv, Basics, TypeOK,
                          CriticalSection
<1>7. ASSUME NEW k \in Keys, NEW text \in Texts \cup {Skinny},
             NEW file \in Files \cup {NoFile}, PutBegin(k, text, file)
      PROVE  Interface!Next
  BY <1>1, <1>7 DEF PutBegin
<1>8. ASSUME NEW k \in Keys, NEW file \in Files, AttachRef(k, file)
      PROVE  Interface!Next
  BY <1>1, <1>8 DEF AttachRef
<1>9. CASE Restart
  BY <1>1, <1>9 DEF Restart, Free
<1>10. ASSUME UNCHANGED storeVars
       PROVE  UNCHANGED Interface!vars
  BY <1>10 DEF storeVars, Interface!vars, Counted
<1>11. ASSUME NEW g \in Listers, RequestList(g) \/ Snapshot(g) \/ AnswerList(g)
       PROVE  UNCHANGED storeVars
  BY <1>11 DEF RequestList, Snapshot, AnswerList
<1>12. UNCHANGED vars => UNCHANGED storeVars
  BY DEF vars
<1> QED
  BY <1>2, <1>3, <1>4, <1>5, <1>6, <1>7, <1>8, <1>9, <1>10, <1>11, <1>12 DEF Next

(* The store implements the interface Store, whatever writes fail and      *)
(* wherever the process is killed, if its user takes an attachment that a  *)
(* Put left uncounted for none when it is handed back.                     *)
THEOREM Implements == Spec => ImplementsInterface
<1>1. HandInv /\ [Next]_vars => HandInv'
  BY HandStep
<1>2. HandInv /\ [Next]_vars => [Interface!Next]_(Interface!vars)
  BY ImplStep
<1>3. Init => HandInv /\ Interface!Init
  BY RefInit DEF HandInv, Init, Interface!Init, Free, Counted
<1> QED BY <1>1, <1>2, <1>3, PTL DEF Spec, ImplementsInterface, Interface!Spec

=============================================================================
