---------------------------- MODULE WikiFilesProofs ----------------------------
(***************************************************************************)
(* Theorems about uploads, DELETEs and the directory of files, for every   *)
(* number of titles, files, texts and handlers, and every bound.           *)
(***************************************************************************)
EXTENDS WikiFiles, BitcaskStoreProofs

USE TiddlersAssumption, BitcaskAssumption DEF Named

(* A file being uploaded is in the directory, in one upload only, and no   *)
(* client knows it.                                                        *)
Uploads == {j \in Jobs : job[j].at \in {"put", "putting", "attach", "attaching"}}

UploadOK ==
  \A j \in Uploads :
    /\ job[j].key \in Keys
    /\ job[j].file \in disk /\ job[j].file \in drawn /\ job[j].file \notin known
    /\ \A i \in Uploads : job[i].file = job[j].file => i = j

(* Which handler the section in progress belongs to.                       *)
OwnerOK ==
  /\ \A j \in Jobs :
       /\ job[j].at \in {"idle", "deleting"} => job[j].file = NoFile
       /\ job[j].at = "attaching" => cs.at = "attachStore" /\ job[j].file = cs.credit
       /\ job[j].at = "deleting" => cs.at = "delRef"
       /\ job[j].at = "remove" => job[j].file \in doomed
  /\ cs.at = "attachStore" => \E j \in Jobs : job[j].at = "attaching"
  /\ cs.at = "delRef" => \E j \in Jobs : job[j].at = "deleting"

(* A file the clients know is in the directory until Del has handed it     *)
(* back; what the store is bound to, or will be, is known to them or       *)
(* invented by them.                                                       *)
KnownOK ==
  /\ doomed \subseteq known \cup invented
  /\ known \subseteq drawn /\ invented \cap drawn = {}
  /\ known \subseteq disk \cup doomed
  /\ \A k \in Keys : FileOf(db[k]) \in known \cup invented \cup {NoFile}
  /\ cs.at \in {"putRef", "putStore"} => cs.td.file \in known \cup invented \cup {NoFile}
  /\ cs.at = "delRef" => cs.credit \in known \cup invented

(* A file handed back for removal is bound to a title only by a late PUT,  *)
(* or by one that did not count it.                                        *)
DoomedOK ==
  \A k \in Keys : FileOf(db[k]) \in doomed => FileOf(db[k]) \in late \cup uncounted

FileInv == Basics /\ WikiTypeOK /\ UploadOK /\ OwnerOK /\ KnownOK

JobStages == {"idle", "put", "putting", "attach", "attaching", "deleting", "remove"}
JobStates == [at : JobStages, key : Keys \cup {NoKey}, file : Files \cup {NoFile}]

(* A step of the handlers is one of the store, or leaves it alone.         *)
LEMMA StoreStep == FileInv /\ [WikiNext]_wikiVars => [Next]_vars
<1> SUFFICES ASSUME FileInv, [WikiNext]_wikiVars PROVE [Next]_vars
  OBVIOUS
<1>0. \A j \in Uploads : job[j].key \in Keys /\ job[j].file \in Files
  BY DEF FileInv, UploadOK, WikiTypeOK
<1>1. ASSUME NEW j \in Jobs, UploadPut(j) PROVE Next
  <2>1. job[j].key \in Keys /\ EmptyText \in Texts \cup {Skinny} /\ NoFile \in Files \cup {NoFile}
    BY <1>0, <1>1 DEF UploadPut, Uploads
  <2> QED BY <1>1, <2>1 DEF UploadPut, Next
<1>2. ASSUME NEW j \in Jobs, UploadAttach(j) PROVE [Next]_vars
  <2>1. job[j].key \in Keys /\ job[j].file \in Files
    BY <1>0, <1>2 DEF UploadAttach, Uploads
  <2> QED BY <1>2, <2>1 DEF UploadAttach, Next
<1>3. ASSUME NEW k \in Keys, NEW text \in Texts \cup {Skinny}, NEW file \in Files \cup {NoFile},
             PutTiddler(k, text, file)
      PROVE  Next
  BY <1>3 DEF PutTiddler, Next
<1>4. ASSUME NEW j \in Jobs, NEW k \in Keys, DelTiddler(j, k) PROVE Next
  BY <1>4 DEF DelTiddler, Next
<1>5. ASSUME WritePutRef \/ WritePut \/ WriteAttach \/ WriteDel \/ Kill PROVE Next
  BY <1>5 DEF WritePutRef, WritePut, WriteAttach, WriteDel, Kill, Next
<1>6. ASSUME NEW j \in Jobs, RemoveFile(j) PROVE UNCHANGED vars
  BY <1>6 DEF RemoveFile
<1>7. ASSUME NEW j \in Jobs, NEW k \in Keys, NEW file \in Files, SaveFile(j, k, file)
      PROVE  UNCHANGED vars
  BY <1>7 DEF SaveFile
<1>8. CASE UNCHANGED wikiVars
  BY <1>8 DEF wikiVars
<1> QED BY <1>1, <1>2, <1>3, <1>4, <1>5, <1>6, <1>7, <1>8 DEF WikiNext

(* A handler that goes to another stage keeps its title and file.          *)
LEMMA JobMoved ==
  ASSUME job \in [Jobs -> JobStates], NEW j \in Jobs, NEW stage \in JobStages, GoTo(j, stage)
  PROVE  /\ job' \in [Jobs -> JobStates]
         /\ job'[j].at = stage /\ job'[j].key = job[j].key /\ job'[j].file = job[j].file
         /\ \A i \in Jobs : i # j => job'[i] = job[i]
  BY DEF GoTo, JobStates

(* One that is done is idle again.                                         *)
LEMMA JobDone ==
  ASSUME job \in [Jobs -> JobStates], NEW j \in Jobs, Finish(j)
  PROVE  /\ job' \in [Jobs -> JobStates]
         /\ job'[j].at = "idle" /\ job'[j].file = NoFile
         /\ \A i \in Jobs : i # j => job'[i] = job[i]
  BY DEF Finish, JobStates, IdleJob, JobStages

(* Every step keeps what the handlers, the store and the directory hold.   *)
LEMMA FileStep == FileInv /\ [WikiNext]_wikiVars => FileInv'
<1> SUFFICES ASSUME FileInv, [WikiNext]_wikiVars PROVE FileInv'
  OBVIOUS
<1>0. Basics /\ Basics' /\ TypeOK /\ TypeOK' /\ SectionOK
  BY StoreStep, BasicsStep DEF FileInv, Basics
<1>a. /\ disk \in SUBSET Files /\ job \in [Jobs -> JobStates]
      /\ drawn \in SUBSET Files /\ known \in SUBSET Files /\ doomed \in SUBSET Files
      /\ invented \in SUBSET Files
      /\ late \in SUBSET Files /\ abandoned \in SUBSET Files
  BY DEF FileInv, WikiTypeOK, JobStates, JobStages
<1>b. ASSUME disk' \in SUBSET Files, job' \in [Jobs -> JobStates],
             drawn' \in SUBSET Files, known' \in SUBSET Files, doomed' \in SUBSET Files,
             invented' \in SUBSET Files, late' \in SUBSET Files, abandoned' \in SUBSET Files
      PROVE  WikiTypeOK'
  BY <1>0, <1>b DEF WikiTypeOK, JobStates, JobStages
<1>c. /\ db \in [Keys -> Tiddler \cup {Absent}] /\ db' \in [Keys -> Tiddler \cup {Absent}]
      /\ cs \in CriticalSection /\ cs' \in CriticalSection
      /\ Free.at = "free" /\ Free.credit = NoFile
      /\ cs.at # "free" \/ cs = Free
  BY <1>0 DEF TypeOK, Free, SectionOK
<1>d. UploadOK /\ OwnerOK /\ KnownOK
  BY DEF FileInv
<1>1. ASSUME NEW k \in Keys, NEW text \in Texts \cup {Skinny}, NEW file \in Files \cup {NoFile},
             PutTiddler(k, text, file)
      PROVE  FileInv'
  <2>1. /\ db' = db /\ file \notin drawn \ known /\ cs = Free
        /\ cs'.at \in {"putRef", "putStore"} /\ cs'.td.file = file /\ cs'.credit = NoFile
    BY <1>1 DEF PutTiddler, PutBegin, Updated
  <2>2. /\ UNCHANGED <<disk, job, drawn, known, doomed, late, abandoned>>
        /\ invented' = invented \cup (Named(file) \ drawn)
    BY <1>1 DEF PutTiddler
  <2>3. WikiTypeOK'
    BY <1>a, <1>b, <2>2
  <2>4. UploadOK'
    BY <1>d, <2>2 DEF UploadOK, Uploads
  <2>5. OwnerOK' /\ KnownOK'
    BY <1>c, <1>d, <2>1, <2>2 DEF OwnerOK, KnownOK
  <2> QED BY <1>0, <2>3, <2>4, <2>5 DEF FileInv
<1>2. ASSUME NEW j \in Jobs, NEW k \in Keys, NEW file \in Files, SaveFile(j, k, file)
      PROVE  FileInv'
  <2>1. /\ job[j].at = "idle" /\ file \notin drawn \cup invented /\ drawn' = drawn \cup {file}
        /\ disk' = disk \cup {file} /\ UNCHANGED <<known, invented, doomed, late>>
        /\ db' = db /\ cs' = cs
    BY <1>2 DEF SaveFile, vars, storeVars
  <2>2. \/ /\ job' \in [Jobs -> JobStates]
           /\ job'[j].at = "put" /\ job'[j].key = k /\ job'[j].file = file
           /\ \A i \in Jobs : i # j => job'[i] = job[i]
        \/ job' = job
    BY <1>2, <1>a DEF SaveFile, JobStates, JobStages
  <2>3. abandoned' \in SUBSET Files
    BY <1>2, <1>a DEF SaveFile, Abandon
  <2>4. WikiTypeOK'
    BY <1>a, <1>b, <2>1, <2>2, <2>3
  <2>5. UploadOK'
    BY <1>d, <2>1, <2>2 DEF UploadOK, Uploads, KnownOK
  <2>6. OwnerOK' /\ KnownOK'
    BY <1>c, <1>d, <2>1, <2>2 DEF OwnerOK, KnownOK
  <2> QED BY <1>0, <2>4, <2>5, <2>6 DEF FileInv
<1>3. ASSUME NEW j \in Jobs, UploadPut(j)
      PROVE  FileInv'
  <2>1. /\ job[j].at = "put" /\ GoTo(j, "putting") /\ UNCHANGED <<disk, drawn, known, invented, doomed, late, abandoned>>
        /\ db' = db /\ cs = Free
        /\ cs'.at \in {"putRef", "putStore"} /\ cs'.td.file = NoFile /\ cs'.credit = NoFile
    BY <1>3 DEF UploadPut, PutBegin, Updated
  <2>2. /\ job' \in [Jobs -> JobStates]
        /\ job'[j].at = "putting" /\ job'[j].key = job[j].key /\ job'[j].file = job[j].file
        /\ \A i \in Jobs : i # j => job'[i] = job[i]
    BY <1>a, <2>1, JobMoved DEF JobStages
  <2>4. WikiTypeOK'
    BY <1>a, <1>b, <2>1, <2>2
  <2>5. UploadOK'
    BY <1>d, <2>1, <2>2 DEF UploadOK, Uploads
  <2>6. OwnerOK' /\ KnownOK'
    BY <1>c, <1>d, <2>1, <2>2 DEF OwnerOK, KnownOK
  <2> QED BY <1>0, <2>4, <2>5, <2>6 DEF FileInv
<1>4. CASE WritePutRef
  <2>1. UNCHANGED <<disk, job, drawn, known, invented, doomed, late, abandoned>> /\ db' = db
    BY <1>4 DEF WritePutRef, PutRef, fileVars
  <2>2. cs.at = "putRef" /\ cs'.at = "putStore" /\ cs'.td = cs.td
    BY <1>4, <1>c DEF WritePutRef, PutRef, CriticalSection
  <2>3. WikiTypeOK'
    BY <1>a, <1>b, <2>1
  <2>4. UploadOK'
    BY <1>d, <2>1 DEF UploadOK, Uploads
  <2>5. OwnerOK' /\ KnownOK'
    BY <1>c, <1>d, <2>1, <2>2 DEF OwnerOK, KnownOK
  <2> QED BY <1>0, <2>3, <2>4, <2>5 DEF FileInv
<1>5. CASE WritePut
  <2>1. /\ cs.at = "putStore" /\ cs' = Free /\ cs.key \in Keys /\ cs.td \in Tiddler
        /\ UNCHANGED <<disk, drawn, known, invented, doomed, abandoned>>
        /\ late' = IF db' # db /\ cs.td.file \in doomed THEN late \cup {cs.td.file} ELSE late
    BY <1>0, <1>5 DEF WritePut, PutStore, SectionOK
  <2>2. db' = db \/ db' = [db EXCEPT ![cs.key] = cs.td]
    BY <1>5 DEF WritePut, PutStore
  <2>3. /\ job' \in [Jobs -> JobStates]
        /\ \A i \in Jobs : /\ job'[i].key = job[i].key /\ job'[i].file = job[i].file
                           /\ job'[i].at = IF job[i].at = "putting" THEN "attach" ELSE job[i].at
    BY <1>5, <1>a DEF WritePut, JobStates, JobStages
  <2>4. WikiTypeOK'
    BY <1>a, <1>b, <2>1, <2>3
  <2>5. UploadOK'
    BY <1>d, <2>1, <2>3 DEF UploadOK, Uploads
  <2>6. OwnerOK'
    BY <1>c, <1>d, <2>1, <2>3 DEF OwnerOK
  <2>7. cs.td # Absent /\ FileOf(cs.td) = cs.td.file
    BY <2>1 DEF FileOf
  <2>8. \A k \in Keys : \/ FileOf(db'[k]) = FileOf(db[k])
                        \/ FileOf(db'[k]) = cs.td.file /\ db' # db
    BY <1>c, <2>2, <2>7
  <2>9. KnownOK'
    BY <1>c, <1>d, <2>1, <2>8 DEF KnownOK
  <2> QED BY <1>0, <2>4, <2>5, <2>6, <2>9 DEF FileInv
<1>6. ASSUME NEW j \in Jobs, UploadAttach(j)
      PROVE  FileInv'
  <2>1. /\ job[j].at = "attach" /\ cs = Free
        /\ UNCHANGED <<disk, drawn, known, invented, doomed, late>> /\ db' = db
    BY <1>6 DEF UploadAttach, AttachRef, vars, storeVars
  <2>2. CASE AttachRef(job[j].key, job[j].file) /\ GoTo(j, "attaching") /\ UNCHANGED abandoned
    <3>1. cs'.at = "attachStore" /\ cs'.credit = job[j].file
      BY <2>2 DEF AttachRef
    <3>2. /\ job' \in [Jobs -> JobStates]
          /\ job'[j].at = "attaching" /\ job'[j].key = job[j].key /\ job'[j].file = job[j].file
          /\ \A i \in Jobs : i # j => job'[i] = job[i]
      BY <1>a, <2>2, JobMoved DEF JobStages
    <3>3. WikiTypeOK'
      BY <1>a, <1>b, <2>1, <2>2, <3>2
    <3>4. UploadOK'
      BY <1>d, <2>1, <3>2 DEF UploadOK, Uploads
    <3>5. OwnerOK' /\ KnownOK'
      BY <1>c, <1>d, <2>1, <3>1, <3>2 DEF OwnerOK, KnownOK
    <3> QED BY <1>0, <3>3, <3>4, <3>5 DEF FileInv
  <2>3. CASE Finish(j) /\ Abandon({job[j].file}) /\ UNCHANGED vars
    <3>1. cs' = cs
      BY <2>3 DEF vars, storeVars
    <3>2. /\ job' \in [Jobs -> JobStates]
          /\ job'[j].at = "idle" /\ job'[j].file = NoFile
          /\ \A i \in Jobs : i # j => job'[i] = job[i]
      BY <1>a, <2>3, JobDone
    <3>3. abandoned' \in SUBSET Files
      BY <1>a, <2>3 DEF Abandon, JobStates
    <3>4. WikiTypeOK'
      BY <1>a, <1>b, <2>1, <3>2, <3>3
    <3>5. UploadOK'
      BY <1>d, <2>1, <3>2 DEF UploadOK, Uploads
    <3>6. OwnerOK' /\ KnownOK'
      BY <1>c, <1>d, <2>1, <3>1, <3>2 DEF OwnerOK, KnownOK
    <3> QED BY <1>0, <3>4, <3>5, <3>6 DEF FileInv
  <2> QED BY <1>6, <2>2, <2>3 DEF UploadAttach
<1>7. CASE WriteAttach
  <2>1. /\ cs.at = "attachStore" /\ cs' = Free /\ cs.key \in Keys
        /\ UNCHANGED <<disk, drawn, invented, doomed, late, abandoned>>
        /\ known' = IF db' # db THEN known \cup {cs.credit} ELSE known
    BY <1>0, <1>7 DEF WriteAttach, AttachStore, SectionOK
  <2>2. cs.td \in Tiddler /\ cs.td.file = cs.credit
    <3>1. PICK file \in Files : cs.td = [db[cs.key] EXCEPT !.file = file] /\ cs.credit = file
      BY <1>0, <2>1 DEF SectionOK
    <3>2. db[cs.key] \in Tiddler
      BY <1>0, <1>c, <2>1 DEF SectionOK
    <3> QED BY <3>1, <3>2 DEF Tiddler
  <2>3. db' = db \/ db' = [db EXCEPT ![cs.key] = cs.td]
    BY <1>7 DEF WriteAttach, AttachStore
  <2>4. PICK j \in Jobs : job[j].at = "attaching" /\ job[j].file = cs.credit
    BY <1>d, <2>1 DEF OwnerOK
  <2>5. cs.credit \in disk /\ cs.credit \in drawn /\ cs.credit \notin known
    BY <1>d, <2>4 DEF UploadOK, Uploads
  <2>6. /\ job' \in [Jobs -> JobStates]
        /\ \A i \in Jobs : IF job[i].at = "attaching" THEN job'[i].at = "idle" /\ job'[i].file = NoFile
                           ELSE job'[i] = job[i]
    BY <1>7, <1>a DEF WriteAttach, IdleJob, JobStates, JobStages
  <2>7. WikiTypeOK'
    BY <1>a, <1>b, <2>1, <2>5, <2>6
  <2>8. UploadOK'
    BY <1>d, <2>1, <2>4, <2>6 DEF UploadOK, Uploads
  <2>9. OwnerOK'
    BY <1>c, <1>d, <2>1, <2>6 DEF OwnerOK
  <2>10. cs.td # Absent /\ FileOf(cs.td) = cs.credit
    BY <2>2 DEF FileOf
  <2>11. \A k \in Keys : \/ FileOf(db'[k]) = FileOf(db[k])
                         \/ FileOf(db'[k]) = cs.credit /\ db' # db
    BY <1>c, <2>3, <2>10
  <2>12. KnownOK'
    BY <1>c, <1>d, <2>1, <2>5, <2>11 DEF KnownOK
  <2> QED BY <1>0, <2>7, <2>8, <2>9, <2>12 DEF FileInv
<1>8. ASSUME NEW j \in Jobs, NEW k \in Keys, DelTiddler(j, k)
      PROVE  FileInv'
  <2>1. /\ job[j].at = "idle" /\ cs = Free /\ db[k] # Absent /\ db' = [db EXCEPT ![k] = Absent]
        /\ UNCHANGED <<disk, drawn, known, invented, doomed, late, abandoned>>
    BY <1>8 DEF DelTiddler, DelStore
  <2>2. \A i \in Keys : FileOf(db'[i]) \in {NoFile, FileOf(db[i])}
    BY <1>c, <2>1 DEF FileOf
  <2>3. CASE db[k].file = NoFile
    <3>1. cs' = Free /\ job' = job
      BY <1>8, <2>3 DEF DelTiddler, DelStore
    <3>2. WikiTypeOK'
      BY <1>a, <1>b, <2>1, <3>1
    <3>3. UploadOK'
      BY <1>d, <2>1, <3>1 DEF UploadOK, Uploads
    <3>4. OwnerOK' /\ KnownOK'
      BY <1>a, <1>c, <1>d, <2>1, <2>2, <3>1 DEF OwnerOK, KnownOK
    <3> QED BY <1>0, <3>2, <3>3, <3>4 DEF FileInv
  <2>4. CASE db[k].file # NoFile
    <3>1. cs'.at = "delRef" /\ cs'.credit = db[k].file
      BY <1>8, <2>4 DEF DelTiddler, DelStore, Free
    <3>2. cs'.credit \in known \cup invented
      BY <1>d, <2>1, <2>4, <3>1 DEF KnownOK, FileOf
    <3>3. /\ job' \in [Jobs -> JobStates] /\ job'[j].at = "deleting" /\ job'[j].file = NoFile
          /\ \A i \in Jobs : i # j => job'[i] = job[i]
      BY <1>8, <1>a, <2>4 DEF DelTiddler, JobStates, JobStages
    <3>4. WikiTypeOK'
      BY <1>a, <1>b, <2>1, <3>3
    <3>5. UploadOK'
      BY <1>d, <2>1, <3>3 DEF UploadOK, Uploads
    <3>6. OwnerOK' /\ KnownOK'
      BY <1>a, <1>c, <1>d, <2>1, <2>2, <3>1, <3>2, <3>3 DEF OwnerOK, KnownOK
    <3> QED BY <1>0, <3>4, <3>5, <3>6 DEF FileInv
  <2> QED BY <2>3, <2>4
<1>9. CASE WriteDel
  <2>1. /\ cs.at = "delRef" /\ cs' = Free /\ db' = db
        /\ UNCHANGED <<disk, drawn, known, invented, late, abandoned>>
        /\ doomed' = doomed \cup ({handed'} \ {NoFile})
    BY <1>9 DEF WriteDel, DelRef
  <2>2. handed' \in {NoFile, cs.credit} /\ cs.credit \in known \cup invented /\ cs.credit \in Files
    BY <1>0, <1>9, <1>d, <2>1 DEF WriteDel, DelRef, SectionOK, KnownOK
  <2>4. /\ job' \in [Jobs -> JobStates]
        /\ \A i \in Jobs :
             IF job[i].at # "deleting" THEN job'[i] = job[i]
             ELSE IF handed' = NoFile THEN job'[i].at = "idle" /\ job'[i].file = NoFile
             ELSE job'[i].at = "remove" /\ job'[i].file = handed'
    BY <1>9, <1>a, <2>2 DEF WriteDel, IdleJob, JobStates, JobStages
  <2>5. WikiTypeOK'
    BY <1>a, <1>b, <2>1, <2>2, <2>4
  <2>6. UploadOK'
    BY <1>d, <2>1, <2>4 DEF UploadOK, Uploads
  <2>7. OwnerOK'
    BY <1>c, <1>d, <2>1, <2>4 DEF OwnerOK
  <2>8. KnownOK'
    BY <1>c, <1>d, <2>1, <2>2 DEF KnownOK
  <2> QED BY <1>0, <2>5, <2>6, <2>7, <2>8 DEF FileInv
<1>10. ASSUME NEW j \in Jobs, RemoveFile(j)
       PROVE  FileInv'
  <2>1. /\ job[j].at = "remove" /\ Finish(j) /\ UNCHANGED <<drawn, known, invented, doomed, late>>
        /\ db' = db /\ cs' = cs /\ disk' \in {disk, disk \ {job[j].file}}
    BY <1>10 DEF RemoveFile, vars, storeVars
  <2>2. abandoned' \in SUBSET Files
    BY <1>10, <1>a DEF RemoveFile, Abandon, JobStates
  <2>3. /\ job' \in [Jobs -> JobStates]
        /\ job'[j].at = "idle" /\ job'[j].file = NoFile
        /\ \A i \in Jobs : i # j => job'[i] = job[i]
    BY <1>a, <2>1, JobDone
  <2>4. /\ job[j].file \in doomed /\ job[j].file \in known \cup invented
        /\ job[j].file \notin drawn \ known
    BY <1>d, <2>1 DEF OwnerOK, KnownOK
  <2>5. WikiTypeOK'
    BY <1>a, <1>b, <2>1, <2>2, <2>3
  <2>6. UploadOK'
    BY <1>d, <2>1, <2>3, <2>4 DEF UploadOK, Uploads
  <2>7. OwnerOK' /\ KnownOK'
    BY <1>c, <1>d, <2>1, <2>3, <2>4 DEF OwnerOK, KnownOK
  <2> QED BY <1>0, <2>5, <2>6, <2>7 DEF FileInv
<1>11. CASE Kill
  <2>1. /\ UNCHANGED <<disk, drawn, known, invented, doomed, late>> /\ db' = db /\ cs' = Free
        /\ job' = [j \in Jobs |-> IdleJob]
    BY <1>11 DEF Kill, Restart
  <2>2. abandoned' \in SUBSET Files
    BY <1>11, <1>a DEF Kill, Abandon, JobStates
  <2>3. job' \in [Jobs -> JobStates] /\ \A j \in Jobs : job'[j].at = "idle" /\ job'[j].file = NoFile
    BY <2>1 DEF IdleJob, JobStates, JobStages
  <2>4. WikiTypeOK'
    BY <1>a, <1>b, <2>1, <2>2, <2>3
  <2>5. UploadOK'
    BY <2>3 DEF UploadOK, Uploads
  <2>6. OwnerOK' /\ KnownOK'
    BY <1>c, <1>d, <2>1, <2>3 DEF OwnerOK, KnownOK
  <2> QED BY <1>0, <2>4, <2>5, <2>6 DEF FileInv
<1>12. CASE UNCHANGED wikiVars
  <2>1. UNCHANGED <<disk, job, drawn, known, invented, doomed, late, abandoned>> /\ db' = db /\ cs' = cs
    BY <1>12 DEF wikiVars, fileVars, vars, storeVars
  <2>2. WikiTypeOK'
    BY <1>a, <1>b, <2>1
  <2>3. UploadOK' /\ OwnerOK' /\ KnownOK'
    BY <1>d, <2>1 DEF UploadOK, Uploads, OwnerOK, KnownOK
  <2> QED BY <1>0, <2>2, <2>3 DEF FileInv
<1> QED
  BY <1>1, <1>2, <1>3, <1>4, <1>5, <1>6, <1>7, <1>8, <1>9, <1>10, <1>11, <1>12
     DEF WikiNext

(* A file comes to be bound by a section that stores a tiddler with it.    *)
LEMMA DoomedStep == HandInv /\ FileInv /\ DoomedOK /\ [WikiNext]_wikiVars => DoomedOK'
<1> SUFFICES ASSUME HandInv, FileInv, DoomedOK, [WikiNext]_wikiVars PROVE DoomedOK'
  OBVIOUS
<1>0. /\ HandInv' /\ RefInv' /\ TypeOK /\ TypeOK' /\ SectionOK
      /\ UploadOK /\ OwnerOK /\ KnownOK /\ uncounted \subseteq uncounted'
      /\ db \in [Keys -> Tiddler \cup {Absent}] /\ db' \in [Keys -> Tiddler \cup {Absent}]
  BY StoreStep, HandStep, Grows DEF HandInv, RefInv, Basics, FileInv, TypeOK
<1>1. ASSUME UNCHANGED <<db, doomed, late>> PROVE DoomedOK'
  BY <1>0, <1>1 DEF DoomedOK
<1>2. CASE WritePut
  <2>1. /\ cs.key \in Keys /\ cs.td \in Tiddler /\ doomed' = doomed
        /\ late' = IF db' # db /\ cs.td.file \in doomed THEN late \cup {cs.td.file} ELSE late
        /\ db' = db \/ db' = [db EXCEPT ![cs.key] = cs.td]
    BY <1>0, <1>2 DEF WritePut, PutStore, SectionOK
  <2>2. \A k \in Keys : \/ FileOf(db'[k]) = FileOf(db[k])
                        \/ FileOf(db'[k]) = cs.td.file /\ db' # db
    BY <1>0, <2>1 DEF FileOf
  <2> QED BY <1>0, <2>1, <2>2 DEF DoomedOK
<1>3. CASE WriteAttach
  <2>1. cs.at = "attachStore" /\ cs.key \in Keys /\ doomed' = doomed /\ late' = late
    BY <1>0, <1>3 DEF WriteAttach, AttachStore, SectionOK
  <2>2. cs.td \in Tiddler /\ cs.td.file = cs.credit
    <3>1. PICK file \in Files : cs.td = [db[cs.key] EXCEPT !.file = file] /\ cs.credit = file
      BY <1>0, <2>1 DEF SectionOK
    <3>2. db[cs.key] \in Tiddler
      BY <1>0, <2>1 DEF SectionOK
    <3> QED BY <3>1, <3>2 DEF Tiddler
  <2>3. cs.credit \notin doomed
    <3>1. PICK j \in Jobs : job[j].at = "attaching" /\ job[j].file = cs.credit
      BY <1>0, <2>1 DEF OwnerOK
    <3> QED BY <1>0, <3>1 DEF UploadOK, Uploads, KnownOK
  <2>4. db' = db \/ db' = [db EXCEPT ![cs.key] = cs.td]
    BY <1>3 DEF WriteAttach, AttachStore
  <2>5. \A k \in Keys : FileOf(db'[k]) \in {FileOf(db[k]), cs.credit}
    BY <1>0, <2>1, <2>2, <2>4 DEF FileOf
  <2> QED BY <1>0, <2>1, <2>3, <2>5 DEF DoomedOK
<1>4. ASSUME NEW j \in Jobs, NEW k \in Keys, DelTiddler(j, k) PROVE DoomedOK'
  <2>1. \A i \in Keys : FileOf(db'[i]) \in {NoFile, FileOf(db[i])}
    BY <1>0, <1>4 DEF DelTiddler, DelStore, FileOf
  <2>2. NoFile \notin doomed /\ UNCHANGED <<doomed, late>>
    BY <1>4 DEF DelTiddler, FileInv, WikiTypeOK
  <2> QED BY <1>0, <2>1, <2>2 DEF DoomedOK
<1>5. CASE WriteDel
  <2>1. db' = db /\ late' = late /\ doomed' = doomed \cup ({handed'} \ {NoFile})
    BY <1>5 DEF WriteDel, DelRef
  <2>2. handed' # NoFile /\ handed' \notin uncounted' =>
          \A k \in Keys : FileOf(db'[k]) # handed'
    <3>1. ASSUME handed' # NoFile, handed' \notin uncounted' PROVE (\A k \in Keys : FileOf(db[k]) # handed)'
      <4>1. Owners(handed)' = {} /\ handed' \in Files
        BY <1>0, <3>1 DEF HandInv, TypeOK
      <4> QED BY <1>0, <4>1 DEF RefInv, OwnedOK, Owners, FileOf
    <3> QED BY <3>1
  <2> QED BY <1>0, <2>1, <2>2 DEF DoomedOK
<1>6. ASSUME NEW j \in Jobs, UploadPut(j) \/ UploadAttach(j) \/ RemoveFile(j)
      PROVE  UNCHANGED <<db, doomed, late>>
  BY <1>6 DEF UploadPut, PutBegin, UploadAttach, AttachRef, RemoveFile, vars, storeVars
<1>7. ASSUME NEW k \in Keys, NEW text \in Texts \cup {Skinny}, NEW file \in Files \cup {NoFile},
             PutTiddler(k, text, file)
      PROVE  UNCHANGED <<db, doomed, late>>
  BY <1>7 DEF PutTiddler, PutBegin
<1>8. ASSUME NEW j \in Jobs, NEW k \in Keys, NEW file \in Files, SaveFile(j, k, file)
      PROVE  UNCHANGED <<db, doomed, late>>
  BY <1>8 DEF SaveFile, vars, storeVars
<1>9. ASSUME WritePutRef \/ Kill \/ UNCHANGED wikiVars
      PROVE  UNCHANGED <<db, doomed, late>>
  BY <1>9 DEF WritePutRef, PutRef, Kill, Restart, wikiVars, fileVars, vars, storeVars
<1> QED BY <1>1, <1>2, <1>3, <1>4, <1>5, <1>6, <1>7, <1>8, <1>9 DEF WikiNext

-----------------------------------------------------------------------------
(* A file in the directory is counted, or in the hands of a handler, or    *)
(* given up: it is removed when its count gets to 0.                       *)
Referenced ==
  /\ cs.at = "attachStore" => fileRef[cs.credit] >= 1
  /\ \A f \in disk :
       fileRef[f] >= 1 \/ (\E j \in Jobs : job[j].file = f) \/ f \in abandoned

(* Every step keeps it so.                                                 *)
LEMMA ReferencedStep == FileInv /\ Referenced /\ [WikiNext]_wikiVars => Referenced'
<1> SUFFICES ASSUME FileInv, Referenced, [WikiNext]_wikiVars PROVE Referenced'
  OBVIOUS
<1>0. TypeOK /\ TypeOK' /\ SectionOK /\ OwnerOK /\ UploadOK /\ WikiTypeOK
  BY StoreStep, BasicsStep DEF FileInv, Basics
<1>a. /\ fileRef \in [Files -> Int] /\ cs \in CriticalSection /\ Free.at = "free"
      /\ disk \in SUBSET Files /\ job \in [Jobs -> JobStates]
      /\ cs.at # "free" \/ cs = Free
  BY <1>0 DEF TypeOK, Free, SectionOK, WikiTypeOK, JobStates, JobStages
<1>b. ASSUME fileRef' = fileRef, cs' = cs \/ cs'.at # "attachStore",
             disk' \subseteq disk, abandoned \subseteq abandoned',
             \A f \in disk' : (\E j \in Jobs : job[j].file = f) =>
                                (\E j \in Jobs : job'[j].file = f) \/ f \in abandoned'
      PROVE  Referenced'
  BY <1>b DEF Referenced
<1>1. ASSUME NEW k \in Keys, NEW text \in Texts \cup {Skinny}, NEW file \in Files \cup {NoFile},
             PutTiddler(k, text, file)
      PROVE  Referenced'
  <2>1. fileRef' = fileRef /\ cs'.at # "attachStore" /\ UNCHANGED <<disk, job, abandoned>>
    BY <1>1 DEF PutTiddler, PutBegin
  <2> QED BY <1>b, <2>1
<1>2. ASSUME NEW j \in Jobs, NEW k \in Keys, NEW file \in Files, SaveFile(j, k, file)
      PROVE  Referenced'
  <2>1. /\ fileRef' = fileRef /\ cs' = cs /\ disk' = disk \cup {file}
        /\ job[j].file = NoFile /\ abandoned \subseteq abandoned'
        /\ \/ /\ job'[j].file = file
              /\ \A i \in Jobs : i # j => job'[i] = job[i]
           \/ job' = job /\ file \in abandoned'
    BY <1>2, <1>0, <1>a DEF SaveFile, OwnerOK, JobStates, Abandon, vars, storeVars
  <2>2. NoFile \notin disk
    BY <1>a
  <2> QED BY <1>a, <2>1, <2>2 DEF Referenced
<1>3. ASSUME NEW j \in Jobs, UploadPut(j)
      PROVE  Referenced'
  <2>1. /\ fileRef' = fileRef /\ cs'.at # "attachStore" /\ UNCHANGED <<disk, abandoned>>
        /\ GoTo(j, "putting")
    BY <1>3 DEF UploadPut, PutBegin
  <2>2. \A i \in Jobs : job'[i].file = job[i].file
    BY <1>a, <2>1, JobMoved DEF JobStages
  <2> QED BY <1>b, <2>1, <2>2
<1>4. CASE WritePutRef
  <2>a. /\ UNCHANGED <<disk, job, abandoned>> /\ cs'.at = "putStore"
        /\ cs.td.file \in Files
        /\ fileRef' = fileRef \/ fileRef' = [fileRef EXCEPT ![cs.td.file] = @ + 1]
    BY <1>4, <1>0, <1>a DEF WritePutRef, PutRef, fileVars, SectionOK, CriticalSection
  <2>1. \A f \in Files : fileRef'[f] >= fileRef[f]
    BY <1>a, <2>a
  <2>2. fileRef' \in [Files -> Int]
    BY <1>0 DEF TypeOK
  <2> QED BY <1>a, <2>1, <2>2, <2>a DEF Referenced
<1>5. CASE WritePut
  <2>1. fileRef' = fileRef /\ cs' = Free /\ UNCHANGED <<disk, abandoned>>
    BY <1>5 DEF WritePut, PutStore
  <2>2. \A i \in Jobs : job'[i].file = job[i].file
    BY <1>5, <1>a DEF WritePut, JobStates
  <2> QED BY <1>a, <1>b, <2>1, <2>2
<1>6. ASSUME NEW j \in Jobs, UploadAttach(j)
      PROVE  Referenced'
  <2>1. CASE AttachRef(job[j].key, job[j].file) /\ GoTo(j, "attaching") /\ UNCHANGED abandoned
    <3>1. /\ fileRef[job[j].file] = 0 /\ disk' = disk /\ abandoned' = abandoned
          /\ fileRef' = [fileRef EXCEPT ![job[j].file] = @ + 1]
          /\ cs'.credit = job[j].file
      BY <1>6, <2>1 DEF UploadAttach, AttachRef, Unused
    <3>2. job[j].file \in Files
      BY <1>6, <1>0, <1>a DEF UploadAttach, UploadOK, Uploads
    <3>3. \A i \in Jobs : job'[i].file = job[i].file
      BY <1>a, <2>1, JobMoved DEF JobStages
    <3>4. fileRef'[cs'.credit] = 1 /\ \A f \in Files : f # cs'.credit => fileRef'[f] = fileRef[f]
      BY <1>a, <3>1, <3>2
    <3> QED BY <1>a, <3>1, <3>3, <3>4 DEF Referenced
  <2>2. CASE Finish(j) /\ Abandon({job[j].file}) /\ UNCHANGED vars
    <3>1. fileRef' = fileRef /\ cs' = cs /\ disk' = disk
      BY <1>6, <2>2 DEF UploadAttach, vars, storeVars
    <3>2. \A i \in Jobs : i # j => job'[i] = job[i]
      BY <1>a, <2>2, JobDone
    <3>3. abandoned \subseteq abandoned' /\ (job[j].file # NoFile => job[j].file \in abandoned')
      BY <2>2 DEF Abandon
    <3> QED BY <1>a, <1>b, <3>1, <3>2, <3>3
  <2> QED BY <1>6, <2>1, <2>2 DEF UploadAttach
<1>7. CASE WriteAttach
  <2>1. /\ cs.at = "attachStore" /\ cs' = Free /\ fileRef' = fileRef
        /\ disk' = disk /\ abandoned' = abandoned
    BY <1>7 DEF WriteAttach, AttachStore
  <2>2. \A i \in Jobs : job'[i] = job[i] \/ job[i].file = cs.credit
    BY <1>0, <1>7 DEF WriteAttach, OwnerOK, WikiTypeOK
  <2> QED BY <1>a, <2>1, <2>2 DEF Referenced
<1>8. ASSUME NEW j \in Jobs, NEW k \in Keys, DelTiddler(j, k)
      PROVE  Referenced'
  <2>1. /\ fileRef' = fileRef /\ cs'.at # "attachStore" /\ UNCHANGED <<disk, abandoned>>
        /\ job[j].at = "idle"
    BY <1>8 DEF DelTiddler, DelStore, Free
  <2>2. \A i \in Jobs : job'[i].file = job[i].file
    BY <1>0, <1>8, <2>1 DEF DelTiddler, OwnerOK, WikiTypeOK
  <2> QED BY <1>b, <2>1, <2>2
<1>9. CASE WriteDel
  <2>1. /\ cs.at = "delRef" /\ cs' = Free /\ disk' = disk /\ abandoned' = abandoned
        /\ cs.credit \in Files /\ handed = NoFile
    BY <1>0, <1>9 DEF WriteDel, DelRef, SectionOK
  <2>2. \A i \in Jobs :
          IF job[i].at # "deleting" THEN job'[i] = job[i]
          ELSE handed' # NoFile => job'[i].file = handed'
    BY <1>0, <1>9 DEF WriteDel, WikiTypeOK
  <2>3. PICK j \in Jobs : job[j].at = "deleting"
    BY <1>0, <2>1 DEF OwnerOK
  <2>4. \A i \in Jobs : job[i].at = "deleting" => job[i].file = NoFile
    BY <1>0 DEF OwnerOK
  <2>5. \A f \in disk : (\E i \in Jobs : job[i].file = f) => \E i \in Jobs : job'[i].file = f
    BY <1>a, <2>2, <2>4
  <2>6. CASE UNCHANGED <<fileRef, handed>>
    BY <1>a, <1>b, <2>1, <2>5, <2>6
  <2>7. CASE /\ fileRef' = [fileRef EXCEPT ![cs.credit] = @ - 1]
             /\ handed' = IF fileRef[cs.credit] - 1 = 0 THEN cs.credit ELSE NoFile
    <3>1. \A f \in Files \ {cs.credit} : fileRef'[f] = fileRef[f]
      BY <1>a, <2>1, <2>7
    <3>2. fileRef'[cs.credit] = fileRef[cs.credit] - 1 /\ fileRef[cs.credit] \in Int
      BY <1>a, <2>1, <2>7
    <3>3. fileRef[cs.credit] = 1 => job'[j].file = cs.credit
      BY <2>1, <2>2, <2>3, <2>7
    <3>4. fileRef[cs.credit] >= 1 => fileRef'[cs.credit] >= 1 \/ job'[j].file = cs.credit
      BY <3>2, <3>3
    <3> QED BY <1>a, <2>1, <2>5, <3>1, <3>4 DEF Referenced
  <2> QED BY <1>9, <2>6, <2>7 DEF WriteDel, DelRef
<1>10. ASSUME NEW j \in Jobs, RemoveFile(j)
       PROVE  Referenced'
  <2>1. /\ fileRef' = fileRef /\ cs' = cs /\ Finish(j)
        /\ \/ disk' = disk \ {job[j].file} /\ abandoned' = abandoned
           \/ disk' = disk /\ abandoned' = abandoned \cup ({job[j].file} \ {NoFile})
    BY <1>10 DEF RemoveFile, Abandon, vars, storeVars
  <2>2. \A i \in Jobs : i # j => job'[i] = job[i]
    BY <1>a, <2>1, JobDone
  <2> QED BY <1>a, <1>b, <2>1, <2>2
<1>11. CASE Kill
  <2>1. /\ disk' = disk /\ fileRef' = fileRef /\ cs' = Free
        /\ abandoned' = abandoned \cup ({job[j].file : j \in Jobs} \ {NoFile})
    BY <1>11 DEF Kill, Restart, Abandon
  <2> QED BY <1>a, <1>b, <2>1
<1>12. CASE UNCHANGED wikiVars
  BY <1>b, <1>12 DEF wikiVars, fileVars, vars, storeVars
<1> QED
  BY <1>1, <1>2, <1>3, <1>4, <1>5, <1>6, <1>7, <1>8, <1>9, <1>10, <1>11, <1>12
     DEF WikiNext

(* A file that is counted is bound to a tiddler, unless its count leaked:  *)
(* the count is not above the number of its titles.                        *)
LEMMA CountedIsBound ==
  ASSUME ExactInv, NEW f \in Files, fileRef[f] >= 1
  PROVE  BoundTo(f) # {} \/ f = cs.credit \/ f \in leaked
<1> SUFFICES ASSUME f # cs.credit, f \notin leaked PROVE BoundTo(f) # {}
  OBVIOUS
<1>1. fileRef[f] <= Cardinality(Owners(f))
  BY OwnersFinite DEF ExactInv, CountsBounded, Credit
<1>2. fileRef[f] \in Int /\ Cardinality(Owners(f)) \in Nat
  BY OwnersFinite DEF ExactInv, RefInv, Basics, TypeOK
<1>3. Owners(f) # {}
  BY <1>1, <1>2, FS_EmptySet
<1> QED BY <1>3 DEF ExactInv, OwnedIsBound, Owners, BoundTo

-----------------------------------------------------------------------------
WikiInv == HandInv /\ ExactInv /\ FileInv /\ DoomedOK /\ Referenced

(* At the start there are no files and no handlers at work.                *)
LEMMA WikiStart == WikiInit => WikiInv
<1> SUFFICES ASSUME WikiInit PROVE WikiInv
  OBVIOUS
<1>1. ExactInv /\ HandInv
  BY ExactInit, RefInit DEF WikiInit, Init, HandInv
<1>2. WikiTypeOK
  BY <1>1 DEF WikiInit, WikiTypeOK, IdleJob, HandInv, RefInv, Basics
<1>3. UploadOK /\ OwnerOK /\ KnownOK /\ DoomedOK
  BY DEF WikiInit, Init, Free, IdleJob, UploadOK, Uploads, OwnerOK, KnownOK, DoomedOK, FileOf
<1>4. Referenced
  BY DEF WikiInit, Init, Free, Referenced
<1> QED BY <1>1, <1>2, <1>3, <1>4 DEF WikiInv, FileInv, HandInv, RefInv

(* What files are known, held and on disk is always as described.          *)
THEOREM FilesAlways == WikiSpec => []FileInv
<1>1. WikiInit => FileInv
  BY WikiStart DEF WikiInv
<1> QED BY <1>1, FileStep, PTL DEF WikiSpec

(* The directory, the jobs and the store are always well-formed.           *)
THEOREM WikiTypeCorrect == WikiSpec => []WikiTypeOK
<1>1. FileInv => WikiTypeOK
  BY DEF FileInv
<1> QED BY <1>1, FilesAlways, PTL

(* The handlers use the store as its specification allows: what is proved  *)
(* of the store alone holds under uploads and DELETEs.                     *)
THEOREM WikiUsesStore == WikiSpec => Spec
<1>1. WikiInit => Init
  BY DEF WikiInit
<1>2. FileInv /\ [WikiNext]_wikiVars => [Next]_vars
  BY StoreStep
<1> QED BY <1>1, <1>2, FilesAlways, PTL DEF WikiSpec, Spec

(* The inductive invariant holds in every state of the handlers.           *)
THEOREM WikiAlways == WikiSpec => []WikiInv
<1>1. WikiInv /\ [WikiNext]_wikiVars => WikiInv'
  BY StoreStep, HandStep, ExactStep, FileStep, DoomedStep, ReferencedStep DEF WikiInv
<1> QED BY <1>1, WikiStart, PTL DEF WikiSpec

(* delTiddler's os.Remove, made after Store.Del has returned and released  *)
(* the lock, never takes the file of a stored tiddler away, unless a PUT   *)
(* bound the file to a title again after Del had handed it back, or bound  *)
(* it without counting it.                                                 *)
THEOREM BoundFilesPresent == WikiSpec => []FilesPresent
<1>1. WikiInv => FilesPresent
  BY DEF WikiInv, FileInv, KnownOK, DoomedOK, FilesPresent
<1> QED BY <1>1, WikiAlways, PTL

(* A file upload saved stays reachable from a tiddler or a handler until   *)
(* it is removed, unless its count leaked or a handler gave it up.         *)
THEOREM NoFileOrphaned == WikiSpec => []NoOrphans
<1>1. WikiInv => NoOrphans
  BY CountedIsBound DEF WikiInv, FileInv, WikiTypeOK, Referenced, NoOrphans, InProgress
<1> QED BY <1>1, WikiAlways, PTL

=============================================================================
