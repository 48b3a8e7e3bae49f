------------------------------ MODULE WikiFiles -------------------------------
(***************************************************************************)
(* The handlers that change tiddlers and the directory of uploaded files   *)
(* (api.go: putTiddler, delTiddler, upload), over the bitcask store.  An   *)
(* upload saves its file, puts the tiddler and attaches the file in three  *)
(* calls; a DELETE removes the file that Del hands back after the store's  *)
(* lock has been released.  Handlers run concurrently, any of their steps  *)
(* may fail and the process may be killed between two of them.             *)
(*                                                                         *)
(* The critical sections of the store are its own actions: here they are   *)
(* given to the handler that runs them.  A PUT keeps nothing beyond its    *)
(* section, so only uploads and DELETEs are jobs.                          *)
(***************************************************************************)
EXTENDS BitcaskStore

CONSTANT Jobs            \* goroutines serving an upload or a DELETE

VARIABLES
  disk,        \* files in the directory, whole or in part
  job,         \* job[j]: the upload or DELETE at its next step
  drawn,       \* history: file names given to uploads
  known,       \* history: files that have been attached: clients know them
  invented,    \* history: names that PUTs have used and no upload has drawn
  doomed,      \* history: files that Del has handed back for removal
  late,        \* history: doomed files that a PUT has bound to a title again
  abandoned    \* history: files an upload or a removal gave up, or a kill

fileVars == <<disk, job, drawn, known, invented, doomed, late, abandoned>>
wikiVars == <<vars, fileVars>>

IdleJob == [at |-> "idle", key |-> NoKey, file |-> NoFile]

WikiInit ==
  /\ Init
  /\ disk = {}
  /\ job = [j \in Jobs |-> IdleJob]
  /\ drawn = {} /\ known = {} /\ invented = {} /\ doomed = {} /\ late = {} /\ abandoned = {}

-----------------------------------------------------------------------------
GoTo(j, stage) == job' = [job EXCEPT ![j].at = stage]
Finish(j) == job' = [job EXCEPT ![j] = IdleJob]
Abandon(files) == abandoned' = abandoned \cup (files \ {NoFile})

(* putTiddler: the tiddler names any file, but for those that are still    *)
(* being uploaded or were given up: nobody can guess their 96 random bits. *)
PutTiddler(k, text, file) ==
  /\ file \notin drawn \ known
  /\ PutBegin(k, text, file)
  /\ invented' = invented \cup (Named(file) \ drawn)
  /\ UNCHANGED <<disk, job, drawn, known, doomed, late, abandoned>>

(* upload, saveFile: a new file is created.  Copying into it may fail, and *)
(* so may parseMeta: the handler returns and the file stays.               *)
SaveFile(j, k, file) ==
  /\ job[j].at = "idle"
  /\ file \notin drawn \cup invented
  /\ drawn' = drawn \cup {file}
  /\ disk' = disk \cup {file}
  /\ \/ /\ job' = [job EXCEPT ![j] = [at |-> "put", key |-> k, file |-> file]]
        /\ UNCHANGED abandoned
     \/ /\ Abandon({file})
        /\ UNCHANGED job
  /\ UNCHANGED <<vars, known, invented, doomed, late>>

(* upload: Store.Put of the tiddler, without a file.                       *)
UploadPut(j) ==
  /\ job[j].at = "put"
  /\ PutBegin(job[j].key, EmptyText, NoFile)
  /\ GoTo(j, "putting")
  /\ UNCHANGED <<disk, drawn, known, invented, doomed, late, abandoned>>

WritePutRef == PutRef /\ UNCHANGED fileVars

(* The end of a Put.  An upload goes on whether it was stored or not.      *)
WritePut ==
  /\ PutStore
  /\ job' = [j \in Jobs |-> IF job[j].at = "putting" THEN [job[j] EXCEPT !.at = "attach"]
                            ELSE job[j]]
  /\ late' = IF db' # db /\ cs.td.file \in doomed THEN late \cup {cs.td.file} ELSE late
  /\ UNCHANGED <<disk, drawn, known, invented, doomed, abandoned>>

(* upload: AttachAttachment, unless the tiddler is not there, or its count *)
(* cannot be written: "not found", and the file stays.                     *)
UploadAttach(j) ==
  /\ job[j].at = "attach"
  /\ \/ /\ AttachRef(job[j].key, job[j].file)
        /\ GoTo(j, "attaching")
        /\ UNCHANGED abandoned
     \/ /\ cs = Free
        /\ db[job[j].key] = Absent \/ Faults
        /\ Finish(j)
        /\ Abandon({job[j].file})
        /\ UNCHANGED vars
  /\ UNCHANGED <<disk, drawn, known, invented, doomed, late>>

(* The end of an upload: the client learns the name if all went well.      *)
WriteAttach ==
  /\ AttachStore
  /\ known' = IF db' # db THEN known \cup {cs.credit} ELSE known
  /\ job' = [j \in Jobs |-> IF job[j].at = "attaching" THEN IdleJob ELSE job[j]]
  /\ UNCHANGED <<disk, drawn, invented, doomed, late, abandoned>>

-----------------------------------------------------------------------------
(* delTiddler: Del, up to its answer if the tiddler has no file.           *)
DelTiddler(j, k) ==
  /\ job[j].at = "idle"
  /\ DelStore(k)
  /\ job' = IF db[k].file = NoFile THEN job
            ELSE [job EXCEPT ![j] = [at |-> "deleting", key |-> k, file |-> NoFile]]
  /\ UNCHANGED <<disk, drawn, known, invented, doomed, late, abandoned>>

(* Mutant of WriteDel: the file of the tiddler is removed, not the answer. *)
RemoveOwnFile ==
  /\ DelRef
  /\ job' = [j \in Jobs |->
       IF job[j].at # "deleting" THEN job[j]
       ELSE [job[j] EXCEPT !.at = "remove", !.file = cs.credit]]
  /\ doomed' = doomed \cup {cs.credit}
  /\ UNCHANGED <<disk, drawn, known, invented, late, abandoned>>

(* Del answers: done, or a file to remove.                                 *)
WriteDel ==
  /\ DelRef
  /\ job' = [j \in Jobs |->
       IF job[j].at # "deleting" THEN job[j]
       ELSE IF handed' = NoFile THEN IdleJob
       ELSE [job[j] EXCEPT !.at = "remove", !.file = handed']]
  /\ doomed' = doomed \cup ({handed'} \ {NoFile})
  /\ UNCHANGED <<disk, drawn, known, invented, late, abandoned>>

(* Mutant of RemoveFile: the handler answers without removing it.          *)
KeepFile(j) ==
  /\ job[j].at = "remove"
  /\ Finish(j)
  /\ UNCHANGED <<vars, disk, drawn, known, invented, doomed, late, abandoned>>

(* os.Remove, outside the lock; its error is ignored.                      *)
RemoveFile(j) ==
  /\ job[j].at = "remove"
  /\ Finish(j)
  /\ \/ /\ disk' = disk \ {job[j].file}
        /\ UNCHANGED abandoned
     \/ /\ Faults
        /\ Abandon({job[j].file})
        /\ UNCHANGED disk
  /\ UNCHANGED <<vars, drawn, known, invented, doomed, late>>

(* The process is killed with its jobs, or ends when there are none; the   *)
(* directory stays as it is.                                               *)
Kill ==
  /\ Faults \/ \A j \in Jobs : job[j] = IdleJob
  /\ Restart
  /\ job' = [j \in Jobs |-> IdleJob]
  /\ Abandon({job[j].file : j \in Jobs})
  /\ UNCHANGED <<disk, drawn, known, invented, doomed, late>>

WikiNext ==
  \/ \E k \in Keys, text \in Texts \cup {Skinny}, file \in Files \cup {NoFile} :
       PutTiddler(k, text, file)
  \/ \E j \in Jobs, k \in Keys, file \in Files : SaveFile(j, k, file)
  \/ \E j \in Jobs : UploadPut(j) \/ UploadAttach(j) \/ RemoveFile(j)
  \/ \E j \in Jobs, k \in Keys : DelTiddler(j, k)
  \/ WritePutRef
  \/ WritePut
  \/ WriteAttach
  \/ WriteDel
  \/ Kill

WikiSpec == WikiInit /\ [][WikiNext]_wikiVars

-----------------------------------------------------------------------------
WikiTypeOK ==
  /\ TypeOK
  /\ disk \in SUBSET Files
  /\ job \in [Jobs ->
       [at : {"idle", "put", "putting", "attach", "attaching", "deleting", "remove"},
        key : Keys \cup {NoKey}, file : Files \cup {NoFile}]]
  /\ {drawn, known, invented, doomed, late, abandoned} \subseteq SUBSET Files

(* The file a stored tiddler is bound to is in the directory: removing one *)
(* later, without the lock, cannot take it away from a tiddler that had it *)
(* when Del handed it back.  Except for files that a PUT bound after that, *)
(* that Put did not count, or that nobody has uploaded.                    *)
FilesPresent ==
  \A k \in Keys :
    FileOf(db[k]) \in disk \cup late \cup uncounted \cup invented \cup {NoFile}

(* The files that an upload, a DELETE or a critical section works on.      *)
InProgress == {job[j].file : j \in Jobs} \cup {cs.credit}

(* A file in the directory is bound to a tiddler, or in the hands of a     *)
(* handler, unless its count was left too high or a handler gave it up: a  *)
(* count that is too low removes it early, but never keeps it for ever.    *)
NoOrphans ==
  \A f \in disk : BoundTo(f) # {} \/ f \in InProgress \cup leaked \cup abandoned

=============================================================================
