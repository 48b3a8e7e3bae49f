--------------------------- MODULE UploadPluginProofs --------------------------
(***************************************************************************)
(* Theorems about a tab that uploads files while its syncer saves and      *)
(* loads the tiddler, for every number of files, uploads, losses, kills    *)
(* and changes by another client.                                          *)
(***************************************************************************)
EXTENDS UploadPlugin, WikiFilesProofs

USE TiddlersAssumption, BitcaskAssumption, PluginAssumption

InPut == cs.at \in {"putRef", "putStore"}

(* What is served concerns the one title, and one upload at a time.        *)
OneTitle ==
  /\ InPut \/ cs.at = "attachStore" => cs.key = Title
  /\ cs.at = "putRef" => db[Title] = Absent
  /\ \A j \in Uploads : j = UpJob /\ job[j].key = Title

(* A version that the tab is sure of is an earlier one, or has the text of *)
(* the stored tiddler.                                                     *)
ViewOK(v, td) ==
  v.sure /\ td # Absent => v.rev <= td.rev /\ (v.rev = td.rev => v.text = td.text)

(* What the syncer knows and sends; a PUT that is served is the section in *)
(* progress.                                                               *)
SyncOK ==
  /\ db[Title] # Absent => db[Title].rev >= 1
  /\ \A v \in {info, task.view, poll.view} : ViewOK(v, db[Title])
  /\ task.at \in {"put", "putting"} => task.view.text \in Texts /\ task.view.rev = 0
  /\ task.at = "putting" => InPut /\ cs.td.text = task.view.text

ViewsInv == FileInv /\ PluginTypeOK /\ OneTitle /\ SyncOK

(* Every step of the plugin and the syncer is one of the handlers, or      *)
(* leaves the server alone.                                                *)
LEMMA HandlersStep == PluginTypeOK /\ SyncOK /\ [PluginNext]_pluginVars => [WikiNext]_wikiVars
<1> SUFFICES ASSUME PluginTypeOK, SyncOK, [PluginNext]_pluginVars PROVE [WikiNext]_wikiVars
  OBVIOUS
<1>1. CASE Import \/ UserDelete \/ Reopen \/ Uploaded \/ LoseFetch \/ StartTask
           \/ FinishTask \/ LoseTask \/ Poll \/ Polled \/ ServeLoad
  BY <1>1 DEF Import, UserDelete, Reopen, Uploaded, LoseFetch, StartTask, FinishTask,
              LoseTask, Poll, Polled, ServeLoad
<1>2. CASE ServeUpload
  BY <1>2 DEF ServeUpload, WikiNext
<1>3. CASE UploadStep
  BY <1>3 DEF UploadStep, WikiNext
<1>4. CASE ServePut
  <2>1. task.view.text \in Texts
    BY <1>4 DEF ServePut, SyncOK
  <2> QED BY <1>4, <2>1 DEF ServePut, WikiNext
<1>5. CASE OtherPut
  BY <1>5 DEF OtherPut, WikiNext
<1>6. CASE PutStep
  BY <1>6 DEF PutStep, WikiNext
<1>7. CASE ServeDelete
  BY <1>7 DEF ServeDelete, WikiNext
<1>8. CASE OtherDelete
  BY <1>8 DEF OtherDelete, WikiNext
<1>9. CASE DeleteStep
  BY <1>9 DEF DeleteStep, WikiNext
<1>10. CASE ServerKill
  BY <1>10 DEF ServerKill, WikiNext
<1>11. CASE UNCHANGED pluginVars
  BY <1>11 DEF pluginVars
<1> QED BY <1>1, <1>2, <1>3, <1>4, <1>5, <1>6, <1>7, <1>8, <1>9, <1>10, <1>11 DEF PluginNext

-----------------------------------------------------------------------------
(* Types.  What becomes of a version is a version.                         *)
LEMMA ViewTypes ==
  /\ NoView \in Views /\ NoView.rev = 0 /\ NoView.text = Gone /\ NoView.sure
  /\ \A td \in Tiddler \cup {Absent} : View(td) \in Views
  /\ \A v \in Views : Doubt(v) \in Views /\ SkinnyView(v) \in Views
  /\ \A v \in Views : Doubt(v).rev = v.rev /\ Doubt(v).text = v.text
<1>1. /\ NoView \in Views /\ NoView.rev = 0 /\ NoView.text = Gone /\ NoView.sure
  BY DEF NoView, Views
<1>2. \A td \in Tiddler \cup {Absent} : View(td) \in Views
  BY <1>1 DEF View, Views, Tiddler
<1>3. \A v \in Views : Doubt(v) \in Views /\ SkinnyView(v) \in Views
  BY <1>1 DEF Doubt, SkinnyView, Views
<1>4. \A v \in Views : Doubt(v).rev = v.rev /\ Doubt(v).text = v.text
  BY <1>1 DEF Doubt, Views
<1> QED BY <1>1, <1>2, <1>3, <1>4

TaskStages == {"idle", "put", "putting", "saved", "delete", "deleting", "deleted",
               "load", "loaded"}

TabTypeOK ==
  /\ shown \in Texts \cup {Gone}
  /\ edited \in BOOLEAN /\ touched \in BOOLEAN /\ due \in BOOLEAN
  /\ info \in Views
  /\ task \in [at : TaskStages, view : Views]
  /\ poll \in [at : {"idle", "answered"}, view : Views]
  /\ fetch \in [at : {"none", "sent", "working", "answered"},
                reply : Files \cup {NoFile, Failed}]
  /\ finished \in Files \cup {NoFile}
  /\ gone \in SUBSET Files

LEMMA TabTypes == PluginTypeOK <=> WikiTypeOK /\ TabTypeOK
  BY DEF PluginTypeOK, TabTypeOK, TaskStages

(* A tab that takes over a version keeps its types.                        *)
LEMMA TakenOver ==
  ASSUME TabTypeOK, NEW view \in Views, StoreTiddler(view)
  PROVE  /\ shown' \in Texts \cup {Gone} /\ info' \in Views
         /\ edited' \in BOOLEAN /\ touched' \in BOOLEAN /\ finished' \in Files \cup {NoFile}
  BY DEF StoreTiddler, TabTypeOK, Views

LEMMA TypeStep == ViewsInv /\ [PluginNext]_pluginVars => TabTypeOK'
<1> SUFFICES ASSUME ViewsInv, [PluginNext]_pluginVars PROVE TabTypeOK'
  OBVIOUS
<1>1. FileInv' /\ WikiTypeOK'
  BY HandlersStep, FileStep DEF ViewsInv, FileInv
<1>2. TabTypeOK /\ db[Title] \in Tiddler \cup {Absent} /\ db'[Title] \in Tiddler \cup {Absent}
  BY <1>1, TabTypes DEF ViewsInv, WikiTypeOK, TypeOK
<1>3. Idle \in [at : TaskStages, view : Views] /\ Idle \in [at : {"idle", "answered"}, view : Views]
  BY ViewTypes DEF Idle, TaskStages
<1>4. /\ cs.credit \in Files \cup {NoFile} /\ known \in SUBSET Files
      /\ cs.at = "attachStore" => cs.credit \in Files
      /\ InPut => cs.td \in Tiddler
  BY DEF ViewsInv, FileInv, Basics, TypeOK, CriticalSection, WikiTypeOK, SectionOK, InPut
<1> USE DEF TabTypeOK
<1>5. CASE Import
  <2>1. [NoFetch EXCEPT !.at = "sent"] = [at |-> "sent", reply |-> NoFile]
    BY DEF NoFetch
  <2> QED BY <1>2, <1>5, <2>1 DEF Import, Edit
<1>23. CASE UserDelete
  BY <1>2, <1>23 DEF UserDelete, syncVars
<1>24. CASE LoseFetch
  BY <1>2, <1>24 DEF LoseFetch, syncVars
<1>6. CASE Reopen
  <2>1. info' \in Views /\ shown' \in Texts \cup {Gone}
    BY <1>2, <1>6, ViewTypes DEF Reopen, Views
  <2>2. fetch' = NoFetch /\ task' = Idle /\ poll' = Idle /\ finished' = NoFile
        /\ UNCHANGED <<gone, wikiVars>> /\ edited' = FALSE /\ touched' = FALSE /\ due' = FALSE
    BY <1>6 DEF Reopen
  <2> QED BY <1>1, <1>2, <1>3, <2>1, <2>2, TabTypes DEF NoFetch
<1>7. CASE Uploaded
  <2>1. fetch.reply \in Files \cup {NoFile, Failed}
    BY <1>2
  <2>2. \A f \in Files \cup {NoFile} : Uri(f) \in Texts
    OBVIOUS
  <2> QED BY <1>2, <1>7, <2>1, <2>2 DEF Uploaded, Edit, Final, NoFetch
<1>8. CASE StartTask
  <2>1. shown # Gone => [NoView EXCEPT !.text = shown] \in Views
    BY <1>2 DEF NoView, Views
  <2>2. task' \in [at : TaskStages, view : Views]
    BY <1>8, <2>1, ViewTypes DEF StartTask, Start, ToSave, TaskStages
  <2>3. touched' = FALSE /\ (due' = due \/ due' = FALSE)
    BY <1>8 DEF StartTask, Start
  <2> QED BY <1>2, <1>8, <2>2, <2>3 DEF StartTask
<1>9. CASE FinishTask
  <2>1. task.view \in Views /\ task' = Idle
    BY <1>2, <1>9 DEF FinishTask
  <2>2. /\ shown' \in Texts \cup {Gone} /\ info' \in Views
        /\ edited' \in BOOLEAN /\ touched' \in BOOLEAN /\ finished' \in Files \cup {NoFile}
    BY <1>2, <1>9, <2>1, ViewTypes, TakenOver DEF FinishTask
  <2> QED BY <1>2, <1>3, <1>9, <2>1, <2>2 DEF FinishTask
<1>10. CASE LoseTask
  BY <1>2, <1>3, <1>10 DEF LoseTask
<1>11. CASE Poll \/ ServeLoad
  <2>1. View(db[Title]) \in Views
    BY <1>2, ViewTypes
  <2>2. UNCHANGED <<shown, edited, touched, info, due, fetch, finished, gone>>
    BY <1>11 DEF Poll, ServeLoad
  <2>3. task' \in [at : TaskStages, view : Views]
    BY <1>2, <1>3, <1>11, <2>1 DEF Poll, ServeLoad, TaskStages
  <2>4. poll' \in [at : {"idle", "answered"}, view : Views]
    BY <1>2, <1>11, <2>1 DEF Poll, ServeLoad
  <2> QED BY <1>2, <2>2, <2>3, <2>4
<1>12. CASE Polled
  <2>1. poll.view \in Views /\ SkinnyView(poll.view) \in Views
    BY <1>2, ViewTypes
  <2>2. /\ shown' \in Texts \cup {Gone} /\ info' \in Views /\ due' \in BOOLEAN
        /\ edited' \in BOOLEAN /\ touched' \in BOOLEAN /\ finished' \in Files \cup {NoFile}
    BY <1>2, <1>12, <2>1, ViewTypes, TakenOver DEF Polled
  <2> QED BY <1>2, <1>3, <1>12, <2>2 DEF Polled
<1>13. CASE ServeUpload
  <2>1. /\ UNCHANGED <<syncVars, shown, finished, gone>>
        /\ \/ fetch' = [at |-> "answered", reply |-> Failed]
           \/ fetch' = [fetch EXCEPT !.at = "working"]
           \/ fetch' = [fetch EXCEPT !.at = "answered"]
    BY <1>13 DEF ServeUpload
  <2>2. fetch' \in [at : {"none", "sent", "working", "answered"}, reply : Files \cup {NoFile, Failed}]
    BY <1>2, <2>1
  <2> QED BY <1>2, <2>1, <2>2 DEF syncVars
<1>14. CASE UploadStep
  <2>1. fetch' \in [at : {"none", "sent", "working", "answered"}, reply : Files \cup {NoFile, Failed}]
    BY <1>2, <1>4, <1>14 DEF UploadStep, AnswerUpload
  <2> QED BY <1>2, <1>14, <2>1 DEF UploadStep, syncVars
<1>15. CASE ServePut
  BY <1>2, <1>15 DEF ServePut, TaskStages
<1>16. CASE OtherPut
  BY <1>2, <1>16 DEF OtherPut, syncVars
<1>17. CASE PutStep
  <2>1. InPut
    BY <1>17 DEF PutStep, WritePutRef, WritePut, PutRef, PutStore, InPut
  <2>2. [rev |-> cs.td.rev, text |-> cs.td.text, sure |-> db' # db] \in Views
    BY <1>4, <2>1 DEF Tiddler, Views
  <2>3. /\ [task EXCEPT !.view = Doubt(task.view)] \in [at : TaskStages, view : Views]
        /\ [poll EXCEPT !.view = Doubt(poll.view)] \in [at : {"idle", "answered"}, view : Views]
        /\ Doubt(info) \in Views
    BY <1>2, ViewTypes
  <2>4. "saved" \in TaskStages
    BY DEF TaskStages
  <2> QED BY <1>2, <1>17, <2>2, <2>3, <2>4 DEF PutStep
<1>18. CASE ServeDelete
  BY <1>2, <1>3, <1>4, <1>18 DEF ServeDelete, TaskStages
<1>19. CASE OtherDelete
  BY <1>2, <1>4, <1>19 DEF OtherDelete, syncVars
<1>20. CASE DeleteStep
  BY <1>2, <1>20 DEF DeleteStep, TaskStages
<1>21. CASE ServerKill
  BY <1>2, <1>3, <1>21 DEF ServerKill
<1>22. CASE UNCHANGED pluginVars
  BY <1>2, <1>22 DEF pluginVars, syncVars
<1> QED BY <1>5, <1>6, <1>7, <1>8, <1>9, <1>10, <1>11, <1>12, <1>13, <1>14, <1>15, <1>16,
           <1>17, <1>18, <1>19, <1>20, <1>21, <1>22, <1>23, <1>24 DEF PluginNext

-----------------------------------------------------------------------------
(* The server.  What a step of the plugin, the syncer or the other client  *)
(* may be there.                                                           *)
Served ==
  \/ UNCHANGED <<wikiVars, gone>>
  \/ /\ gone' = gone
     /\ \/ \E f \in Files : SaveFile(UpJob, Title, f)
        \/ UploadPut(UpJob)
        \/ UploadAttach(UpJob)
        \/ WriteAttach
        \/ \E text \in Texts, file \in Files \cup {NoFile} : PutTiddler(Title, text, file)
        \/ WritePutRef
        \/ WritePut
        \/ WriteDel
        \/ \E j \in {DelJob, OtherJob} : RemoveFile(j)
        \/ Kill
  \/ /\ gone' = gone \cup known
     /\ \E j \in {DelJob, OtherJob} : DelTiddler(j, Title)

LEMMA ServedStep == SyncOK /\ [PluginNext]_pluginVars => Served
<1> SUFFICES ASSUME SyncOK, [PluginNext]_pluginVars PROVE Served
  OBVIOUS
<1>1. CASE Import \/ UserDelete \/ Reopen \/ Uploaded \/ LoseFetch \/ StartTask
           \/ FinishTask \/ LoseTask \/ Poll \/ Polled \/ ServeLoad
  BY <1>1 DEF Served, Import, UserDelete, Reopen, Uploaded, LoseFetch, StartTask, FinishTask,
              LoseTask, Poll, Polled, ServeLoad
<1>2. CASE ServeUpload
  BY <1>2 DEF Served, ServeUpload
<1>3. CASE UploadStep
  BY <1>3 DEF Served, UploadStep
<1>4. CASE ServePut
  <2>1. task.view.text \in Texts
    BY <1>4 DEF ServePut, SyncOK
  <2> QED BY <1>4, <2>1 DEF Served, ServePut
<1>5. CASE OtherPut
  BY <1>5 DEF Served, OtherPut
<1>6. CASE PutStep
  BY <1>6 DEF Served, PutStep
<1>7. CASE ServeDelete
  BY <1>7 DEF Served, ServeDelete
<1>8. CASE OtherDelete
  BY <1>8 DEF Served, OtherDelete
<1>9. CASE DeleteStep
  BY <1>9 DEF Served, DeleteStep
<1>10. CASE ServerKill
  BY <1>10 DEF Served, ServerKill
<1>11. CASE UNCHANGED pluginVars
  BY <1>11 DEF Served, pluginVars
<1> QED BY <1>1, <1>2, <1>3, <1>4, <1>5, <1>6, <1>7, <1>8, <1>9, <1>10, <1>11 DEF PluginNext

LEMMA OneTitleStep == FileInv /\ OneTitle /\ Served => OneTitle'
<1> SUFFICES ASSUME FileInv, OneTitle, Served PROVE OneTitle'
  OBVIOUS
<1>0. /\ job \in [Jobs -> JobStates] /\ UpJob \in Jobs /\ Free.at = "free"
      /\ cs \in CriticalSection
  BY DEF FileInv, WikiTypeOK, JobStates, JobStages, Free, Basics, TypeOK
<1> USE DEF OneTitle, InPut, Uploads
<1>1. CASE UNCHANGED <<wikiVars, gone>>
  BY <1>1 DEF wikiVars, vars, storeVars, fileVars
<1>2. ASSUME NEW f \in Files, SaveFile(UpJob, Title, f) PROVE OneTitle'
  <2>1. db' = db /\ cs' = cs
    BY <1>2 DEF SaveFile, vars, storeVars
  <2>2. job' = job \/ job' = [job EXCEPT ![UpJob] = [at |-> "put", key |-> Title, file |-> f]]
    BY <1>2 DEF SaveFile
  <2> QED BY <1>0, <2>1, <2>2
<1>3. CASE UploadPut(UpJob)
  <2>1. UpJob \in Uploads /\ GoTo(UpJob, "putting") /\ PutBegin(Title, EmptyText, NoFile)
    BY <1>0, <1>3 DEF UploadPut
  <2>2. db' = db /\ cs'.key = Title /\ cs'.at = "putStore"
    BY <2>1 DEF PutBegin
  <2>3. /\ job'[UpJob].key = job[UpJob].key
        /\ \A i \in Jobs : i # UpJob => job'[i] = job[i]
    BY <1>0, <2>1, JobMoved DEF JobStages
  <2> QED BY <2>1, <2>2, <2>3
<1>4. CASE UploadAttach(UpJob)
  <2>1. UpJob \in Uploads /\ job[UpJob].key = Title
    BY <1>0, <1>4 DEF UploadAttach
  <2>2. CASE AttachRef(Title, job[UpJob].file) /\ GoTo(UpJob, "attaching")
    <3>1. db' = db /\ cs'.key = Title /\ cs'.at = "attachStore"
      BY <2>2 DEF AttachRef
    <3>2. /\ job'[UpJob].key = job[UpJob].key
          /\ \A i \in Jobs : i # UpJob => job'[i] = job[i]
      BY <1>0, <2>2, JobMoved DEF JobStages
    <3> QED BY <2>1, <3>1, <3>2
  <2>3. CASE Finish(UpJob) /\ UNCHANGED vars
    <3>1. db' = db /\ cs' = cs
      BY <2>3 DEF vars, storeVars
    <3>2. /\ job'[UpJob].at = "idle"
          /\ \A i \in Jobs : i # UpJob => job'[i] = job[i]
      BY <1>0, <2>3, JobDone
    <3> QED BY <3>1, <3>2
  <2> QED BY <1>4, <2>1, <2>2, <2>3 DEF UploadAttach
<1>5. CASE WriteAttach
  <2>1. cs' = Free
    BY <1>5 DEF WriteAttach, AttachStore
  <2>2. \A j \in Jobs : job'[j] = job[j] \/ job'[j] = IdleJob
    BY <1>5 DEF WriteAttach
  <2> QED BY <1>0, <2>1, <2>2 DEF IdleJob
<1>6. ASSUME NEW text \in Texts, NEW file \in Files \cup {NoFile}, PutTiddler(Title, text, file)
      PROVE  OneTitle'
  BY <1>6 DEF PutTiddler, PutBegin, fileVars
<1>7. CASE WritePutRef
  BY <1>0, <1>7 DEF WritePutRef, PutRef, fileVars, CriticalSection
<1>8. CASE WritePut
  <2>1. cs' = Free
    BY <1>8 DEF WritePut, PutStore
  <2>2. \A j \in Jobs : job'[j] = job[j] \/ (job[j].at = "putting" /\ job'[j] = [job[j] EXCEPT !.at = "attach"])
    BY <1>8 DEF WritePut
  <2>3. ASSUME NEW j \in Jobs PROVE job'[j].key = job[j].key /\ (j \in Uploads' => j \in Uploads)
    <3>1. [job[j] EXCEPT !.at = "attach"].key = job[j].key
      BY <1>0 DEF JobStates
    <3>2. job'[j] = job[j] \/ (job[j].at = "putting" /\ job'[j].key = job[j].key)
      BY <2>2, <3>1
    <3> QED BY <3>2
  <2> QED BY <1>0, <2>1, <2>3
<1>9. CASE WriteDel
  <2>1. cs' = Free
    BY <1>9 DEF WriteDel, DelRef
  <2>2. \A j \in Jobs : job'[j] = job[j] \/ job'[j].at \in {"idle", "remove"}
    BY <1>0, <1>9 DEF WriteDel, IdleJob, JobStates
  <2> QED BY <1>0, <2>1, <2>2
<1>10. ASSUME NEW j \in {DelJob, OtherJob}, RemoveFile(j) PROVE OneTitle'
  <2>1. db' = db /\ cs' = cs /\ Finish(j) /\ j \in Jobs
    BY <1>10 DEF RemoveFile, vars, storeVars
  <2>2. \A i \in Jobs : job'[i] = job[i] \/ job'[i].at = "idle"
    BY <1>0, <2>1, JobDone
  <2> QED BY <2>1, <2>2
<1>11. CASE Kill
  <2>1. cs' = Free /\ \A j \in Jobs : job'[j] = IdleJob
    BY <1>11 DEF Kill, Restart
  <2> QED BY <1>0, <2>1 DEF IdleJob
<1>12. ASSUME NEW j \in {DelJob, OtherJob}, DelTiddler(j, Title) PROVE OneTitle'
  <2>1. cs'.at \in {"free", "delRef"}
    BY <1>0, <1>12 DEF DelTiddler, DelStore, Free
  <2>2. \A i \in Jobs : job'[i] = job[i] \/ job'[i].at = "deleting"
    BY <1>0, <1>12 DEF DelTiddler
  <2> QED BY <2>1, <2>2
<1> QED BY <1>1, <1>2, <1>3, <1>4, <1>5, <1>6, <1>7, <1>8, <1>9, <1>10, <1>11, <1>12 DEF Served

-----------------------------------------------------------------------------
(* Versions.  One that a tab is sure of stays in order while the stored    *)
(* tiddler counts on.                                                      *)
Later(td, new) ==
  \/ new = Absent
  \/ /\ td # Absent
     /\ td.rev < new.rev \/ (td.rev = new.rev /\ td.text = new.text)

LEMMA ViewKept ==
  ASSUME NEW td \in Tiddler \cup {Absent}, NEW new \in Tiddler \cup {Absent}, Later(td, new),
         NEW v \in Views, ViewOK(v, td)
  PROVE  ViewOK(v, new)
  BY DEF ViewOK, Later, Views, Tiddler

(* What a tab makes of the stored tiddler, or of another version.          *)
LEMMA ViewMade ==
  ASSUME NEW td \in Tiddler \cup {Absent}, td # Absent => td.rev >= 1
  PROVE  /\ ViewOK(NoView, td) /\ ViewOK(View(td), td)
         /\ \A text \in Texts : ViewOK([NoView EXCEPT !.text = text], td)
         /\ \A v \in Views : ViewOK(Doubt(v), td)
         /\ \A v \in Views : ViewOK(v, td) => ViewOK(SkinnyView(v), td)
<1>1. td # Absent => td.rev \in Nat
  BY DEF Tiddler
<1>2. ViewOK(NoView, td)
  BY <1>1, ViewTypes DEF ViewOK
<1>3. ViewOK(View(td), td)
  BY <1>1, <1>2 DEF ViewOK, View
<1>4. ASSUME NEW text \in Texts PROVE ViewOK([NoView EXCEPT !.text = text], td)
  BY <1>1 DEF ViewOK, NoView
<1>5. ASSUME NEW v \in Views PROVE ViewOK(Doubt(v), td)
  BY <1>1, <1>2 DEF ViewOK, Doubt, Views
<1>6. ASSUME NEW v \in Views, ViewOK(v, td) PROVE ViewOK(SkinnyView(v), td)
  BY <1>6 DEF ViewOK, SkinnyView, Views
<1> QED BY <1>2, <1>3, <1>4, <1>5, <1>6

(* What the two sections that store the tiddler make of it.                *)
LEMMA PutWritten ==
  ASSUME FileInv, OneTitle, WritePut
  PROVE  /\ cs.at = "putStore" /\ cs' = Free /\ cs.td \in Tiddler
         /\ cs.td.rev = IF db[Title] = Absent THEN 1 ELSE db[Title].rev + 1
         /\ db' = db \/ (db' # db /\ db'[Title] = cs.td)
<1>1. /\ db \in [Keys -> Tiddler \cup {Absent}] /\ SectionOK
  BY DEF FileInv, Basics, TypeOK
<1>2. cs.at = "putStore" /\ cs' = Free /\ (db' = db \/ db' = [db EXCEPT ![Title] = cs.td])
  BY DEF WritePut, PutStore, OneTitle, InPut
<1>3. cs.td \in Tiddler /\ cs.td.rev = IF db[Title] = Absent THEN 1 ELSE db[Title].rev + 1
  <2>1. cs.key = Title
    BY <1>2 DEF OneTitle, InPut
  <2>2. PICK text \in Texts \cup {Skinny}, file \in Files \cup {NoFile} :
          cs.td = Updated(db[Title], text, file)
    BY <1>1, <1>2, <2>1 DEF SectionOK
  <2>3. Updated(db[Title], text, file).rev = IF db[Title] = Absent THEN 1 ELSE db[Title].rev + 1
    BY DEF Updated
  <2> QED BY <1>1, <1>2, <2>2, <2>3 DEF SectionOK
<1>4. cs.td # db[Title]
  BY <1>1, <1>3 DEF Tiddler
<1> QED BY <1>1, <1>2, <1>3, <1>4

LEMMA AttachWritten ==
  ASSUME FileInv, OneTitle, WriteAttach
  PROVE  /\ cs.at = "attachStore" /\ cs' = Free /\ db[Title] \in Tiddler /\ cs.credit \in Files
         /\ \/ db' = db
            \/ /\ db'[Title] \in Tiddler /\ db'[Title].file = cs.credit
               /\ db'[Title].rev = db[Title].rev /\ db'[Title].text = db[Title].text
<1>1. /\ db \in [Keys -> Tiddler \cup {Absent}] /\ SectionOK
  BY DEF FileInv, Basics, TypeOK
<1>2. /\ cs.at = "attachStore" /\ cs' = Free /\ cs.key = Title
      /\ db' = db \/ db' = [db EXCEPT ![Title] = cs.td]
  BY DEF WriteAttach, AttachStore, OneTitle, InPut
<1>3. PICK file \in Files : cs.td = [db[Title] EXCEPT !.file = file] /\ cs.credit = file
  BY <1>1, <1>2 DEF SectionOK
<1>4. db[Title] \in Tiddler
  BY <1>1, <1>2 DEF SectionOK
<1>5. /\ cs.td \in Tiddler /\ cs.td.file = cs.credit
      /\ cs.td.rev = db[Title].rev /\ cs.td.text = db[Title].text
  BY <1>3, <1>4 DEF Tiddler
<1> QED BY <1>1, <1>2, <1>3, <1>4, <1>5

LEMMA SyncStep == ViewsInv /\ [PluginNext]_pluginVars => SyncOK'
<1> SUFFICES ASSUME ViewsInv, [PluginNext]_pluginVars PROVE SyncOK'
  OBVIOUS
<1>0. /\ FileInv /\ OneTitle /\ SyncOK /\ FileInv'
      /\ db[Title] \in Tiddler \cup {Absent} /\ db'[Title] \in Tiddler \cup {Absent}
      /\ info \in Views /\ task \in [at : TaskStages, view : Views]
      /\ poll \in [at : {"idle", "answered"}, view : Views]
      /\ shown \in Texts \cup {Gone} /\ Free.at = "free"
  BY HandlersStep, FileStep, TabTypes DEF ViewsInv, FileInv, WikiTypeOK, TypeOK, TabTypeOK, Free
<1> DEFINE Old == db[Title]
           New == db'[Title]
           Rest == /\ task'.at \in {"put", "putting"} =>
                        task'.view.text \in Texts /\ task'.view.rev = 0
                   /\ task'.at = "putting" => InPut' /\ cs'.td.text = task'.view.text
           Views3 == ViewOK(info', New) /\ ViewOK(task'.view, New) /\ ViewOK(poll'.view, New)
<1>a. /\ Old # Absent => Old.rev >= 1
      /\ ViewOK(info, Old) /\ ViewOK(task.view, Old) /\ ViewOK(poll.view, Old)
      /\ task.at \in {"put", "putting"} => task.view.text \in Texts /\ task.view.rev = 0
      /\ task.at = "putting" => InPut /\ cs.td.text = task.view.text
  BY <1>0 DEF SyncOK
<1>b. ASSUME Later(Old, New)
      PROVE  /\ New # Absent => New.rev >= 1
             /\ \A v \in Views : ViewOK(v, Old) => ViewOK(v, New)
  BY <1>0, <1>a, <1>b, ViewKept DEF Later, Tiddler
<1>c. ASSUME New # Absent => New.rev >= 1, Views3, Rest PROVE SyncOK'
  BY <1>c DEF SyncOK
<1>d. Later(Old, Old)
  BY DEF Later
<1>e. ASSUME UNCHANGED <<task, cs>> PROVE Rest
  BY <1>a, <1>e DEF InPut
<1>f. /\ ViewOK(NoView, Old) /\ ViewOK(View(Old), Old)
      /\ \A text \in Texts : ViewOK([NoView EXCEPT !.text = text], Old)
      /\ \A v \in Views : ViewOK(v, Old) => ViewOK(SkinnyView(v), Old)
      /\ Idle.view = NoView /\ Idle.at = "idle"
  BY <1>0, <1>a, ViewMade DEF Idle
<1> HIDE DEF Rest, Views3, Old, New
<1>g. ASSUME Later(Old, New), UNCHANGED <<info, poll, task>> PROVE Views3
  BY <1>0, <1>a, <1>b, <1>g DEF Views3
<1>h. ASSUME UNCHANGED wikiVars PROVE Old = New /\ cs' = cs
  BY <1>h DEF wikiVars, vars, storeVars, Old, New
<1>i. ASSUME Old = New PROVE Later(Old, New) /\ (New # Absent => New.rev >= 1)
  BY <1>a, <1>d, <1>i
<1>1. CASE Import \/ UserDelete \/ Uploaded \/ LoseFetch
  <2>1. UNCHANGED <<wikiVars, info, task, poll>>
    BY <1>1 DEF Import, UserDelete, Uploaded, LoseFetch, syncVars
  <2> QED BY <2>1, <1>c, <1>e, <1>g, <1>h, <1>i
<1>2. CASE Reopen
  <2>1. UNCHANGED wikiVars /\ info' = View(db[Title]) /\ task' = Idle /\ poll' = Idle
    BY <1>2 DEF Reopen
  <2>2. Views3
    BY <2>1, <1>f, <1>h DEF Views3, Old
  <2> QED BY <2>1, <2>2, <1>c, <1>f, <1>h, <1>i DEF Rest
<1>3. CASE StartTask
  <2>1. UNCHANGED <<wikiVars, info, poll>> /\ touched' = FALSE
    BY <1>3 DEF StartTask, Start
  <2>2. \/ task' = [at |-> "put", view |-> [NoView EXCEPT !.text = shown]] /\ shown # Gone
        \/ task' = [at |-> "delete", view |-> NoView]
        \/ task' = [at |-> "deleted", view |-> NoView]
        \/ task' = [at |-> "load", view |-> NoView]
    BY <1>3 DEF StartTask, Start, ToSave
  <2>3. [NoView EXCEPT !.text = shown].rev = 0 /\ [NoView EXCEPT !.text = shown].text = shown
    BY DEF NoView
  <2>4. shown # Gone => shown \in Texts /\ ViewOK([NoView EXCEPT !.text = shown], Old)
    BY <1>0, <1>f
  <2>5. ViewOK(task'.view, New)
    BY <2>1, <2>2, <2>4, <1>f, <1>h
  <2>6. \/ task'.at = "put" /\ task'.view.text \in Texts /\ task'.view.rev = 0
        \/ task'.at \in {"delete", "deleted", "load"}
    <3>1. PICK view : view = [NoView EXCEPT !.text = shown]
      OBVIOUS
    <3>2. \/ task' = [at |-> "put", view |-> view] /\ shown # Gone
          \/ task'.at \in {"delete", "deleted", "load"}
      BY <2>2, <3>1
    <3>3. view.rev = 0 /\ view.text = shown
      BY <2>3, <3>1
    <3> QED BY <2>4, <3>2, <3>3
  <2>7. Rest
    BY <2>6 DEF Rest
  <2> QED BY <2>1, <2>5, <2>7, <1>a, <1>c, <1>h, <1>i DEF Views3
<1>4. CASE FinishTask
  <2>1. UNCHANGED <<wikiVars, poll>> /\ task' = Idle /\ info' \in {task.view, NoView}
    BY <1>4 DEF FinishTask, StoreTiddler
  <2>2. Views3
    BY <2>1, <1>a, <1>f, <1>h DEF Views3
  <2> QED BY <2>1, <2>2, <1>c, <1>f, <1>h, <1>i DEF Rest
<1>5. CASE LoseTask
  <2>1. UNCHANGED <<wikiVars, poll, info>> /\ task' = Idle
    BY <1>5 DEF LoseTask
  <2>2. Views3
    BY <2>1, <1>a, <1>f, <1>h DEF Views3
  <2> QED BY <2>1, <2>2, <1>c, <1>f, <1>h, <1>i DEF Rest
<1>6. CASE Poll
  <2>1. UNCHANGED <<wikiVars, task, info>> /\ poll'.view = View(db[Title])
    BY <1>6 DEF Poll
  <2>2. Views3
    BY <2>1, <1>a, <1>f, <1>h DEF Views3, Old
  <2> QED BY <2>1, <2>2, <1>c, <1>e, <1>h, <1>i
<1>7. CASE Polled
  <2>1. /\ UNCHANGED <<wikiVars, task>> /\ poll' = Idle
        /\ info' \in {info, NoView, SkinnyView(poll.view)}
    BY <1>7 DEF Polled, StoreTiddler
  <2>2. Views3
    BY <2>1, <1>0, <1>a, <1>f, <1>h DEF Views3
  <2> QED BY <2>1, <2>2, <1>c, <1>e, <1>h, <1>i
<1>8. CASE ServeUpload
  <2>1. UNCHANGED <<info, poll, task, vars>>
    BY <1>8 DEF ServeUpload, SaveFile, syncVars, wikiVars
  <2>2. Old = New /\ cs' = cs
    BY <2>1 DEF vars, storeVars, Old, New
  <2> QED BY <2>1, <2>2, <1>c, <1>e, <1>g, <1>i
<1>9. CASE UploadStep
  <2>1. UNCHANGED <<info, poll, task>>
    BY <1>9 DEF UploadStep, syncVars
  <2>2. ~InPut \/ UNCHANGED cs
    BY <1>9, <1>0 DEF UploadStep, UploadPut, UploadAttach, WriteAttach, PutBegin, AttachRef,
                      AttachStore, InPut, vars, storeVars
  <2>3. Rest
    BY <2>1, <2>2, <1>a, <1>e DEF Rest
  <2>4. ASSUME WriteAttach PROVE Later(Old, New)
    BY <2>4, <1>0, AttachWritten DEF Later, Old, New
  <2>5. ASSUME UploadPut(UpJob) \/ UploadAttach(UpJob) PROVE Old = New
    BY <2>5 DEF UploadPut, UploadAttach, PutBegin, AttachRef, vars, storeVars, Old, New
  <2>6. Later(Old, New)
    BY <1>9, <1>i, <2>4, <2>5 DEF UploadStep
  <2> QED BY <2>1, <2>3, <2>6, <1>b, <1>c, <1>g
<1>10. CASE ServePut
  <2>1. PICK f \in Files \cup {NoFile} : PutTiddler(Title, task.view.text, f)
    BY <1>10 DEF ServePut
  <2>2. /\ UNCHANGED <<info, poll>> /\ task' = [task EXCEPT !.at = "putting"]
        /\ task.at = "put"
    BY <1>10 DEF ServePut
  <2>3. db' = db /\ cs'.at \in {"putRef", "putStore"} /\ cs'.td.text = task.view.text
    BY <2>1, <2>2, <1>a DEF PutTiddler, PutBegin, Updated
  <2>4. task'.view = task.view
    BY <2>2, <1>0
  <2>5. Rest
    BY <2>2, <2>3, <2>4, <1>a DEF Rest, InPut
  <2>6. Old = New
    BY <2>3 DEF Old, New
  <2> QED BY <2>2, <2>4, <2>5, <2>6, <1>a, <1>c, <1>i DEF Views3
<1>11. CASE OtherPut
  <2>1. UNCHANGED <<info, poll, task, db>> /\ cs = Free
    BY <1>11 DEF OtherPut, PutTiddler, PutBegin, syncVars
  <2>2. Old = New
    BY <2>1 DEF Old, New
  <2>3. Rest
    BY <2>1, <1>0, <1>a DEF Rest, InPut
  <2> QED BY <2>1, <2>2, <2>3, <1>c, <1>g, <1>i
<1>12. CASE PutStep
  <2>1. CASE WritePutRef
    <3>1. cs.at = "putRef" /\ cs'.at = "putStore" /\ cs'.td = cs.td /\ db' = db
      BY <2>1, <1>0 DEF WritePutRef, PutRef, FileInv, Basics, TypeOK, CriticalSection
    <3>2. UNCHANGED <<info, poll, task>>
      BY <1>0, <1>12, <3>1 DEF PutStep
    <3>3. Old = New /\ Rest
      BY <3>1, <3>2, <1>a DEF Old, New, Rest, InPut
    <3> QED BY <3>2, <3>3, <1>c, <1>g, <1>i
  <2>2. CASE WritePut
    <3>1. /\ cs' = Free /\ cs.td \in Tiddler /\ cs.at = "putStore"
          /\ cs.td.rev = IF Old = Absent THEN 1 ELSE Old.rev + 1
          /\ db' = db \/ (db' # db /\ New = cs.td)
      BY <1>0, <2>2, PutWritten DEF Old, New
    <3>2. \/ /\ db' = db /\ Old = New
          \/ /\ db' # db /\ Old = Absent /\ New # Absent /\ New.rev = 1
          \/ /\ db' # db /\ Old # Absent /\ Later(Old, New)
      BY <3>1, <1>0 DEF Old, New, Later, Tiddler
    <3>3. New # Absent => New.rev >= 1
      BY <3>2, <1>a, <1>b
    <3>4. task.at = "putting" =>
            task' = [at |-> "saved", view |-> [rev |-> cs.td.rev, text |-> cs.td.text,
                                               sure |-> db' # db]]
      BY <1>12, <3>1 DEF PutStep
    <3>5. ASSUME task.at = "putting" PROVE ViewOK(task'.view, New)
      <4>1. /\ task'.view.rev = cs.td.rev /\ task'.view.text = cs.td.text
            /\ task'.view.sure = (db' # db)
        <5>1. PICK view : view = [rev |-> cs.td.rev, text |-> cs.td.text, sure |-> db' # db]
          OBVIOUS
        <5>2. task'.view = view
          BY <3>4, <3>5, <5>1
        <5>3. view.rev = cs.td.rev /\ view.text = cs.td.text /\ view.sure = (db' # db)
          BY <5>1
        <5> QED BY <5>2, <5>3
      <4>2. task'.view.sure => db' # db
        BY <4>1, Zenon
      <4> QED BY <3>1, <4>1, <4>2 DEF ViewOK, Tiddler
    <3>6. CASE db' # db /\ Old = Absent
      <4>1. info' = Doubt(info) /\ poll'.view = Doubt(poll.view)
        BY <1>0, <1>12, <3>6 DEF PutStep, Old
      <4>2. task.at # "putting" => task'.view = Doubt(task.view) /\ task'.at = task.at
        BY <1>0, <1>12, <3>6 DEF PutStep, Old
      <4>3. \A v \in Views : ViewOK(Doubt(v), New)
        BY <1>0, <3>3, ViewMade DEF New
      <4>4. Views3
        BY <4>1, <4>2, <4>3, <3>5, <1>0 DEF Views3
      <4>5. Rest
        BY <4>2, <3>4, <1>0, <1>a, ViewTypes DEF Rest
      <4> QED BY <3>3, <4>4, <4>5, <1>c
    <3>7. CASE ~(db' # db /\ Old = Absent)
      <4>1. UNCHANGED <<info, poll>> /\ (task.at # "putting" => task' = task)
        BY <1>12, <3>7 DEF PutStep, Old
      <4>2. Later(Old, New)
        BY <3>2, <3>7, <1>i
      <4>3. Views3
        BY <4>1, <4>2, <3>5, <1>0, <1>a, <1>b DEF Views3
      <4>4. Rest
        BY <4>1, <3>4, <1>a DEF Rest
      <4> QED BY <3>3, <4>3, <4>4, <1>c
    <3> QED BY <3>6, <3>7
  <2> QED BY <1>12, <2>1, <2>2 DEF PutStep
<1>13. CASE ServeDelete
  <2>1. UNCHANGED <<info, poll>> /\ task.at = "delete"
    BY <1>13 DEF ServeDelete
  <2>2. \/ task'.at \in {"deleted", "deleting"} /\ task'.view = task.view
        \/ task' = Idle
    BY <1>0, <1>13 DEF ServeDelete
  <2>3. New = Absent \/ New = Old
    BY <1>0, <1>13 DEF ServeDelete, DelTiddler, DelStore, New, Old, wikiVars, vars, storeVars,
                       FileInv, Basics, TypeOK
  <2>4. Later(Old, New)
    BY <2>3, <1>i DEF Later
  <2>5. Views3
    BY <2>1, <2>2, <2>4, <1>0, <1>a, <1>b, <1>f, ViewTypes DEF Views3
  <2> QED BY <2>2, <2>4, <2>5, <1>b, <1>c, <1>f DEF Rest
<1>14. CASE OtherDelete
  <2>1. UNCHANGED <<info, poll, task>> /\ cs = Free
    BY <1>14 DEF OtherDelete, DelTiddler, DelStore, syncVars
  <2>2. New = Absent
    BY <1>0, <1>14 DEF OtherDelete, DelTiddler, DelStore, New, FileInv, Basics, TypeOK
  <2>3. Later(Old, New) /\ Rest
    BY <2>1, <2>2, <1>0, <1>a DEF Later, Rest, InPut
  <2> QED BY <2>1, <2>3, <1>b, <1>c, <1>g
<1>15. CASE DeleteStep
  <2>1. UNCHANGED <<info, poll, db>>
    BY <1>15 DEF DeleteStep, WriteDel, DelRef, RemoveFile, vars, storeVars
  <2>2. task'.view = task.view /\ (task'.at = task.at \/ task'.at = "deleted")
    BY <1>0, <1>15 DEF DeleteStep
  <2>3. ~InPut \/ cs' = cs
    BY <1>15 DEF DeleteStep, WriteDel, DelRef, RemoveFile, vars, storeVars, InPut
  <2>4. Old = New /\ Rest
    BY <2>1, <2>2, <2>3, <1>a DEF Old, New, Rest, InPut
  <2> QED BY <2>1, <2>2, <2>4, <1>a, <1>c, <1>i DEF Views3
<1>16. CASE ServeLoad
  <2>1. UNCHANGED <<wikiVars, info, poll>>
    BY <1>16 DEF ServeLoad
  <2>2. task' = Idle \/ (task'.at = "loaded" /\ task'.view = View(Old))
    BY <1>16 DEF ServeLoad, Old
  <2>3. Views3 /\ Rest
    BY <2>1, <2>2, <1>a, <1>f, <1>h DEF Views3, Rest
  <2> QED BY <2>1, <2>3, <1>c, <1>h, <1>i
<1>17. CASE ServerKill
  <2>1. UNCHANGED <<info, poll, db>>
    BY <1>17 DEF ServerKill, Kill, Restart
  <2>2. task' = Idle \/ (task' = task /\ task.at # "putting")
    BY <1>17 DEF ServerKill
  <2>3. Old = New
    BY <2>1 DEF Old, New
  <2>4. Views3 /\ Rest
    BY <2>1, <2>2, <2>3, <1>a, <1>f DEF Views3, Rest
  <2> QED BY <2>3, <2>4, <1>c, <1>i
<1>18. CASE UNCHANGED pluginVars
  <2>1. UNCHANGED <<wikiVars, info, task, poll>>
    BY <1>18 DEF pluginVars, syncVars
  <2> QED BY <2>1, <1>c, <1>e, <1>g, <1>h, <1>i
<1> QED BY <1>1, <1>2, <1>3, <1>4, <1>5, <1>6, <1>7, <1>8, <1>9, <1>10, <1>11, <1>12, <1>13,
           <1>14, <1>15, <1>16, <1>17, <1>18 DEF PluginNext

LEMMA ViewsStart == PluginInit => ViewsInv
<1> SUFFICES ASSUME PluginInit PROVE ViewsInv
  OBVIOUS
<1>1. FileInv /\ WikiTypeOK
  BY WikiStart DEF PluginInit, WikiInv, FileInv
<1>2. db[Title] = Absent /\ cs = Free /\ Free.at = "free" /\ Uploads = {}
  BY DEF PluginInit, WikiInit, Init, Free, Uploads, IdleJob
<1>3. TabTypeOK
  BY ViewTypes DEF PluginInit, TabTypeOK, Idle, NoFetch, TaskStages
<1>4. OneTitle
  BY <1>2 DEF OneTitle, InPut
<1>5. SyncOK
  BY <1>2 DEF PluginInit, SyncOK, ViewOK, Idle
<1> QED BY <1>1, <1>3, <1>4, <1>5, TabTypes DEF ViewsInv

LEMMA ViewsStep == ViewsInv /\ [PluginNext]_pluginVars => ViewsInv'
<1> SUFFICES ASSUME ViewsInv, [PluginNext]_pluginVars PROVE ViewsInv'
  OBVIOUS
<1>1. FileInv' /\ OneTitle' /\ SyncOK'
  BY HandlersStep, FileStep, ServedStep, OneTitleStep, SyncStep DEF ViewsInv
<1>2. PluginTypeOK'
  BY <1>1, TypeStep DEF FileInv, PluginTypeOK, TabTypeOK, TaskStages
<1> QED BY <1>1, <1>2 DEF ViewsInv

THEOREM ViewsAlways == PluginSpec => []ViewsInv
  BY ViewsStart, ViewsStep, PTL DEF PluginSpec

(* The tab, its syncer and the server keep their types.                    *)
THEOREM PluginTypeCorrect == PluginSpec => []PluginTypeOK
<1>1. ViewsInv => PluginTypeOK
  BY DEF ViewsInv
<1> QED BY <1>1, ViewsAlways, PTL

(* The tab uses the server as any client does: what is proved of the       *)
(* handlers holds under the plugin and the syncer.                         *)
THEOREM PluginUsesHandlers == PluginSpec => WikiSpec
<1>1. PluginInit => WikiInit
  BY DEF PluginInit
<1>2. ViewsInv /\ [PluginNext]_pluginVars => [WikiNext]_wikiVars
  BY HandlersStep DEF ViewsInv
<1> QED BY <1>1, <1>2, ViewsAlways, PTL DEF PluginSpec, WikiSpec

(* The syncer, which compares revisions, misses no change of the text.     *)
THEOREM RevisionTells == PluginSpec => []RevisionTellsText
<1>1. ViewsInv => RevisionTellsText
  BY DEF ViewsInv, SyncOK, ViewOK, RevisionTellsText
<1> QED BY <1>1, ViewsAlways, PTL

-----------------------------------------------------------------------------
(* Uploads.  A file that was attached, since when the title has not been   *)
(* deleted, is counted once and in the directory.                          *)
Attached ==
  /\ doomed \subseteq gone /\ gone \subseteq known
  /\ cs.at = "delRef" => cs.credit \in gone
  /\ cs.at = "attachStore" => fileRef[cs.credit] = 1
  /\ \A f \in known \ gone : db[Title] # Absent /\ fileRef[f] = 1 /\ f \in disk

LEMMA AttachedStep ==
  FileInv /\ OneTitle /\ Attached /\ invented = {} /\ Served => Attached'
<1> SUFFICES ASSUME FileInv, OneTitle, Attached, invented = {}, Served PROVE Attached'
  OBVIOUS
<1>0. /\ fileRef \in [Files -> Int] /\ db \in [Keys -> Tiddler \cup {Absent}]
      /\ cs \in CriticalSection /\ SectionOK /\ Free.at = "free" /\ UpJob \in Jobs
      /\ known \in SUBSET Files /\ job \in [Jobs -> JobStates]
  BY DEF FileInv, Basics, TypeOK, Free, WikiTypeOK, JobStates, JobStages
<1> USE DEF Attached
<1>1. CASE UNCHANGED <<wikiVars, gone>>
  BY <1>1 DEF wikiVars, vars, storeVars, fileVars
<1>2. ASSUME NEW f \in Files, SaveFile(UpJob, Title, f), gone' = gone PROVE Attached'
  BY <1>2 DEF SaveFile, vars, storeVars
<1>3. CASE UploadPut(UpJob) /\ gone' = gone
  BY <1>3 DEF UploadPut, PutBegin
<1>4. CASE UploadAttach(UpJob) /\ gone' = gone
  <2>1. CASE UNCHANGED vars
    BY <1>4, <2>1 DEF UploadAttach, vars, storeVars
  <2>2. CASE AttachRef(job[UpJob].key, job[UpJob].file)
    <3>1. UpJob \in Uploads /\ job[UpJob].file \in Files
      BY <1>0, <1>4 DEF UploadAttach, Uploads, FileInv, UploadOK, WikiTypeOK
    <3>2. /\ fileRef[job[UpJob].file] = 0 /\ db' = db
          /\ fileRef' = [fileRef EXCEPT ![job[UpJob].file] = fileRef[job[UpJob].file] + 1]
          /\ cs'.at = "attachStore" /\ cs'.credit = job[UpJob].file
      BY <2>2 DEF AttachRef, Unused
    <3>3. UNCHANGED <<disk, known, doomed>>
      BY <1>4 DEF UploadAttach
    <3> QED BY <1>0, <1>4, <3>1, <3>2, <3>3
  <2> QED BY <1>4, <2>1, <2>2 DEF UploadAttach
<1>5. CASE WriteAttach /\ gone' = gone
  <2>1. /\ cs.at = "attachStore" /\ cs' = Free /\ db[Title] \in Tiddler /\ cs.credit \in Files
        /\ db' = db \/ db'[Title] \in Tiddler
    BY <1>5, AttachWritten
  <2>2. PICK j \in Jobs : job[j].at = "attaching"
    BY <2>1 DEF FileInv, OwnerOK
  <2>3. cs.credit \in disk
    BY <2>2 DEF FileInv, OwnerOK, UploadOK, Uploads
  <2>4. /\ UNCHANGED <<fileRef, disk, doomed>>
        /\ known' = known \/ known' = known \cup {cs.credit}
    BY <1>5 DEF WriteAttach, AttachStore
  <2> QED BY <1>0, <1>5, <2>1, <2>3, <2>4
<1>6. ASSUME NEW text \in Texts, NEW file \in Files \cup {NoFile}, PutTiddler(Title, text, file),
             gone' = gone
      PROVE  Attached'
  BY <1>6 DEF PutTiddler, PutBegin, fileVars
<1>7. CASE WritePutRef /\ gone' = gone
  <2>1. db[Title] = Absent /\ cs'.at = "putStore"
    BY <1>0, <1>7 DEF WritePutRef, PutRef, OneTitle, CriticalSection
  <2> QED BY <1>7, <2>1 DEF WritePutRef, PutRef, fileVars
<1>8. CASE WritePut /\ gone' = gone
  <2>1. cs' = Free /\ cs.td \in Tiddler /\ (db' = db \/ db'[Title] = cs.td)
    BY <1>8, PutWritten
  <2>2. UNCHANGED <<fileRef, disk, known, doomed>>
    BY <1>8 DEF WritePut, PutStore
  <2> QED BY <1>0, <1>8, <2>1, <2>2
<1>9. CASE WriteDel /\ gone' = gone
  <2>1. /\ cs.at = "delRef" /\ cs' = Free /\ UNCHANGED <<db, disk, known>>
        /\ \/ fileRef' = fileRef
           \/ fileRef' = [fileRef EXCEPT ![cs.credit] = fileRef[cs.credit] - 1]
    BY <1>9 DEF WriteDel, DelRef
  <2>2. handed' \in {cs.credit, NoFile}
    BY <1>0, <1>9, <2>1 DEF WriteDel, DelRef, SectionOK
  <2>3. doomed' \subseteq gone
    BY <1>9, <2>1, <2>2 DEF WriteDel
  <2>4. \A f \in known \ gone : fileRef'[f] = 1
    BY <1>0, <2>1
  <2> QED BY <1>0, <1>9, <2>1, <2>3, <2>4
<1>10. ASSUME NEW j \in {DelJob, OtherJob}, RemoveFile(j), gone' = gone PROVE Attached'
  <2>1. /\ UNCHANGED <<db, cs, fileRef, known, doomed>>
        /\ disk' = disk \/ disk' = disk \ {job[j].file}
    BY <1>10 DEF RemoveFile, vars, storeVars
  <2>2. job[j].file \in doomed
    BY <1>10 DEF RemoveFile, FileInv, OwnerOK
  <2> QED BY <1>10, <2>1, <2>2
<1>11. CASE Kill /\ gone' = gone
  BY <1>0, <1>11 DEF Kill, Restart
<1>12. ASSUME NEW j \in {DelJob, OtherJob}, DelTiddler(j, Title), gone' = gone \cup known
       PROVE  Attached'
  <2>1. /\ UNCHANGED <<fileRef, disk, known, doomed>> /\ db[Title] # Absent
        /\ cs' = Free \/ (cs'.at = "delRef" /\ cs'.credit = db[Title].file /\ db[Title].file # NoFile)
    BY <1>12 DEF DelTiddler, DelStore, Free
  <2>2. db[Title].file \in known \cup {NoFile}
    BY <2>1 DEF FileInv, KnownOK, FileOf
  <2> QED BY <1>0, <1>12, <2>1, <2>2
<1> QED BY <1>1, <1>2, <1>3, <1>4, <1>5, <1>6, <1>7, <1>8, <1>9, <1>10, <1>11, <1>12 DEF Served

(* What the plugin has been told of an upload: a file that clients know,   *)
(* by a goroutine that is done with it.                                    *)
FetchOK ==
  /\ fetch.at # "answered" => fetch.reply = NoFile
  /\ fetch.at = "answered" /\ fetch.reply # Failed => job[UpJob] = IdleJob
  /\ fetch.at = "answered" /\ fetch.reply \in Files => fetch.reply \in known
  /\ finished # NoFile =>
       /\ finished \in known /\ shown = Uri(finished)
       /\ fetch = NoFetch /\ job[UpJob] = IdleJob

LEMMA FetchStep == ViewsInv /\ FetchOK /\ [PluginNext]_pluginVars => FetchOK'
<1> SUFFICES ASSUME ViewsInv, FetchOK, [PluginNext]_pluginVars PROVE FetchOK'
  OBVIOUS
<1>0. /\ FileInv /\ OneTitle /\ TabTypeOK /\ job \in [Jobs -> JobStates] /\ UpJob \in Jobs
      /\ known \in SUBSET Files /\ NoFetch.at = "none" /\ NoFetch.reply = NoFile
      /\ IdleJob.at = "idle" /\ cs \in CriticalSection
  BY TabTypes DEF ViewsInv, FileInv, WikiTypeOK, JobStates, JobStages, NoFetch, IdleJob, Basics, TypeOK
<1> USE DEF FetchOK
<1>1. CASE Import \/ UserDelete \/ Reopen \/ LoseFetch
  <2>1. UNCHANGED <<job, known>>
    BY <1>1 DEF Import, UserDelete, Reopen, LoseFetch, wikiVars, fileVars
  <2>2. CASE LoseFetch
    BY <1>0, <2>1, <2>2 DEF LoseFetch
  <2>3. CASE Import
    BY <1>0, <2>1, <2>3 DEF Import, NoFetch
  <2>4. CASE UserDelete \/ Reopen
    BY <1>0, <2>1, <2>4 DEF UserDelete, Reopen
  <2> QED BY <1>1, <2>2, <2>3, <2>4
<1>2. CASE Uploaded
  <2>1. UNCHANGED <<job, known>> /\ fetch' = NoFetch /\ fetch.at = "answered"
    BY <1>2 DEF Uploaded, wikiVars, fileVars
  <2>2. \/ finished' = NoFile
        \/ fetch.reply # Failed /\ finished' = fetch.reply /\ shown' = Uri(fetch.reply)
    BY <1>2 DEF Uploaded, Edit, Final
  <2> QED BY <1>0, <2>1, <2>2 DEF TabTypeOK
<1>3. CASE StartTask \/ LoseTask \/ Poll \/ ServeLoad
  BY <1>3 DEF StartTask, LoseTask, Poll, ServeLoad, wikiVars, fileVars
<1>4. CASE FinishTask \/ Polled
  <2>1. UNCHANGED <<job, known, fetch>>
    BY <1>4 DEF FinishTask, Polled, wikiVars, fileVars
  <2>2. finished' = NoFile \/ (finished' = finished /\ shown' = shown)
    BY <1>4 DEF FinishTask, Polled, StoreTiddler
  <2> QED BY <2>1, <2>2
<1>5. CASE ServeUpload
  <2>1. /\ fetch.at = "sent" /\ UNCHANGED <<known, finished, shown>>
        /\ \/ fetch' = [at |-> "answered", reply |-> Failed]
           \/ fetch' = [fetch EXCEPT !.at = "working"]
           \/ /\ job[UpJob] = IdleJob /\ fetch' = [fetch EXCEPT !.at = "answered"]
              /\ UNCHANGED job
    BY <1>5 DEF ServeUpload, SaveFile, wikiVars, fileVars
  <2>2. finished = NoFile /\ fetch.reply = NoFile
    BY <1>0, <2>1
  <2>3. \/ fetch'.at = "answered" /\ fetch'.reply = Failed
        \/ fetch'.at = "working" /\ fetch'.reply = NoFile
        \/ fetch'.reply = NoFile /\ fetch'.at = "answered" /\ job'[UpJob] = IdleJob
    BY <1>0, <2>1, <2>2 DEF TabTypeOK
  <2> QED BY <2>1, <2>2, <2>3
<1>6. CASE UploadStep
  <2>0. UNCHANGED <<finished, shown>>
    BY <1>6 DEF UploadStep
  <2>1. CASE UploadPut(UpJob) /\ UNCHANGED fetch
    BY <1>0, <2>0, <2>1 DEF UploadPut
  <2>2. CASE UploadAttach(UpJob) /\ AnswerUpload(Failed)
    <3>1. job[UpJob] # IdleJob /\ UNCHANGED known
      BY <1>0, <2>2 DEF UploadAttach
    <3>2. fetch' = fetch \/ (fetch'.at = "answered" /\ fetch'.reply = Failed)
      BY <2>2 DEF AnswerUpload
    <3> QED BY <2>0, <3>1, <3>2
  <2>3. CASE WriteAttach /\ AnswerUpload(IF db' # db THEN cs.credit ELSE Failed)
    <3>1. PICK j \in Jobs : job[j].at = "attaching"
      BY <1>0, <2>3 DEF WriteAttach, AttachStore, FileInv, OwnerOK
    <3>2. job[UpJob].at = "attaching" /\ job'[UpJob] = IdleJob
      BY <1>0, <2>3, <3>1 DEF OneTitle, Uploads, WriteAttach
    <3>3. known' = IF db' # db THEN known \cup {cs.credit} ELSE known
      BY <2>3 DEF WriteAttach
    <3>4. \/ fetch' = fetch
          \/ fetch'.at = "answered" /\ fetch'.reply = Failed
          \/ fetch'.at = "answered" /\ fetch'.reply = cs.credit /\ cs.credit \in known'
      BY <2>3, <3>3 DEF AnswerUpload
    <3> QED BY <1>0, <2>0, <3>2, <3>3, <3>4
  <2> QED BY <1>6, <2>1, <2>2, <2>3 DEF UploadStep
<1>7. CASE ServePut \/ OtherPut
  BY <1>7 DEF ServePut, OtherPut, PutTiddler, fileVars
<1>8. CASE PutStep
  <2>1. UNCHANGED <<known, fetch, shown>> /\ finished' \in {NoFile, finished}
    BY <1>8 DEF PutStep, WritePutRef, WritePut, fileVars
  <2>2. job[UpJob] = IdleJob => job'[UpJob] = IdleJob
    BY <1>0, <1>8 DEF PutStep, WritePutRef, WritePut, fileVars
  <2> QED BY <2>1, <2>2
<1>9. CASE ServeDelete \/ OtherDelete
  <2>1. UNCHANGED <<known, fetch, shown>> /\ finished' \in {NoFile, finished}
    BY <1>9 DEF ServeDelete, OtherDelete, DelTiddler, wikiVars, fileVars
  <2>2. job'[UpJob] = job[UpJob]
    BY <1>0, <1>9 DEF ServeDelete, OtherDelete, DelTiddler, wikiVars, fileVars
  <2> QED BY <2>1, <2>2
<1>10. CASE DeleteStep
  <2>1. UNCHANGED <<known, fetch, shown, finished>>
    BY <1>10 DEF DeleteStep, WriteDel, RemoveFile
  <2>2. job[UpJob] = IdleJob => job'[UpJob] = IdleJob
    BY <1>0, <1>10 DEF DeleteStep, WriteDel, RemoveFile, Finish
  <2> QED BY <2>1, <2>2
<1>11. CASE ServerKill
  <2>1. UNCHANGED <<known, shown, finished>> /\ job'[UpJob] = IdleJob
    BY <1>0, <1>11 DEF ServerKill, Kill
  <2>2. \/ fetch' = fetch
        \/ fetch.at = "working" /\ fetch'.at = "answered" /\ fetch'.reply = Failed
    BY <1>11 DEF ServerKill
  <2> QED BY <1>0, <2>1, <2>2
<1>12. CASE UNCHANGED pluginVars
  BY <1>12 DEF pluginVars, wikiVars, fileVars
<1> QED BY <1>1, <1>2, <1>3, <1>4, <1>5, <1>6, <1>7, <1>8, <1>9, <1>10, <1>11, <1>12 DEF PluginNext

-----------------------------------------------------------------------------
(* The files that the tab, the syncer and the server refer to in a text.   *)
TextOf(td) == IF td = Absent THEN Gone ELSE td.text
Seen == {shown, info.text, task.view.text, poll.view.text, TextOf(db[Title]), TextOf(cs.td)}
Plain == {EmptyText, Uploading, Failed, Foreign, Gone}

(* A file that is referred to has been answered to a client, and is not    *)
(* the answer that is on its way.                                          *)
SeenOK ==
  \A f \in Files :
    Uri(f) \in Seen => f \in known /\ (fetch.at = "answered" => fetch.reply # f)

LEMMA UriTexts ==
  /\ \A f \in Files \cup {NoFile} : Uri(f) \notin Plain
  /\ \A f, g : Uri(f) = Uri(g) => f = g
<1>1. ASSUME NEW f \in Files \cup {NoFile} PROVE Uri(f) \notin Plain
  <2>1. Uri(f) \notin {EmptyText, Uploading, Failed, Foreign} /\ Uri(f) \in Texts /\ Gone \notin Texts
    OBVIOUS
  <2> QED BY <2>1 DEF Plain
<1>2. \A f, g : Uri(f) = Uri(g) => f = g
  BY DEF Uri
<1> QED BY <1>1, <1>2

(* The texts of a version and of the stored tiddlers.                      *)
LEMMA ViewTexts ==
  /\ NoView.text = Gone /\ Idle.view.text = Gone
  /\ \A td : View(td).text = TextOf(td)
  /\ \A v \in Views : Doubt(v).text = v.text
  /\ \A v \in Views : SkinnyView(v).text \in {v.text, EmptyText}
  /\ \A text : [NoView EXCEPT !.text = text].text = text
<1>1. NoView.text = Gone /\ Idle.view.text = Gone
  BY DEF NoView, Idle
<1>2. \A td : View(td).text = TextOf(td)
  BY <1>1 DEF View, TextOf
<1>3. \A v \in Views : SkinnyView(v).text \in {v.text, EmptyText}
  BY DEF SkinnyView, Views
<1>4. \A text : [NoView EXCEPT !.text = text].text = text
  BY DEF NoView
<1> QED BY <1>1, <1>2, <1>3, <1>4, ViewTypes

(* What the server's steps make of the texts it holds.                     *)
LEMMA TextsPut ==
  ASSUME FileInv, NEW text \in Texts, NEW file \in Files \cup {NoFile}, PutTiddler(Title, text, file)
  PROVE  /\ UNCHANGED <<db, known, job, disk, fileRef>> /\ cs = Free /\ cs'.td.file = file
         /\ cs'.td # Absent /\ cs'.td.text = text /\ cs'.at \in {"putRef", "putStore"}
<1>1. /\ UNCHANGED <<db, known, job, disk, fileRef>> /\ cs = Free /\ cs'.td = Updated(db[Title], text, file)
      /\ cs'.at \in {"putRef", "putStore"}
  BY DEF PutTiddler, PutBegin, fileVars
<1>2. text # Skinny
  OBVIOUS
<1>3. Updated(db[Title], text, file) \in Tiddler /\ Updated(db[Title], text, file).text = text
      /\ Updated(db[Title], text, file).file = file
  BY <1>2 DEF Updated, Tiddler, FileInv, Basics, TypeOK
<1> QED BY <1>1, <1>3

LEMMA TextsUpload ==
  ASSUME FileInv, OneTitle, UploadPut(UpJob) \/ UploadAttach(UpJob)
  PROVE  /\ UNCHANGED <<db, known>>
         /\ TextOf(cs'.td) \in {TextOf(cs.td), TextOf(db[Title]), EmptyText}
<1>0. db \in [Keys -> Tiddler \cup {Absent}] /\ UpJob \in Jobs
  BY DEF FileInv, Basics, TypeOK
<1>1. CASE UploadPut(UpJob)
  <2>1. job[UpJob].key = Title
    BY <1>0, <1>1 DEF OneTitle, Uploads, UploadPut
  <2>2. UNCHANGED <<db, known>> /\ cs'.td = Updated(db[Title], EmptyText, NoFile)
    BY <1>1, <2>1 DEF UploadPut, PutBegin
  <2>3. Updated(db[Title], EmptyText, NoFile) \in Tiddler
        /\ Updated(db[Title], EmptyText, NoFile).text = EmptyText
    BY <1>0 DEF Updated, Tiddler
  <2> QED BY <2>2, <2>3 DEF TextOf
<1>2. CASE UploadAttach(UpJob)
  <2>1. job[UpJob].key = Title
    BY <1>0, <1>2 DEF OneTitle, Uploads, UploadAttach
  <2>2. UNCHANGED <<db, known>>
    BY <1>2 DEF UploadAttach, AttachRef, vars, storeVars
  <2>3. CASE UNCHANGED vars
    BY <2>2, <2>3 DEF vars, storeVars
  <2>4. CASE AttachRef(Title, job[UpJob].file)
    <3>1. cs'.td = [db[Title] EXCEPT !.file = job[UpJob].file] /\ db[Title] \in Tiddler
      BY <1>0, <2>4 DEF AttachRef
    <3>2. job[UpJob].file \in Files \cup {NoFile}
      BY <1>0 DEF FileInv, WikiTypeOK
    <3>3. cs'.td \in Tiddler /\ cs'.td.text = db[Title].text
      BY <3>1, <3>2 DEF Tiddler
    <3> QED BY <2>2, <3>1, <3>3 DEF TextOf
  <2> QED BY <1>2, <2>1, <2>3, <2>4 DEF UploadAttach
<1> QED BY <1>1, <1>2

LEMMA TextsPutStep ==
  ASSUME FileInv, OneTitle, WritePutRef \/ WritePut
  PROVE  /\ known' = known /\ TextOf(cs'.td) \in {TextOf(cs.td), Gone}
         /\ TextOf(db'[Title]) \in {TextOf(db[Title]), TextOf(cs.td)}
<1>1. CASE WritePutRef
  BY <1>1 DEF WritePutRef, PutRef, fileVars, FileInv, Basics, TypeOK, CriticalSection
<1>2. CASE WritePut
  <2>1. cs'.td = Absent /\ known' = known /\ (db' = db \/ db'[Title] = cs.td)
    BY <1>2, PutWritten DEF WritePut, Free
  <2> QED BY <2>1 DEF TextOf
<1> QED BY <1>1, <1>2

LEMMA SeenStep ==
  ViewsInv /\ FetchOK /\ SeenOK /\ [PluginNext]_pluginVars => SeenOK'
<1> SUFFICES ASSUME ViewsInv, FetchOK, SeenOK, [PluginNext]_pluginVars PROVE SeenOK'
  OBVIOUS
<1>0. /\ FileInv /\ OneTitle /\ SyncOK /\ TabTypeOK /\ Free.td = Absent
      /\ job \in [Jobs -> JobStates] /\ UpJob \in Jobs
      /\ info \in Views /\ task \in [at : TaskStages, view : Views] /\ task.view \in Views
      /\ poll \in [at : {"idle", "answered"}, view : Views] /\ poll.view \in Views
      /\ db \in [Keys -> Tiddler \cup {Absent}] /\ TextOf(Absent) = Gone
  BY TabTypes DEF ViewsInv, FileInv, WikiTypeOK, JobStates, JobStages, TabTypeOK, Free, Basics,
                  TypeOK, TextOf
<1> DEFINE More == Seen \cup Plain
           Quiet == fetch' = fetch \/ fetch'.at # "answered" \/ fetch'.reply \notin Files
<1>a. ASSUME known' = known, Quiet,
             shown' \in More, info'.text \in More, task'.view.text \in More,
             poll'.view.text \in More, TextOf(db'[Title]) \in More, TextOf(cs'.td) \in More
      PROVE  SeenOK'
  <2> SUFFICES ASSUME NEW f \in Files, Uri(f) \in Seen'
               PROVE  f \in known' /\ (fetch'.at = "answered" => fetch'.reply # f)
    BY DEF SeenOK
  <2>1. Uri(f) \in Seen
    <3>1. Seen' \subseteq Seen \cup Plain
      BY <1>a DEF Seen
    <3> QED BY <3>1, UriTexts
  <2> QED BY <1>a, <2>1 DEF SeenOK
<1>b. /\ {shown, info.text, task.view.text, poll.view.text} \subseteq More
      /\ TextOf(db[Title]) \in More /\ TextOf(cs.td) \in More
  BY DEF Seen
<1>c. {EmptyText, Uploading, Failed, Foreign, Gone} \subseteq More
  BY DEF Plain
<1>d. ASSUME UNCHANGED wikiVars
      PROVE  known' = known /\ TextOf(db'[Title]) \in More /\ TextOf(cs'.td) \in More
  BY <1>b, <1>d DEF wikiVars, fileVars, vars, storeVars
<1>e. ASSUME UNCHANGED syncVars
      PROVE  info'.text \in More /\ task'.view.text \in More /\ poll'.view.text \in More
  BY <1>b, <1>e DEF syncVars
<1>f. fetch' = fetch => Quiet
  OBVIOUS
<1>g. ASSUME NEW view \in Views, view.text \in More, StoreTiddler(view)
      PROVE  shown' \in More /\ info'.text \in More
  BY <1>g DEF StoreTiddler
<1> HIDE DEF More
<1>1. CASE Import
  BY <1>0, <1>a, <1>b, <1>c, <1>d, <1>1 DEF Import, Edit, NoFetch
<1>2. CASE UserDelete
  BY <1>a, <1>b, <1>c, <1>d, <1>e, <1>f, <1>2 DEF UserDelete
<1>3. CASE LoseFetch
  BY <1>a, <1>b, <1>c, <1>d, <1>e, <1>3 DEF LoseFetch
<1>4. CASE Reopen
  <2>1. UNCHANGED wikiVars /\ info'.text \in More /\ shown' \in More
    BY <1>4, <1>b, ViewTexts DEF Reopen
  <2>2. task' = Idle /\ poll' = Idle /\ fetch' = NoFetch /\ NoFetch.at = "none"
    BY <1>4 DEF Reopen, NoFetch
  <2> QED BY <2>1, <2>2, <1>a, <1>c, <1>d, ViewTexts
<1>5. CASE Uploaded
  <2>1. /\ UNCHANGED <<wikiVars, info, task, poll>> /\ fetch' = NoFetch /\ NoFetch.at = "none"
        /\ fetch.at = "answered" /\ (shown' = Failed \/ shown' = Uri(fetch.reply))
        /\ fetch.reply \in Files \cup {NoFile, Failed}
    BY <1>0, <1>5 DEF Uploaded, Edit, Final, NoFetch, TabTypeOK
  <2>2. CASE shown' = Failed
    BY <1>a, <1>b, <1>c, <1>d, <2>1, <2>2
  <2>3. CASE shown' = Uri(fetch.reply)
    <3> SUFFICES ASSUME NEW f \in Files, Uri(f) \in Seen' PROVE f \in known'
      BY <2>1 DEF SeenOK
    <3>1. UNCHANGED <<db, cs, known>>
      BY <2>1 DEF wikiVars, fileVars, vars, storeVars
    <3>2. Seen' \subseteq Seen \cup {Uri(fetch.reply)}
      BY <2>1, <2>3, <3>1 DEF Seen
    <3>3. CASE Uri(f) \in Seen
      BY <3>1, <3>3 DEF SeenOK
    <3>4. CASE Uri(f) = Uri(fetch.reply)
      BY <2>1, <3>1, <3>4, UriTexts DEF FetchOK
    <3> QED BY <3>2, <3>3, <3>4
  <2> QED BY <2>1, <2>2, <2>3
<1>6. CASE StartTask
  <2>1. UNCHANGED <<wikiVars, shown, info, poll, fetch>>
    BY <1>6 DEF StartTask
  <2>2. task'.view \in {NoView, [NoView EXCEPT !.text = shown]}
    BY <1>6 DEF StartTask, Start
  <2>3. task'.view.text \in More
    <3>1. PICK view : view = [NoView EXCEPT !.text = shown]
      OBVIOUS
    <3>2. view.text = shown /\ task'.view \in {NoView, view}
      BY <2>2, <3>1, ViewTexts
    <3> QED BY <3>2, <1>b, <1>c, ViewTexts
  <2> QED BY <2>1, <2>3, <1>a, <1>b, <1>d, <1>f
<1>7. CASE FinishTask
  <2>1. UNCHANGED <<wikiVars, poll, fetch>> /\ task' = Idle
    BY <1>7 DEF FinishTask
  <2>2. \/ shown' = shown /\ info' \in {task.view, NoView}
        \/ StoreTiddler(task.view)
    BY <1>7 DEF FinishTask
  <2>3. shown' \in More /\ info'.text \in More
    BY <1>0, <1>b, <1>c, <1>g, <2>2, ViewTexts
  <2> QED BY <2>1, <2>3, <1>a, <1>b, <1>c, <1>d, <1>f, ViewTexts
<1>8. CASE LoseTask
  <2>1. UNCHANGED <<wikiVars, shown, info, poll, fetch>> /\ task' = Idle
    BY <1>8 DEF LoseTask
  <2> QED BY <2>1, <1>a, <1>b, <1>c, <1>d, <1>f, ViewTexts
<1>9. CASE Poll
  <2>1. UNCHANGED <<wikiVars, shown, info, task, fetch>> /\ poll'.view = View(db[Title])
    BY <1>9 DEF Poll
  <2> QED BY <2>1, <1>a, <1>b, <1>c, <1>d, <1>f, ViewTexts
<1>10. CASE Polled
  <2>1. UNCHANGED <<wikiVars, task, fetch>> /\ poll' = Idle
    BY <1>10 DEF Polled
  <2>2. \/ UNCHANGED <<shown, info>>
        \/ StoreTiddler(NoView)
        \/ StoreTiddler(SkinnyView(poll.view))
    BY <1>10 DEF Polled
  <2>3. SkinnyView(poll.view).text \in More /\ SkinnyView(poll.view) \in Views
    BY <1>0, <1>b, <1>c, ViewTexts, ViewTypes
  <2>4. shown' \in More /\ info'.text \in More
    BY <1>b, <1>c, <1>g, <2>2, <2>3, ViewTexts, ViewTypes
  <2> QED BY <2>1, <2>4, <1>a, <1>b, <1>c, <1>d, <1>f, ViewTexts
<1>11. CASE ServeUpload
  <2>1. UNCHANGED <<shown, syncVars, db, cs, known>> /\ fetch.at = "sent"
    BY <1>11 DEF ServeUpload, SaveFile, vars, storeVars, wikiVars, fileVars
  <2>2. fetch.reply = NoFile
    BY <2>1 DEF FetchOK
  <2>3. Quiet
    BY <1>0, <1>11, <2>2 DEF ServeUpload, TabTypeOK
  <2> QED BY <2>1, <2>3, <1>a, <1>b, <1>e
<1>12. CASE UploadStep
  <2>1. UNCHANGED <<shown, syncVars>>
    BY <1>12 DEF UploadStep
  <2>2. CASE (UploadPut(UpJob) /\ UNCHANGED fetch) \/ (UploadAttach(UpJob) /\ AnswerUpload(Failed))
    <3>1. Quiet
      BY <2>2 DEF AnswerUpload
    <3> QED BY <2>1, <2>2, <3>1, <1>0, <1>a, <1>b, <1>c, <1>e, TextsUpload
  <2>3. CASE WriteAttach /\ AnswerUpload(IF db' # db THEN cs.credit ELSE Failed)
    <3>1. /\ cs.at = "attachStore" /\ cs' = Free /\ cs.credit \in Files
          /\ TextOf(db'[Title]) = TextOf(db[Title]) /\ TextOf(cs'.td) = Gone
      BY <1>0, <2>3, AttachWritten DEF TextOf
    <3>2. PICK j \in Jobs : job[j].at = "attaching"
      BY <1>0, <3>1 DEF FileInv, OwnerOK
    <3>3. cs.credit \notin known
      BY <1>0, <3>2 DEF FileInv, OwnerOK, UploadOK, Uploads
    <3>4. Uri(cs.credit) \notin Seen
      BY <3>1, <3>3 DEF SeenOK
    <3>5. /\ known \subseteq known'
          /\ \/ fetch' = fetch
             \/ fetch'.reply = Failed
             \/ fetch'.reply = cs.credit
      BY <2>3 DEF WriteAttach, AnswerUpload
    <3> SUFFICES ASSUME NEW f \in Files, Uri(f) \in Seen'
                 PROVE  f \in known' /\ (fetch'.at = "answered" => fetch'.reply # f)
      BY DEF SeenOK
    <3>6. Seen' \subseteq Seen \cup {Gone}
      BY <2>1, <3>1 DEF Seen, syncVars
    <3>7. Uri(f) \in Seen
      BY <3>6, UriTexts DEF Plain
    <3>8. f \in known /\ (fetch.at = "answered" => fetch.reply # f) /\ f # cs.credit
      BY <3>4, <3>7 DEF SeenOK
    <3> QED BY <3>5, <3>8
  <2> QED BY <1>12, <2>2, <2>3 DEF UploadStep
<1>13. CASE ServePut
  <2>1. PICK f \in Files \cup {NoFile} : PutTiddler(Title, task.view.text, f)
    BY <1>13 DEF ServePut
  <2>2. task.view.text \in Texts /\ UNCHANGED <<shown, info, poll, fetch>> /\ task'.view = task.view
    BY <1>0, <1>13 DEF ServePut, SyncOK
  <2>3. UNCHANGED <<db, known>> /\ TextOf(cs'.td) = task.view.text
    BY <1>0, <2>1, <2>2, TextsPut DEF TextOf
  <2> QED BY <2>2, <2>3, <1>a, <1>b, <1>f
<1>14. CASE OtherPut
  <2>1. PutTiddler(Title, Foreign, NoFile) /\ UNCHANGED <<syncVars, shown, fetch>> /\ Foreign \in Texts
    BY <1>14 DEF OtherPut
  <2>2. UNCHANGED <<db, known>> /\ TextOf(cs'.td) = Foreign
    BY <1>0, <2>1, TextsPut DEF TextOf
  <2> QED BY <2>1, <2>2, <1>a, <1>b, <1>c, <1>e, <1>f
<1>15. CASE PutStep
  <2>1. /\ known' = known /\ TextOf(cs'.td) \in More /\ TextOf(db'[Title]) \in More
    BY <1>0, <1>15, <1>b, <1>c, TextsPutStep DEF PutStep
  <2>2. UNCHANGED <<shown, fetch>> /\ cs.td # Absent
    BY <1>0, <1>15 DEF PutStep, WritePutRef, WritePut, PutRef, PutStore, FileInv, Basics, TypeOK, SectionOK
  <2>3. info' \in {info, Doubt(info)} /\ poll'.view \in {poll.view, Doubt(poll.view)}
    BY <1>0, <1>15 DEF PutStep
  <2>4. \/ task'.view \in {task.view, Doubt(task.view)}
        \/ task'.view = [rev |-> cs.td.rev, text |-> cs.td.text, sure |-> db' # db]
    BY <1>0, <1>15 DEF PutStep
  <2>5. [rev |-> cs.td.rev, text |-> cs.td.text, sure |-> db' # db].text = TextOf(cs.td)
    BY <2>2 DEF TextOf
  <2>6. info'.text = info.text /\ poll'.view.text = poll.view.text /\ task'.view.text \in More
    BY <1>0, <1>b, <2>3, <2>4, <2>5, ViewTexts
  <2> QED BY <2>1, <2>2, <2>6, <1>a, <1>b, <1>f
<1>16. CASE ServeDelete \/ OtherDelete
  <2>1. UNCHANGED <<shown, info, poll, fetch, known>> /\ task'.view \in {task.view, NoView}
    BY <1>0, <1>16 DEF ServeDelete, OtherDelete, DelTiddler, syncVars, wikiVars, fileVars, Idle
  <2>2. UNCHANGED <<db, cs>> \/ (TextOf(db'[Title]) = Gone /\ TextOf(cs'.td) = Gone)
    BY <1>0, <1>16 DEF ServeDelete, OtherDelete, DelTiddler, DelStore, Free, wikiVars, vars, storeVars, TextOf
  <2> QED BY <2>1, <2>2, <1>a, <1>b, <1>c, <1>f, ViewTexts
<1>17. CASE DeleteStep
  <2>1. UNCHANGED <<shown, info, poll, fetch, known, db>> /\ task'.view = task.view
    BY <1>0, <1>17 DEF DeleteStep, WriteDel, DelRef, RemoveFile, vars, storeVars
  <2>2. cs' = cs \/ cs' = Free
    BY <1>17 DEF DeleteStep, WriteDel, DelRef, RemoveFile, vars, storeVars
  <2> QED BY <2>1, <2>2, <1>0, <1>a, <1>b, <1>c, <1>f
<1>18. CASE ServeLoad
  <2>1. UNCHANGED <<wikiVars, shown, info, poll, fetch>> /\ task'.view \in {NoView, View(db[Title])}
    BY <1>18 DEF ServeLoad, Idle
  <2> QED BY <2>1, <1>a, <1>b, <1>c, <1>d, <1>f, ViewTexts
<1>19. CASE ServerKill
  <2>1. UNCHANGED <<shown, info, poll, known, db>> /\ cs' = Free /\ task' \in {task, Idle} /\ Quiet
    BY <1>19 DEF ServerKill, Kill, Restart
  <2> QED BY <2>1, <1>0, <1>a, <1>b, <1>c, ViewTexts
<1>20. CASE UNCHANGED pluginVars
  <2>1. UNCHANGED <<wikiVars, syncVars, shown, fetch>>
    BY <1>20 DEF pluginVars
  <2> QED BY <2>1, <1>a, <1>b, <1>d, <1>e, <1>f
<1> QED BY <1>1, <1>2, <1>3, <1>4, <1>5, <1>6, <1>7, <1>8, <1>9, <1>10, <1>11, <1>12, <1>13,
           <1>14, <1>15, <1>16, <1>17, <1>18, <1>19, <1>20 DEF PluginNext

-----------------------------------------------------------------------------
(* The PUT that is served is that of the syncer, of the upload or of the   *)
(* other client; the syncer's names the file that its text refers to.      *)
PutOf ==
  /\ InPut => \/ task.at = "putting"
              \/ job[UpJob].at = "putting" /\ cs.td.text = EmptyText
              \/ cs.td.text = Foreign
  /\ task.at = "putting" => \A f \in Files : cs.td.text = Uri(f) => cs.td.file = f

LEMMA PutOfStep == ViewsInv /\ PutOf /\ [PluginNext]_pluginVars => PutOf'
<1> SUFFICES ASSUME ViewsInv, PutOf, [PluginNext]_pluginVars PROVE PutOf'
  OBVIOUS
<1>0. /\ FileInv /\ OneTitle /\ SyncOK /\ Free.at = "free" /\ Idle.at = "idle"
      /\ job \in [Jobs -> JobStates] /\ UpJob \in Jobs
      /\ task \in [at : TaskStages, view : Views] /\ cs \in CriticalSection
  BY TabTypes DEF ViewsInv, FileInv, WikiTypeOK, JobStates, JobStages, TabTypeOK, Free, Idle,
                  Basics, TypeOK
<1>a. cs = Free => ~InPut /\ task.at # "putting"
  BY <1>0 DEF SyncOK, InPut
<1>b. ASSUME ~InPut', task'.at # "putting" PROVE PutOf'
  BY <1>b DEF PutOf
<1>c. ASSUME UNCHANGED wikiVars, task'.at = task.at \/ (task.at # "putting" /\ task'.at # "putting")
      PROVE  PutOf'
  BY <1>c DEF PutOf, InPut, wikiVars, fileVars, vars, storeVars
<1>1. CASE Import \/ UserDelete \/ Uploaded \/ LoseFetch \/ Poll \/ Polled
  <2>1. UNCHANGED wikiVars /\ task' = task
    BY <1>1 DEF Import, UserDelete, Uploaded, LoseFetch, Poll, Polled, syncVars
  <2> QED BY <2>1, <1>c
<1>2. CASE StartTask \/ FinishTask \/ LoseTask \/ ServeLoad
  <2>1. UNCHANGED wikiVars /\ task.at # "putting"
    BY <1>0, <1>2 DEF StartTask, FinishTask, LoseTask, ServeLoad
  <2>2. task'.at # "putting"
    BY <1>0, <1>2 DEF StartTask, Start, FinishTask, LoseTask, ServeLoad
  <2> QED BY <2>1, <2>2, <1>c
<1>3. CASE Reopen
  BY <1>0, <1>3, <1>a, <1>c DEF Reopen
<1>4. CASE ServeUpload
  <2>1. UNCHANGED <<cs, task>> /\ (job'[UpJob] = job[UpJob] \/ job[UpJob].at = "idle")
    BY <1>4 DEF ServeUpload, SaveFile, syncVars, wikiVars, fileVars, vars, storeVars
  <2> QED BY <2>1 DEF PutOf, InPut
<1>5. CASE UploadStep
  <2>1. task' = task
    BY <1>5 DEF UploadStep, syncVars
  <2>2. CASE UploadPut(UpJob)
    <3>1. /\ job[UpJob].key = Title /\ cs = Free /\ job'[UpJob].at = "putting"
      BY <1>0, <2>2 DEF OneTitle, Uploads, UploadPut, PutBegin, GoTo
    <3>2. cs'.td.text = EmptyText
      BY <2>2 DEF UploadPut, PutBegin, Updated
    <3> QED BY <2>1, <3>1, <3>2, <1>a DEF PutOf
  <2>3. CASE UploadAttach(UpJob)
    <3>1. cs = Free /\ (cs' = cs \/ cs'.at = "attachStore")
      BY <2>3 DEF UploadAttach, AttachRef, vars, storeVars
    <3> QED BY <2>1, <3>1, <1>0, <1>a, <1>b DEF InPut
  <2>4. CASE WriteAttach
    BY <2>1, <2>4, <1>0, <1>b DEF WriteAttach, AttachStore, InPut, SyncOK
  <2> QED BY <1>5, <2>2, <2>3, <2>4 DEF UploadStep
<1>6. CASE ServePut
  <2>1. PICK f \in Files \cup {NoFile} :
          /\ f = NoFile <=> task.view.text \notin {Uri(g) : g \in Files}
          /\ f # NoFile => task.view.text = Uri(f)
          /\ PutTiddler(Title, task.view.text, f)
    BY <1>6 DEF ServePut
  <2>2. task.view.text \in Texts /\ task'.at = "putting"
    BY <1>0, <1>6 DEF ServePut, SyncOK
  <2>3. cs'.td.text = task.view.text /\ cs'.td.file = f
    BY <1>0, <2>1, <2>2, TextsPut
  <2>4. ASSUME NEW g \in Files, cs'.td.text = Uri(g) PROVE f = g
    BY <2>1, <2>3, <2>4, UriTexts
  <2> QED BY <2>2, <2>3, <2>4 DEF PutOf
<1>7. CASE OtherPut
  <2>1. PutTiddler(Title, Foreign, NoFile) /\ task' = task /\ Foreign \in Texts
    BY <1>7 DEF OtherPut, syncVars
  <2>2. cs = Free /\ cs'.td.text = Foreign
    BY <1>0, <2>1, TextsPut
  <2> QED BY <2>1, <2>2, <1>a DEF PutOf
<1>8. CASE PutStep
  <2>1. CASE WritePutRef
    <3>1. db' = db /\ InPut /\ cs'.td = cs.td /\ cs'.at = "putStore" /\ job' = job
      BY <1>0, <2>1 DEF WritePutRef, PutRef, fileVars, InPut, CriticalSection
    <3>2. task' = task
      BY <1>0, <1>8, <3>1 DEF PutStep
    <3> QED BY <3>1, <3>2 DEF PutOf
  <2>2. CASE WritePut
    <3>1. cs' = Free
      BY <2>2 DEF WritePut, PutStore
    <3>2. task'.at # "putting"
      BY <1>0, <1>8, <3>1 DEF PutStep
    <3> QED BY <3>1, <3>2, <1>0, <1>b DEF InPut
  <2> QED BY <1>8, <2>1, <2>2 DEF PutStep
<1>9. CASE ServeDelete \/ OtherDelete
  <2>1. cs = Free /\ cs'.at \in {"free", "delRef"}
    BY <1>0, <1>9 DEF ServeDelete, OtherDelete, DelTiddler, DelStore, Free, wikiVars, vars, storeVars
  <2>2. task'.at # "putting"
    BY <1>0, <1>9, <1>a, <2>1 DEF ServeDelete, OtherDelete, syncVars
  <2> QED BY <2>1, <2>2, <1>b DEF InPut
<1>10. CASE DeleteStep
  <2>1. task' = task \/ (task.at = "deleting" /\ task'.at = "deleted")
    BY <1>0, <1>10 DEF DeleteStep
  <2>2. CASE WriteDel
    <3>1. cs.at = "delRef" /\ cs' = Free
      BY <2>2 DEF WriteDel, DelRef
    <3> QED BY <2>1, <3>1, <1>0, <1>b DEF InPut, SyncOK
  <2>3. ASSUME NEW j \in {DelJob, OtherJob}, RemoveFile(j) PROVE PutOf'
    <3>1. cs' = cs /\ job'[UpJob] = job[UpJob]
      BY <1>0, <2>3 DEF RemoveFile, Finish, vars, storeVars
    <3> QED BY <2>1, <3>1 DEF PutOf, InPut
  <2> QED BY <1>10, <2>2, <2>3 DEF DeleteStep
<1>11. CASE ServerKill
  BY <1>0, <1>11, <1>b DEF ServerKill, Kill, Restart, InPut
<1>12. CASE UNCHANGED pluginVars
  BY <1>12, <1>c DEF pluginVars, syncVars
<1> QED BY <1>1, <1>2, <1>3, <1>4, <1>5, <1>6, <1>7, <1>8, <1>9, <1>10, <1>11, <1>12 DEF PluginNext

-----------------------------------------------------------------------------
(* The upload of the file has been answered to the plugin, and nobody has  *)
(* changed the tiddler since: what the syncer saves next is the reference  *)
(* to the file; it deletes nothing; and once it takes the reference for    *)
(* the server's version, that is what is stored, bound to the file.        *)
Refers(f) == TextOf(db[Title]) = Uri(f)

KeptFor(f) ==
  /\ task.at \in {"put", "putting", "saved"} /\ ~touched => task.view.text = Uri(f)
  /\ task.at \in {"delete", "deleting", "deleted"} => edited
  /\ ~edited => info.text = Uri(f)
  /\ info.sure /\ info.text = Uri(f) => Refers(f)
  /\ poll.view.text = Uri(f) => Refers(f)
  /\ task.at = "loaded" /\ task.view.text = Uri(f) => Refers(f)
  /\ task.at = "saved" /\ task.view.sure /\ task.view.text = Uri(f) => Refers(f)
  /\ Refers(f) =>
       /\ db[Title].file = f
       /\ task.at \notin {"delete", "deleting", "deleted"}
       /\ task.at \in {"put", "putting"} => task.view.text = Uri(f)

KeptOK == finished # NoFile /\ finished \notin gone => KeptFor(finished)

UploadInv ==
  ViewsInv /\ Attached /\ FetchOK /\ SeenOK /\ PutOf /\ KeptOK /\ invented = {}

(* Storing the tiddler again keeps the reference to the file.              *)
LEMMA KeptPut ==
  ASSUME UploadInv, WritePut, PutStep, NEW f \in Files, finished = f, finished' = f, f \notin gone
  PROVE  KeptFor(f)'
<1>0. /\ FileInv /\ OneTitle /\ SyncOK /\ job \in [Jobs -> JobStates] /\ UpJob \in Jobs
      /\ task \in [at : TaskStages, view : Views] /\ task.view \in Views /\ KeptFor(f)
      /\ db[Title] \in Tiddler /\ job[UpJob].at = "idle"
  BY TabTypes DEF UploadInv, ViewsInv, FileInv, WikiTypeOK, JobStates, JobStages, TabTypeOK,
                  Attached, FetchOK, KeptOK, TypeOK, IdleJob
<1>1. /\ cs.at = "putStore" /\ cs' = Free /\ cs.td \in Tiddler
      /\ db' = db \/ (db' # db /\ db'[Title] = cs.td)
  BY <1>0, PutWritten
<1>2. UNCHANGED <<info, poll, edited, touched>>
  BY <1>0 DEF PutStep
<1>3. CASE task.at # "putting"
  <2>1. task' = task
    BY <1>0, <1>3 DEF PutStep
  <2>2. cs.td.text = Foreign
    BY <1>0, <1>1, <1>3 DEF UploadInv, PutOf, InPut
  <2>3. db' = db
    BY <2>2 DEF PutStep
  <2> QED BY <1>0, <1>2, <2>1, <2>3 DEF KeptFor, Refers
<1>4. CASE task.at = "putting"
  <2>1. PICK view : view = [rev |-> cs.td.rev, text |-> cs.td.text, sure |-> db' # db]
    OBVIOUS
  <2>2. task' = [at |-> "saved", view |-> view]
    BY <1>1, <1>4, <2>1 DEF PutStep
  <2>3. view.text = cs.td.text /\ view.sure = (db' # db)
    BY <2>1
  <2>4. cs.td.text = task.view.text
    BY <1>0, <1>4 DEF SyncOK
  <2>5. /\ task'.at = "saved" /\ task'.view = view /\ task'.view.text = task.view.text
        /\ view.sure => db' # db
    <3>1. view.sure => db' # db
      BY <2>3, Zenon
    <3> QED BY <2>2, <2>3, <2>4, <3>1
  <2>6. CASE db' = db
    BY <1>0, <1>2, <1>4, <2>5, <2>6 DEF KeptFor, Refers
  <2>7. CASE db' # db
    <3>1. TextOf(db'[Title]) = task.view.text /\ db'[Title] = cs.td
      BY <1>1, <2>4, <2>7 DEF TextOf
    <3>2. Refers(f) => task.view.text = Uri(f)
      BY <1>0, <1>4 DEF KeptFor
    <3>3. task.view.text = Uri(f) => cs.td.file = f
      BY <1>4, <2>4 DEF UploadInv, PutOf
    <3> QED BY <1>0, <1>2, <1>4, <2>5, <3>1, <3>2, <3>3 DEF KeptFor, Refers
  <2> QED BY <2>6, <2>7
<1> QED BY <1>3, <1>4

LEMMA KeptStep == UploadInv /\ [PluginNext]_pluginVars => KeptOK'
<1> SUFFICES ASSUME UploadInv, [PluginNext]_pluginVars, finished' # NoFile, finished' \notin gone'
             PROVE  KeptFor(finished)'
  BY DEF KeptOK
<1>0. /\ FileInv /\ OneTitle /\ SyncOK /\ TabTypeOK /\ Idle.at = "idle" /\ Idle.view = NoView
      /\ job \in [Jobs -> JobStates] /\ UpJob \in Jobs /\ finished' \in Files
      /\ info \in Views /\ task \in [at : TaskStages, view : Views] /\ task.view \in Views
      /\ poll \in [at : {"idle", "answered"}, view : Views] /\ poll.view \in Views
      /\ db \in [Keys -> Tiddler \cup {Absent}] /\ gone \subseteq gone'
  <2>1. TabTypeOK' /\ gone \subseteq gone'
    BY TypeStep, ServedStep DEF UploadInv, ViewsInv, Served
  <2> QED BY <2>1, TabTypes DEF UploadInv, ViewsInv, FileInv, WikiTypeOK, JobStates, JobStages,
                                TabTypeOK, Idle, Basics, TypeOK
<1>f. PICK f \in Files : finished' = f
  BY <1>0
<1> SUFFICES KeptFor(f)'
  BY <1>f DEF KeptFor, Refers
<1>a. ASSUME finished = f
      PROVE  /\ KeptFor(f) /\ f \notin gone /\ f \in known /\ shown = Uri(f) /\ fetch.at = "none"
             /\ job[UpJob].at = "idle" /\ db[Title] # Absent
  BY <1>0, <1>a, <1>f DEF UploadInv, KeptOK, FetchOK, Attached, NoFetch, IdleJob
<1>b. ASSUME UNCHANGED <<db, syncVars>>, finished = f PROVE KeptFor(f)'
  BY <1>a, <1>b DEF KeptFor, Refers, syncVars
<1>c. UNCHANGED wikiVars => db' = db
  BY DEF wikiVars, vars, storeVars
<1>d. Uri(f) \notin Plain /\ Uri(f) # Gone /\ Uri(f) # EmptyText /\ Uri(f) # Foreign
  BY UriTexts DEF Plain
<1>1. CASE Import \/ UserDelete \/ Reopen \/ OtherDelete
  BY <1>1, <1>f DEF Import, UserDelete, Reopen, OtherDelete
<1>2. CASE LoseFetch \/ ServeUpload
  <2>1. UNCHANGED <<db, syncVars, finished>>
    BY <1>2 DEF LoseFetch, ServeUpload, SaveFile, wikiVars, vars, storeVars
  <2> QED BY <2>1, <1>b, <1>f
<1>3. CASE Uploaded
  <2>1. /\ UNCHANGED <<wikiVars, info, task, poll>> /\ edited' = TRUE /\ touched' = TRUE
        /\ fetch.at = "answered" /\ fetch.reply = f
    BY <1>3, <1>f DEF Uploaded, Edit
  <2>2. Uri(f) \notin Seen
    BY <2>1 DEF UploadInv, SeenOK
  <2>3. Uri(f) \notin {info.text, task.view.text, poll.view.text, TextOf(db[Title])}
    BY <2>2 DEF Seen
  <2> QED BY <1>c, <2>1, <2>3 DEF KeptFor, Refers
<1>4. CASE StartTask
  <2>1. UNCHANGED <<wikiVars, shown, edited, info, poll, finished>> /\ touched' = FALSE
    BY <1>4 DEF StartTask, Start
  <2>2. \/ task' = [at |-> "put", view |-> [NoView EXCEPT !.text = shown]]
        \/ task' = [at |-> "delete", view |-> NoView] /\ shown = Gone
        \/ task' = [at |-> "deleted", view |-> NoView] /\ shown = Gone
        \/ task' = [at |-> "load", view |-> NoView]
    BY <1>4 DEF StartTask, Start, ToDelete
  <2>3. PICK view : view = [NoView EXCEPT !.text = shown]
    OBVIOUS
  <2>4. view.text = shown
    BY <2>3, ViewTexts
  <2>5. (task'.at = "put" /\ task'.view.text = Uri(f)) \/ task'.at = "load"
    <3>1. shown = Uri(f) /\ shown # Gone
      BY <1>a, <1>d, <1>f, <2>1
    <3>2. task' = [at |-> "put", view |-> view] \/ task'.at = "load"
      BY <2>2, <2>3, <3>1
    <3> QED BY <2>4, <3>1, <3>2
  <2> QED BY <1>a, <1>c, <1>f, <2>1, <2>5 DEF KeptFor, Refers
<1>5. CASE FinishTask
  <2>1. UNCHANGED <<wikiVars, poll>> /\ task' = Idle
    BY <1>5 DEF FinishTask
  <2>2. CASE task.at = "saved"
    <3>1. info' = task.view /\ edited' = touched /\ finished = f
      BY <1>5, <1>f, <2>2 DEF FinishTask
    <3>2. ~edited' => ~touched
      BY <3>1, Zenon
    <3> QED BY <1>0, <1>a, <1>c, <2>1, <2>2, <3>1, <3>2 DEF KeptFor, Refers
  <2>3. CASE task.at = "deleted"
    <3>1. info' = NoView /\ edited' = edited /\ finished = f
      BY <1>5, <1>f, <2>3 DEF FinishTask
    <3> QED BY <1>0, <1>a, <1>c, <1>d, <2>1, <2>3, <3>1, ViewTexts DEF KeptFor, Refers
  <2>4. CASE task.at = "loaded"
    <3>1. info' = task.view /\ shown' = task.view.text /\ finished = f /\ shown' = shown
      BY <1>5, <1>f, <2>4 DEF FinishTask, StoreTiddler
    <3> QED BY <1>0, <1>a, <1>c, <2>1, <2>4, <3>1 DEF KeptFor, Refers
  <2> QED BY <1>5, <2>2, <2>3, <2>4 DEF FinishTask
<1>6. CASE LoseTask
  <2>1. UNCHANGED <<wikiVars, edited, info, poll, finished>> /\ task' = Idle
    BY <1>6 DEF LoseTask
  <2> QED BY <1>0, <1>a, <1>c, <1>f, <2>1 DEF KeptFor, Refers
<1>7. CASE Poll
  <2>1. UNCHANGED <<wikiVars, edited, touched, info, task, finished>> /\ poll'.view = View(db[Title])
    BY <1>7 DEF Poll
  <2>2. poll'.view.text = TextOf(db[Title])
    BY <2>1, ViewTexts
  <2> QED BY <1>a, <1>c, <1>f, <2>1, <2>2 DEF KeptFor, Refers
<1>8. CASE Polled
  <2>1. UNCHANGED <<wikiVars, task>> /\ poll' = Idle /\ finished = f
    BY <1>8, <1>f DEF Polled, StoreTiddler
  <2>2. \/ UNCHANGED <<edited, touched, info>>
        \/ shown' = NoView.text /\ shown' = shown
        \/ /\ shown' = SkinnyView(poll.view).text /\ shown' = shown
           /\ info' = SkinnyView(poll.view) /\ edited' = FALSE /\ touched' = TRUE
    BY <1>8, <1>f DEF Polled, StoreTiddler
  <2>3. CASE UNCHANGED <<edited, touched, info>>
    BY <1>0, <1>a, <1>c, <1>d, <2>1, <2>3, ViewTexts DEF KeptFor, Refers
  <2>4. CASE /\ shown' = SkinnyView(poll.view).text /\ shown' = shown
             /\ info' = SkinnyView(poll.view) /\ edited' = FALSE /\ touched' = TRUE
    <3>1. info'.text = Uri(f) /\ poll.view.text = Uri(f)
      BY <1>0, <1>a, <1>d, <2>1, <2>4, ViewTexts
    <3>2. Refers(f)
      BY <1>a, <2>1, <3>1 DEF KeptFor
    <3> QED BY <1>0, <1>a, <1>c, <1>d, <2>1, <2>4, <3>1, <3>2, ViewTexts DEF KeptFor, Refers
  <2> QED BY <1>a, <1>d, <2>1, <2>2, <2>3, <2>4, ViewTexts
<1>9. CASE UploadStep
  <2>1. finished = f
    BY <1>9, <1>f DEF UploadStep
  <2>2. job[UpJob].at = "idle"
    BY <1>a, <2>1
  <2>3. ~UploadPut(UpJob) /\ ~UploadAttach(UpJob)
    BY <2>2 DEF UploadPut, UploadAttach
  <2>4. \A j \in Jobs : job[j].at # "attaching"
    BY <1>0, <2>2 DEF OneTitle, Uploads
  <2>5. ~WriteAttach
    BY <1>0, <2>4 DEF WriteAttach, AttachStore, FileInv, OwnerOK
  <2> QED BY <1>9, <2>3, <2>5 DEF UploadStep
<1>10. CASE ServePut
  <2>1. PICK g \in Files \cup {NoFile} : PutTiddler(Title, task.view.text, g)
    BY <1>10 DEF ServePut
  <2>2. /\ UNCHANGED <<edited, touched, info, poll, finished>> /\ task.at = "put"
        /\ task'.at = "putting" /\ task'.view = task.view
    BY <1>0, <1>10 DEF ServePut
  <2>3. db' = db
    BY <2>1 DEF PutTiddler, PutBegin
  <2> QED BY <1>a, <1>f, <2>2, <2>3 DEF KeptFor, Refers
<1>11. CASE OtherPut
  BY <1>11, <1>b, <1>f DEF OtherPut, PutTiddler, PutBegin
<1>12. CASE PutStep
  <2>1. finished = f
    BY <1>12, <1>f DEF PutStep
  <2>2. CASE WritePutRef
    <3>1. db' = db /\ cs'.at = "putStore"
      BY <2>2 DEF WritePutRef, PutRef, FileInv, Basics, TypeOK, CriticalSection, UploadInv, ViewsInv
    <3>2. UNCHANGED syncVars
      BY <1>12, <3>1 DEF PutStep, syncVars, Free
    <3> QED BY <1>b, <2>1, <3>1, <3>2
  <2>3. CASE WritePut
    BY <1>12, <1>a, <1>f, <2>1, <2>3, KeptPut
  <2> QED BY <1>12, <2>2, <2>3 DEF PutStep
<1>13. CASE ServeDelete
  <2>1. finished = f
    BY <1>13, <1>f DEF ServeDelete
  <2>2. gone' = gone \cup known \/ db[Title] = Absent
    BY <1>13 DEF ServeDelete
  <2> QED BY <1>a, <1>f, <2>1, <2>2
<1>14. CASE DeleteStep
  <2>1. UNCHANGED <<db, edited, touched, info, poll, finished>>
    BY <1>14 DEF DeleteStep, WriteDel, DelRef, RemoveFile, vars, storeVars
  <2>2. task' = task \/ (task.at = "deleting" /\ task'.at = "deleted")
    BY <1>0, <1>14 DEF DeleteStep
  <2> QED BY <1>a, <1>f, <2>1, <2>2 DEF KeptFor, Refers
<1>15. CASE ServeLoad
  <2>1. UNCHANGED <<wikiVars, edited, touched, info, poll, finished>>
    BY <1>15 DEF ServeLoad
  <2>2. task' = Idle \/ (task'.at = "loaded" /\ task'.view = View(db[Title]))
    BY <1>15 DEF ServeLoad
  <2>3. task'.at = "idle" \/ (task'.at = "loaded" /\ task'.view.text = TextOf(db[Title]))
    BY <1>0, <2>2, ViewTexts
  <2> QED BY <1>a, <1>c, <1>f, <2>1, <2>3 DEF KeptFor, Refers
<1>16. CASE ServerKill
  <2>1. UNCHANGED <<db, edited, touched, info, poll, finished>> /\ task' \in {task, Idle}
    BY <1>16 DEF ServerKill, Kill, Restart
  <2> QED BY <1>0, <1>a, <1>f, <2>1 DEF KeptFor, Refers
<1>17. CASE UNCHANGED pluginVars
  BY <1>17, <1>b, <1>c, <1>f DEF pluginVars
<1> QED BY <1>1, <1>2, <1>3, <1>4, <1>5, <1>6, <1>7, <1>8, <1>9, <1>10, <1>11, <1>12, <1>13,
           <1>14, <1>15, <1>16, <1>17 DEF PluginNext

LEMMA UploadStart == PluginInit => UploadInv
<1> SUFFICES ASSUME PluginInit PROVE UploadInv
  OBVIOUS
<1>1. /\ ViewsInv /\ cs = Free /\ Free.at = "free" /\ Free.td = Absent /\ db[Title] = Absent
      /\ known = {} /\ doomed = {} /\ gone = {} /\ finished = NoFile /\ fetch = NoFetch
      /\ shown = Gone /\ info = NoView /\ task = Idle /\ poll = Idle
  BY ViewsStart DEF PluginInit, WikiInit, Init, Free
<1>2. Attached /\ FetchOK /\ KeptOK
  BY <1>1 DEF Attached, FetchOK, KeptOK, NoFetch
<1>3. PutOf
  BY <1>1 DEF PutOf, InPut, Idle
<1>4. Seen = {Gone}
  BY <1>1, ViewTexts DEF Seen, TextOf
<1>5. SeenOK
  BY <1>4, UriTexts DEF SeenOK, Plain
<1>6. invented = {}
  BY DEF PluginInit, WikiInit
<1> QED BY <1>1, <1>2, <1>3, <1>5, <1>6 DEF UploadInv

(* Neither the tab nor the other client invents the name of a file: the    *)
(* ones they send have been answered to them.                              *)
LEMMA InventedStep == UploadInv /\ [PluginNext]_pluginVars => invented' = {}
<1> SUFFICES ASSUME UploadInv, [PluginNext]_pluginVars PROVE invented' = {}
  OBVIOUS
<1>0. invented = {} /\ SeenOK /\ known \subseteq drawn
  BY DEF UploadInv, ViewsInv, FileInv, KnownOK
<1>1. CASE ServePut
  <2>1. PICK f \in Files \cup {NoFile} :
          /\ f # NoFile => task.view.text = Uri(f)
          /\ PutTiddler(Title, task.view.text, f)
    BY <1>1 DEF ServePut
  <2>2. f # NoFile => f \in known
    BY <1>0, <2>1 DEF SeenOK, Seen
  <2> QED BY <1>0, <2>1, <2>2 DEF PutTiddler, Named
<1>2. CASE OtherPut
  BY <1>0, <1>2 DEF OtherPut, PutTiddler, Named
<1>3. CASE \/ Import \/ UserDelete \/ Reopen \/ Uploaded \/ LoseFetch \/ StartTask
           \/ FinishTask \/ LoseTask \/ Poll \/ Polled \/ ServeLoad \/ UNCHANGED pluginVars
  BY <1>0, <1>3 DEF Import, UserDelete, Reopen, Uploaded, LoseFetch, StartTask, FinishTask,
                    LoseTask, Poll, Polled, ServeLoad, pluginVars, wikiVars, fileVars
<1>4. CASE ServeUpload \/ UploadStep
  BY <1>0, <1>4 DEF ServeUpload, SaveFile, UploadStep, UploadPut, UploadAttach, WriteAttach,
                    wikiVars, fileVars
<1>5. CASE PutStep
  BY <1>0, <1>5 DEF PutStep, WritePutRef, WritePut, fileVars
<1>6. CASE ServeDelete \/ OtherDelete \/ DeleteStep
  BY <1>0, <1>6 DEF ServeDelete, OtherDelete, DelTiddler, DeleteStep, WriteDel, RemoveFile,
                    wikiVars, fileVars
<1>7. CASE ServerKill
  BY <1>0, <1>7 DEF ServerKill, Kill
<1> QED BY <1>1, <1>2, <1>3, <1>4, <1>5, <1>6, <1>7 DEF PluginNext

LEMMA UploadKept == UploadInv /\ [PluginNext]_pluginVars => UploadInv'
<1> SUFFICES ASSUME UploadInv, [PluginNext]_pluginVars PROVE UploadInv'
  OBVIOUS
<1>1. ViewsInv'
  BY ViewsStep DEF UploadInv
<1>2. Attached'
  BY ServedStep, AttachedStep DEF UploadInv, ViewsInv
<1>3. FetchOK' /\ SeenOK' /\ PutOf' /\ KeptOK'
  BY FetchStep, SeenStep, PutOfStep, KeptStep DEF UploadInv
<1> QED BY <1>1, <1>2, <1>3, InventedStep DEF UploadInv

(* An upload that was answered and saved by the syncer is stored: whatever *)
(* the order of the PUTs of the placeholder, of the upload and of the      *)
(* tab, and whatever is lost or killed, the tiddler refers to the file, is *)
(* bound to it and counted, and the file is in the directory.              *)
THEOREM UploadStored == PluginSpec => []UploadIsStored
<1>1. PluginSpec => []UploadInv
  BY UploadStart, UploadKept, PTL DEF PluginSpec
<1>2. UploadInv => UploadIsStored
  <2> SUFFICES ASSUME UploadInv, finished # NoFile, ~edited, info.sure, finished \notin gone
               PROVE  /\ shown = Uri(finished) /\ db[Title] # Absent /\ db[Title].text = shown
                      /\ db[Title].file = finished /\ fileRef[finished] = 1 /\ finished \in disk
    BY DEF UploadIsStored
  <2>1. shown = Uri(finished) /\ finished \in known
    BY DEF UploadInv, FetchOK
  <2>2. db[Title] # Absent /\ fileRef[finished] = 1 /\ finished \in disk
    BY <2>1 DEF UploadInv, Attached
  <2>3. Refers(finished) /\ db[Title].file = finished
    BY DEF UploadInv, KeptOK, KeptFor
  <2> QED BY <2>1, <2>2, <2>3 DEF Refers, TextOf
<1> QED BY <1>1, <1>2, PTL

=============================================================================
