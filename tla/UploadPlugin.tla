----------------------------- MODULE UploadPlugin ------------------------------
(***************************************************************************)
(* Importing a file as an attachment (plugin.js), in a tab whose syncer    *)
(* saves and loads the tiddler meanwhile, over the handlers of WikiFiles.  *)
(* The plugin shows a placeholder, uploads, and replaces the placeholder   *)
(* by a tiddler that refers to the file, or by an error.  All of these are *)
(* saved by the syncer with PUTs of their own, while the upload itself     *)
(* puts and attaches the tiddler on the server.                            *)
(*                                                                         *)
(* One title, one tab, and another client that deletes or overwrites the   *)
(* tiddler.  The syncer is TiddlyWiki's, delivered in cmd/index.html with  *)
(* its adaptor for this server (syncer.js and tiddlywebadaptor.js): it has *)
(* one task at a time and tells by the revision whether the server has     *)
(* another version than the one it knows.  Requests and answers may be     *)
(* lost; a request is not served after the tab has given it up, but for an *)
(* upload in progress, and an upload waits for the one before it.  The     *)
(* path of the plugin's setting is the server's, as it is shipped          *)
(* ("/files/"): with another one a PUT binds no file.                      *)
(***************************************************************************)
EXTENDS WikiFiles

CONSTANTS
  Title,
  UpJob, DelJob, OtherJob,     \* the server's goroutines
  Uploading, Failed,           \* texts of the placeholder and of the error
  Foreign,                     \* the text of the other client
  Gone,                        \* no tiddler in the tab
  MaxMishaps                   \* bound on `mishaps`

(* A tiddler without text and with a _canonical_uri.                       *)
Uri(file) == <<"uri", file>>

ASSUME PluginAssumption ==
  /\ Title \in Keys
  /\ {UpJob, DelJob, OtherJob} \subseteq Jobs /\ UpJob \notin {DelJob, OtherJob}
  /\ {Uploading, Failed, Foreign} \cup {Uri(f) : f \in Files \cup {NoFile}} \subseteq Texts
  /\ \A f \in Files \cup {NoFile} : Uri(f) \notin {EmptyText, Uploading, Failed, Foreign}
  /\ Gone \notin Texts
  /\ Failed \notin Files \cup {NoFile}

VARIABLES
  shown,       \* the tiddler in the tab: its text
  edited,      \* has it been changed since the version in `info`?
  touched,     \* has it been changed since `task` was started?
  info,        \* the version that the syncer takes for the server's
  task,        \* the syncer's task
  poll,        \* the answer to a listing, on its way
  due,         \* is the title among titlesToBeLoaded?
  fetch,       \* the upload, as the plugin sees it
  finished,    \* history: the file of the last upload answered to the
               \* plugin, if nobody has changed the tiddler since
  gone,        \* history: files attached before a DELETE of the title
  mishaps      \* losses, kills, reloads, and what the other client and the
               \* user did

syncVars == <<edited, touched, info, task, poll, due>>
pluginVars == <<wikiVars, syncVars, shown, fetch, finished, gone, mishaps>>

(* What a client makes of a stored tiddler: nothing of what                *)
(* AttachAttachment does.  `sure` is history: this very version has been   *)
(* stored, and the title has not been created anew since.                  *)
NoView == [rev |-> 0, text |-> Gone, sure |-> TRUE]
View(td) == IF td = Absent THEN NoView
            ELSE [rev |-> td.rev, text |-> td.text, sure |-> TRUE]
Doubt(view) == IF view = NoView THEN NoView ELSE [view EXCEPT !.sure = FALSE]

Idle == [at |-> "idle", view |-> NoView]
NoFetch == [at |-> "none", reply |-> NoFile]

PluginInit ==
  /\ WikiInit
  /\ shown = Gone /\ edited = FALSE /\ touched = FALSE
  /\ info = NoView /\ task = Idle /\ poll = Idle /\ due = FALSE
  /\ fetch = NoFetch /\ finished = NoFile /\ gone = {} /\ mishaps = 0

Mishap == mishaps < MaxMishaps /\ mishaps' = mishaps + 1

-----------------------------------------------------------------------------
(* The wiki of the tab: addTiddler.                                        *)
Edit(text) ==
  /\ shown' = text
  /\ edited' = TRUE
  /\ touched' = TRUE

(* The user imports a file: doUpload sends it and shows the placeholder.   *)
Import ==
  /\ fetch.at = "none"
  /\ drawn # Files
  /\ Edit(Uploading)
  /\ fetch' = [NoFetch EXCEPT !.at = "sent"]
  /\ finished' = NoFile
  /\ UNCHANGED <<wikiVars, info, task, poll, due, gone, mishaps>>

(* The user deletes the tiddler, whatever it is just now.                  *)
UserDelete ==
  /\ Mishap
  /\ shown # Gone
  /\ shown' = Gone
  /\ finished' = NoFile
  /\ UNCHANGED <<wikiVars, syncVars, fetch, gone>>

(* The page is loaded again: the tab has what the server has.              *)
Reopen ==
  /\ Mishap
  /\ cs = Free
  /\ info' = View(db[Title])
  /\ shown' = info'.text
  /\ edited' = FALSE /\ touched' = FALSE /\ due' = FALSE
  /\ task' = Idle /\ poll' = Idle /\ fetch' = NoFetch
  /\ finished' = NoFile
  /\ UNCHANGED <<wikiVars, gone>>

(* Mutant of Final: the tiddler keeps its text beside the path.            *)
FinalKeepsText(file) == <<Uploading, file>>

(* The tiddler for an uploaded file: no text, and its path.                *)
Final(file) == Uri(file)

(* fetch(..).then and .catch.                                              *)
Uploaded ==
  /\ fetch.at = "answered"
  /\ IF fetch.reply = Failed
       THEN Edit(Failed) /\ finished' = NoFile
       ELSE Edit(Final(fetch.reply)) /\ finished' = fetch.reply
  /\ fetch' = NoFetch
  /\ UNCHANGED <<wikiVars, info, task, poll, due, gone, mishaps>>

(* The request, the connection or the answer is lost: an error.            *)
LoseFetch ==
  /\ Mishap
  /\ fetch.at # "none" /\ fetch.reply # Failed
  /\ fetch' = [at |-> "answered", reply |-> Failed]
  /\ UNCHANGED <<wikiVars, syncVars, shown, finished, gone>>

-----------------------------------------------------------------------------
(* The syncer.  chooseNextTask: a tiddler to save, to delete, to load.  A  *)
(* tiddler that was saved in the last second has to wait, and lets a load  *)
(* go first.  No DELETE is sent if the bag of the tiddler is not known:    *)
(* listings do not tell it.                                                *)
ToSave == shown # Gone /\ (info = NoView \/ edited)
ToDelete == shown = Gone /\ info # NoView

Start(stage, view) ==
  /\ task' = [at |-> stage, view |-> view]
  /\ touched' = FALSE

StartTask ==
  /\ task = Idle
  /\ \/ ToSave /\ Start("put", [NoView EXCEPT !.text = shown]) /\ UNCHANGED due
     \/ ToDelete /\ (Start("delete", NoView) \/ Start("deleted", NoView)) /\ UNCHANGED due
     \/ /\ due /\ ~ToDelete /\ (ToSave => info # NoView)
        /\ Start("load", NoView) /\ due' = FALSE
  /\ UNCHANGED <<wikiVars, shown, edited, info, poll, fetch, finished, gone, mishaps>>

(* storeTiddler: the version of the server takes the place of the tab's.   *)
StoreTiddler(view) ==
  /\ shown' = view.text
  /\ info' = view
  /\ edited' = FALSE
  /\ touched' = TRUE
  /\ finished' = IF shown' = shown THEN finished ELSE NoFile

(* The callback of a task.                                                 *)
FinishTask ==
  /\ \/ /\ task.at = "saved"
        /\ info' = task.view
        /\ edited' = touched
        /\ UNCHANGED <<shown, touched, finished>>
     \/ /\ task.at = "deleted"
        /\ info' = NoView
        /\ UNCHANGED <<shown, edited, touched, finished>>
     \/ /\ task.at = "loaded"
        /\ StoreTiddler(task.view)
  /\ task' = Idle
  /\ UNCHANGED <<wikiVars, poll, due, fetch, gone, mishaps>>

(* A request or an answer is lost, the callback gets an error.             *)
LoseTask ==
  /\ Mishap
  /\ task.at \notin {"idle", "putting", "deleting"}
  /\ task' = Idle
  /\ UNCHANGED <<wikiVars, shown, edited, touched, info, poll, due, fetch, finished, gone>>

(* syncFromServer and its callback: what is missing from the listing is    *)
(* deleted, what has another revision is loaded.  The listing has no text; *)
(* it takes the place of a tiddler without one, as the plugin makes it.    *)
Poll ==
  /\ poll = Idle
  /\ cs = Free
  /\ poll' = [at |-> "answered", view |-> View(db[Title])]
  /\ UNCHANGED <<wikiVars, shown, edited, touched, info, task, due, fetch, finished, gone, mishaps>>

IsUri(text) == \E f \in Files \cup {NoFile} : text = Uri(f)
SkinnyView(view) ==
  IF IsUri(view.text) THEN view ELSE [view EXCEPT !.text = EmptyText, !.sure = FALSE]

Polled ==
  /\ poll # Idle
  /\ \/ /\ poll.view = NoView /\ info # NoView
        /\ StoreTiddler(NoView)
        /\ UNCHANGED due
     \/ /\ poll.view # NoView /\ poll.view.rev # info.rev
        /\ due' = TRUE
        /\ IF shown = Gone \/ IsUri(shown)
             THEN StoreTiddler(SkinnyView(poll.view))
             ELSE UNCHANGED <<shown, edited, touched, info, finished>>
     \/ /\ poll.view.rev = info.rev
        /\ UNCHANGED <<shown, edited, touched, info, due, finished>>
  /\ poll' = Idle
  /\ UNCHANGED <<wikiVars, task, fetch, gone, mishaps>>

-----------------------------------------------------------------------------
(* The server.  An upload ends early, with an error or, if its form cannot *)
(* be read, with a good and empty answer.                                  *)
ServeUpload ==
  /\ fetch.at = "sent"
  /\ \/ /\ \E f \in Files : SaveFile(UpJob, Title, f)
        /\ fetch' = IF job'[UpJob] = IdleJob THEN [at |-> "answered", reply |-> Failed]
                                             ELSE [fetch EXCEPT !.at = "working"]
        /\ UNCHANGED mishaps
     \/ /\ job[UpJob] = IdleJob
        /\ Mishap
        /\ fetch' = [fetch EXCEPT !.at = "answered"]
        /\ UNCHANGED wikiVars
  /\ UNCHANGED <<syncVars, shown, finished, gone>>

AnswerUpload(reply) ==
  fetch' = IF fetch.at = "working" /\ job'[UpJob] = IdleJob
             THEN [at |-> "answered", reply |-> reply] ELSE fetch

UploadStep ==
  /\ \/ UploadPut(UpJob) /\ UNCHANGED fetch
     \/ UploadAttach(UpJob) /\ AnswerUpload(Failed)
     \/ WriteAttach /\ AnswerUpload(IF db' # db THEN cs.credit ELSE Failed)
  /\ UNCHANGED <<syncVars, shown, finished, gone, mishaps>>

ServePut ==
  /\ task.at = "put"
  /\ \E f \in Files \cup {NoFile} :
       /\ f = NoFile <=> task.view.text \notin {Uri(g) : g \in Files}
       /\ f # NoFile => task.view.text = Uri(f)
       /\ PutTiddler(Title, task.view.text, f)
  /\ task' = [task EXCEPT !.at = "putting"]
  /\ UNCHANGED <<shown, edited, touched, info, poll, due, fetch, finished, gone, mishaps>>

(* Another client saves the tiddler.                                       *)
OtherPut ==
  /\ Mishap
  /\ PutTiddler(Title, Foreign, NoFile)
  /\ UNCHANGED <<syncVars, shown, fetch, finished, gone>>

PutStep ==
  /\ \/ WritePutRef
     \/ WritePut
  /\ IF cs' = Free /\ task.at = "putting"
       THEN task' = [at |-> "saved", view |-> [rev |-> cs.td.rev, text |-> cs.td.text,
                                               sure |-> db' # db]]
       ELSE task' = IF db[Title] = Absent /\ db' # db
                      THEN [task EXCEPT !.view = Doubt(@)] ELSE task
  /\ IF db[Title] = Absent /\ db' # db
       THEN info' = Doubt(info) /\ poll' = [poll EXCEPT !.view = Doubt(@)]
       ELSE UNCHANGED <<info, poll>>
  /\ finished' = IF db' # db /\ cs.td.text = Foreign THEN NoFile ELSE finished
  /\ UNCHANGED <<shown, edited, touched, due, fetch, gone, mishaps>>

ServeDelete ==
  /\ task.at = "delete"
  /\ \/ /\ DelTiddler(DelJob, Title)
        /\ task' = [task EXCEPT !.at = IF job'[DelJob] = IdleJob THEN "deleted" ELSE "deleting"]
        /\ gone' = gone \cup known
     \/ /\ cs = Free /\ db[Title] = Absent
        /\ task' = Idle
        /\ UNCHANGED <<wikiVars, gone>>
  /\ UNCHANGED <<shown, edited, touched, info, poll, due, fetch, finished, mishaps>>

(* Another client deletes the tiddler.                                     *)
OtherDelete ==
  /\ Mishap
  /\ DelTiddler(OtherJob, Title)
  /\ gone' = gone \cup known
  /\ finished' = NoFile
  /\ UNCHANGED <<syncVars, shown, fetch>>

DeleteStep ==
  /\ \/ WriteDel
     \/ \E j \in {DelJob, OtherJob} : RemoveFile(j)
  /\ task' = IF task.at = "deleting" /\ job'[DelJob] = IdleJob
               THEN [task EXCEPT !.at = "deleted"] ELSE task
  /\ UNCHANGED <<shown, edited, touched, info, poll, due, fetch, finished, gone, mishaps>>

ServeLoad ==
  /\ task.at = "load"
  /\ cs = Free
  /\ task' = IF db[Title] = Absent THEN Idle ELSE [at |-> "loaded", view |-> View(db[Title])]
  /\ UNCHANGED <<wikiVars, shown, edited, touched, info, poll, due, fetch, finished, gone, mishaps>>

(* The server is killed, and what it was working on is answered no more.   *)
ServerKill ==
  /\ Mishap
  /\ Kill
  /\ fetch' = IF fetch.at = "working" THEN [at |-> "answered", reply |-> Failed] ELSE fetch
  /\ task' = IF task.at \in {"putting", "deleting"} THEN Idle ELSE task
  /\ UNCHANGED <<shown, edited, touched, info, poll, due, finished, gone>>

PluginNext ==
  \/ Import \/ UserDelete \/ Reopen \/ Uploaded \/ LoseFetch
  \/ StartTask \/ FinishTask \/ LoseTask \/ Poll \/ Polled
  \/ ServeUpload \/ UploadStep \/ ServePut \/ OtherPut \/ PutStep
  \/ ServeDelete \/ OtherDelete \/ DeleteStep \/ ServeLoad \/ ServerKill

PluginSpec == PluginInit /\ [][PluginNext]_pluginVars

-----------------------------------------------------------------------------
Views == [rev : Nat, text : Texts \cup {Gone}, sure : BOOLEAN]

PluginTypeOK ==
  /\ WikiTypeOK
  /\ shown \in Texts \cup {Gone}
  /\ {edited, touched, due} \subseteq BOOLEAN
  /\ info \in Views
  /\ task \in [at : {"idle", "put", "putting", "saved", "delete", "deleting", "deleted",
                     "load", "loaded"}, view : Views]
  /\ poll \in [at : {"idle", "answered"}, view : Views]
  /\ fetch \in [at : {"none", "sent", "working", "answered"},
                reply : Files \cup {NoFile, Failed}]
  /\ finished \in Files \cup {NoFile}
  /\ gone \subseteq Files

(* A tab that knows the revision of the stored tiddler knows its text: the *)
(* syncer, which compares nothing but revisions, misses no change.  Except *)
(* after a PUT that was answered and not stored, or when the title has     *)
(* been deleted and created anew, which numbers from 1 again; `sure` is    *)
(* FALSE then.                                                             *)
RevisionTellsText ==
  info.sure /\ db[Title] # Absent /\ info.rev = db[Title].rev => info.text = db[Title].text

(* Once the upload is answered and the syncer has saved what the plugin    *)
(* made of it, the tab shows the file, the stored tiddler is bound to it   *)
(* and counted, and it is in the directory: neither the PUT of the         *)
(* placeholder nor the one inside the upload undoes it, whatever order     *)
(* they are served in.                                                     *)
UploadIsStored ==
  finished # NoFile /\ ~edited /\ info.sure /\ finished \notin gone =>
    /\ shown = Uri(finished)
    /\ db[Title] # Absent
    /\ db[Title].text = shown
    /\ db[Title].file = finished
    /\ fileRef[finished] = 1
    /\ finished \in disk

=============================================================================
