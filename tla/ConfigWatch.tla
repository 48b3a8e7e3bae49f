------------------------------ MODULE ConfigWatch ------------------------------
(***************************************************************************)
(* Reloading of the user and access control file (cmd/main.go).  One       *)
(* goroutine builds the handler from the file, sleeps, and polls the       *)
(* file's size and modification time until they differ from those it saw   *)
(* when it began to poll.  Requests load the handler from an atomic.Value. *)
(* An administrator edits, breaks, removes and restores the file at any    *)
(* time; an editor that writes a file in pieces leaves it broken between   *)
(* two edits.                                                              *)
(***************************************************************************)
EXTENDS Naturals

CONSTANTS
  Configs,     \* contents of the file that auth.Load accepts
  Broken,      \* a content it rejects
  Missing,     \* no file
  NoHandler,   \* the atomic.Value is empty: every request gets a 500
  MaxEdits     \* bound on the number of edits

ASSUME ConfigAssumption ==
  /\ Broken \notin Configs /\ Missing \notin Configs /\ NoHandler \notin Configs
  /\ Broken # Missing
  /\ MaxEdits \in Nat

VARIABLES
  disk,        \* the file: [stat |-> size and time, content |-> ...]
  handler,     \* the configuration that requests are served with
  watch        \* the goroutine: [at |-> stage, stat0 |-> baseline]

vars == <<disk, handler, watch>>

Contents == Configs \cup {Broken, Missing}

(* Every edit leaves a size or a modification time of its own.             *)
Init ==
  /\ disk \in [stat : {0}, content : Contents]
  /\ handler = NoHandler
  /\ watch = [at |-> "build", stat0 |-> 0]

Edit(content) ==
  /\ disk.stat < MaxEdits
  /\ disk' = [stat |-> disk.stat + 1, content |-> content]
  /\ UNCHANGED <<handler, watch>>

GoTo(stage) == watch' = [watch EXCEPT !.at = stage]

(* Mutant of Build: the error of auth.Load is ignored.                     *)
BuildAnyway ==
  /\ watch.at = "build"
  /\ handler' = disk.content
  /\ GoTo("stat0")
  /\ UNCHANGED disk

(* buildHandler: auth.Load, and a new handler unless that fails.  At the   *)
(* start watchFile follows at once, later a sleep of two seconds; what     *)
(* matters is that either comes after the file has been read.              *)
Build ==
  /\ watch.at = "build"
  /\ handler' = IF disk.content \in Configs THEN disk.content ELSE handler
  /\ GoTo("stat0")
  /\ UNCHANGED disk

(* watchFile: os.Stat, the baseline.  Without a file: sleep and try again. *)
Baseline ==
  /\ watch.at = "stat0"
  /\ disk.content # Missing
  /\ watch' = [at |-> "poll", stat0 |-> disk.stat]
  /\ UNCHANGED <<disk, handler>>

(* watchFile: the file is gone; return the error, sleep, start over.       *)
PollGone ==
  /\ watch.at = "poll"
  /\ disk.content = Missing
  /\ GoTo("stat0")
  /\ UNCHANGED <<disk, handler>>

(* Mutant of PollChanged: the loop starts over without a build.            *)
PollForgets ==
  /\ watch.at = "poll"
  /\ disk.content # Missing
  /\ disk.stat # watch.stat0
  /\ GoTo("stat0")
  /\ UNCHANGED <<disk, handler>>

(* watchFile: the size or the time is another one; build.                  *)
PollChanged ==
  /\ watch.at = "poll"
  /\ disk.content # Missing
  /\ disk.stat # watch.stat0
  /\ GoTo("build")
  /\ UNCHANGED <<disk, handler>>

(* With the file unchanged, or missing before the first poll, the loop     *)
(* changes nothing: no step.                                               *)
Watch == Build \/ Baseline \/ PollGone \/ PollChanged

Next == Watch \/ \E content \in Contents : Edit(content)

Spec == Init /\ [][Next]_vars

(* The goroutine sleeps for at most two seconds at a time.                 *)
FairSpec == Spec /\ WF_vars(Watch)

-----------------------------------------------------------------------------
TypeOK ==
  /\ disk \in [stat : 0 .. MaxEdits, content : Contents]
  /\ handler \in Configs \cup {NoHandler}
  /\ watch \in [at : {"build", "stat0", "poll"}, stat0 : 0 .. MaxEdits]

(* An edit that the watcher notices while it polls is applied, unless the  *)
(* file is edited again.                                                   *)
NoticedIsApplied ==
  \A n \in 1 .. MaxEdits :
    /\ watch.at = "poll" /\ watch.stat0 # n
    /\ disk.stat = n /\ disk.content \in Configs
    ~> handler = disk.content \/ disk.stat # n

(* "[x] auto reload config": a valid file that is left alone is applied in *)
(* the end.                                                                *)
Reloads ==
  \A n \in 0 .. MaxEdits :
    disk.stat = n /\ disk.content \in Configs
      ~> handler = disk.content \/ disk.stat # n

=============================================================================
