------------------------------ MODULE MemServer -------------------------------
(***************************************************************************)
(* The in-memory store from start to stop (store_mem.go: Load, Dump;       *)
(* cmd/main.go: main).  The server loads its file when it starts and       *)
(* writes it only when it is interrupted: srv.Shutdown first waits for the *)
(* requests that were accepted, then Dump truncates the file and writes    *)
(* it anew.  A kill can come at any time, a write can fail, and main looks *)
(* at neither the error of Dump nor that of Load.                          *)
(*                                                                         *)
(* The end of a process and the start of the next one are one step.        *)
(* Requests accepted before the interrupt may enter the store after it, so *)
(* nothing tells the time of waiting from that of serving.                 *)
(***************************************************************************)
EXTENDS MemStore

CONSTANT NoDump         \* no file, or one that cannot be decoded

ASSUME ServerAssumption == NoDump \notin [Keys -> MemTiddlers \cup {Absent}]

VARIABLES
  phase,       \* "serve", or "dump": the file is truncated
  dump,        \* what the file holds: title -> memTiddler or Absent
  safe         \* history: sent and mixed at the last dump completed

serverVars == <<vars, phase, dump, safe>>

Nothing == [k \in Keys |-> Absent]
NothingSafe == [k \in Keys |-> [text |-> Absent, mixed |-> FALSE]]

ServerInit ==
  /\ Init
  /\ phase = "serve"
  /\ dump = NoDump
  /\ safe = NothingSafe

-----------------------------------------------------------------------------
(* UnmarshalJSON skips a tiddler whose meta cannot be decoded.  A file     *)
(* name is from now on what was read of it.                                *)
Decoded(f) ==
  IF f = NoDump THEN Nothing
  ELSE [k \in Keys |-> IF f[k] # Absent /\ Whole(f[k].meta)
                          THEN [f[k] EXCEPT !.file = Str(NameOf(@))] ELSE Absent]

(* Mutant of Counted: only whether a title is bound to the file.           *)
CountedOnce(f) == IF \E k \in Keys : kv'[k] # Absent /\ NameOf(kv'[k].file) = f
                    THEN 1 ELSE 0

(* UnmarshalJSON: the titles bound to a file are counted again.            *)
Counted(f) ==
  Cardinality({k \in Keys : kv'[k] # Absent /\ NameOf(kv'[k].file) = f})

(* Load, by a new process: its store is empty if there is nothing to load. *)
(* What updates bound uncounted before is counted now.                     *)
Load ==
  /\ phase' = "serve"
  /\ kv' = Decoded(dump')
  /\ fileRef' = [f \in Files |-> Counted(f)]
  /\ put' = [w \in Putters |-> IdlePut]
  /\ get' = [r \in Getters |-> IdleGet]
  /\ handed' = NoFile
  /\ owned' = [k \in Keys |-> IF kv'[k] = Absent THEN {} ELSE Named(NameOf(kv'[k].file))]
  /\ rebound' = {} /\ skipped' = {}
  /\ sent' = [k \in Keys |-> safe'[k].text]
  /\ mixed' = [k \in Keys |-> safe'[k].mixed]
  /\ CacheRestart

(* The process is killed: by SIGTERM, by the system, or by a fault.        *)
Kill ==
  /\ UNCHANGED <<dump, safe>>
  /\ Load

(* Mutant of Drained: the requests are not waited for.                     *)
Interrupted == phase = "serve"

(* srv.Shutdown: no request is left inside the store.                      *)
Drained ==
  /\ phase = "serve"
  /\ Exclusive
  /\ \A w \in Putters : put[w].at = "idle"
  /\ \A g \in Listers : lister[g].at = "idle"

(* Dump: the file is opened and truncated.  (If that fails, the process    *)
(* ends as if killed.)                                                     *)
Truncate ==
  /\ Drained
  /\ phase' = "dump"
  /\ dump' = NoDump
  /\ safe' = NothingSafe
  /\ UNCHANGED vars

(* Dump: MarshalJSON and the write; the process ends and is started again. *)
(* A write that fails leaves what a kill leaves, and so does a string that *)
(* cannot be read.                                                         *)
WriteDump ==
  /\ phase = "dump"
  /\ dump' = kv
  /\ safe' = [k \in Keys |-> [text |-> sent[k], mixed |-> mixed[k]]]
  /\ Load

Serve ==
  /\ phase = "serve"
  /\ Next
  /\ UNCHANGED <<phase, dump, safe>>

ServerNext == Serve \/ Truncate \/ WriteDump \/ Kill

ServerSpec == ServerInit /\ [][ServerNext]_serverVars

-----------------------------------------------------------------------------
ServerTypeOK ==
  /\ TypeOK
  /\ phase \in {"serve", "dump"}
  /\ dump \in [Keys -> MemTiddlers \cup {Absent}] \cup {NoDump}
  /\ safe \in [Keys -> [text : Texts \cup {Absent}, mixed : BOOLEAN]]

=============================================================================
