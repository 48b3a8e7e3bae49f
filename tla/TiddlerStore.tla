----------------------------- MODULE TiddlerStore -----------------------------
(***************************************************************************)
(* What the interface Store promises to the HTTP handlers                  *)
(* (store/store.go, type Store): a map from titles to tiddlers that        *)
(* changes atomically, numbers the revisions of a title one by one, keeps  *)
(* the old text for a tiddler sent without one, survives a restart, and    *)
(* hands the attachment of a deleted tiddler back for removal only when no *)
(* stored tiddler is bound to it.                                          *)
(***************************************************************************)
EXTENDS Tiddlers

VARIABLES
  tiddlers,    \* title -> tiddler or Absent
  unbound,     \* attachment of the tiddler deleted last, if still undecided
  handed       \* attachment the last Del handed back for removal, or NoFile

vars == <<tiddlers, unbound, handed>>

Init ==
  /\ tiddlers = [k \in Keys |-> Absent]
  /\ unbound = NoFile
  /\ handed = NoFile

Put(k, text, file) ==
  /\ tiddlers' = [tiddlers EXCEPT ![k] = Updated(@, text, file)]
  /\ unbound' = NoFile
  /\ handed' = NoFile

Attach(k, file) ==
  /\ tiddlers[k] # Absent
  /\ tiddlers' = [tiddlers EXCEPT ![k].file = file]
  /\ unbound' = NoFile
  /\ handed' = NoFile

(* The attachment is still undecided, or is not going to be handed back.   *)
Del(k) ==
  /\ tiddlers[k] # Absent
  /\ tiddlers' = [tiddlers EXCEPT ![k] = Absent]
  /\ unbound' \in {FileOf(tiddlers[k]), NoFile}
  /\ handed' = NoFile

(* Del answers with the attachment of the deleted tiddler ...              *)
HandBack ==
  /\ unbound # NoFile
  /\ \A k \in Keys : FileOf(tiddlers[k]) # unbound
  /\ handed' = unbound
  /\ unbound' = NoFile
  /\ UNCHANGED tiddlers

(* ... or without it; the same when the process stops and starts again,    *)
(* or a call is made that changes nothing.                                 *)
Withhold ==
  /\ unbound' = NoFile
  /\ handed' = NoFile
  /\ UNCHANGED tiddlers

Next ==
  \/ \E k \in Keys, text \in Texts \cup {Skinny}, file \in Files \cup {NoFile} :
       Put(k, text, file)
  \/ \E k \in Keys, file \in Files : Attach(k, file)
  \/ \E k \in Keys : Del(k)
  \/ HandBack
  \/ Withhold

Spec == Init /\ [][Next]_vars

=============================================================================
