------------------------------- MODULE Tiddlers -------------------------------
(***************************************************************************)
(* What a stored tiddler is, for the abstract store and both               *)
(* implementations (store/store.go; the putExist functions).               *)
(***************************************************************************)
EXTENDS Naturals

CONSTANTS
  Keys,        \* tiddler titles
  Files,       \* names of uploaded attachments
  Texts,       \* tiddler texts
  EmptyText,   \* the empty string
  Skinny,      \* "_is_skinny": the client did not send a text
  NoFile,      \* no attachment: the empty string
  Absent       \* no tiddler under this title

(* The metadata and the hash are determined by the arguments of the Put    *)
(* and the revision it got, so the revision stands for both.               *)
Tiddler == [rev : Nat, text : Texts, file : Files \cup {NoFile}]

ASSUME TiddlersAssumption ==
  /\ EmptyText \in Texts
  /\ Skinny \notin Texts
  /\ NoFile \notin Files
  /\ Absent \notin Tiddler

FileOf(td) == IF td = Absent THEN NoFile ELSE td.file

(* Mutant of Updated: the text of a skinny tiddler is not kept.            *)
UpdatedForgetsText(td, text, file) ==
  [rev |-> IF td = Absent THEN 1 ELSE td.rev + 1, text |-> text, file |-> file]

(* Mutant of Updated: the revision of a tiddler stays.                     *)
UpdatedInPlace(td, text, file) ==
  [rev |-> IF td = Absent THEN 1 ELSE td.rev,
   text |-> IF text = Skinny THEN EmptyText ELSE text, file |-> file]

(* The tiddler a Put leaves: the next revision, the old text if skinny and *)
(* the file it names.                                                      *)
Updated(td, text, file) ==
  [rev  |-> IF td = Absent THEN 1 ELSE td.rev + 1,
   text |-> IF text # Skinny THEN text
            ELSE IF td = Absent THEN EmptyText ELSE td.text,
   file |-> file]

(* What list(true) writes for each tiddler.                                *)
Listing(d) ==
  [k \in Keys |-> IF d[k] = Absent THEN Absent
                                   ELSE [rev |-> d[k].rev, text |-> d[k].text]]

Listings == [Keys -> [rev : Nat, text : Texts] \cup {Absent}]

=============================================================================
