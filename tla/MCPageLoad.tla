----------------------------- MODULE MCPageLoad --------------------------------
(* PageLoad for TLC: two contents of the file.  One lets everybody read,   *)
(* the other lets only accounts do so and has no section for editing.      *)
EXTENDS PageLoad

Allowed == [allow |-> {{Address}}, block |-> {}, def |-> FALSE]
Blocked == [allow |-> {{Address}}, block |-> {{Address}}, def |-> TRUE]

MCConfigs ==
  {[anonymous |-> Allowed, edit |-> Blocked, users |-> {Account}],
   [anonymous |-> Blocked, edit |-> NoSection, users |-> {Account}]}

=============================================================================
