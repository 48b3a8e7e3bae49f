------------------------------ MODULE MCWikiFiles ------------------------------
(* WikiFiles for TLC: titles, files and handlers are interchangeable.      *)
EXTENDS WikiFiles, TLC

Symmetry == UNION {Permutations(S) : S \in {Keys, Files, Jobs}}

(* At most one file meets each kind of mishap, so that the states are few. *)
FewMishaps ==
  /\ Cardinality(invented \cup uncounted) <= 1
  /\ Cardinality(leaked \cup abandoned) <= 1

=============================================================================
