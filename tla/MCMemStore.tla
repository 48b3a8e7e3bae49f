------------------------------ MODULE MCMemStore ------------------------------
(* MemStore for TLC: titles, files and goroutines are interchangeable.     *)
EXTENDS MemStore, TLC

Symmetry ==
  UNION {Permutations(S) : S \in {Keys, Files, Putters, Getters, Listers}}

(* Getters and listers only read, and share nothing: none of them meet.    *)
ReadersApart ==
  \/ \A r \in Getters : get[r] = IdleGet
  \/ cached = NoListing /\ \A g \in Listers : lister[g].at = "idle"

=============================================================================
