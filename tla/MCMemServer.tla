------------------------------ MODULE MCMemServer -----------------------------
(* MemServer for TLC: titles, files and goroutines are interchangeable.    *)
EXTENDS MemServer, TLC

Symmetry ==
  UNION {Permutations(S) : S \in {Keys, Files, Putters, Listers}}

=============================================================================
