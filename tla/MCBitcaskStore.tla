---------------------------- MODULE MCBitcaskStore ----------------------------
(* BitcaskStore for TLC: titles, files and listers are interchangeable.    *)
EXTENDS BitcaskStore, TLC

Symmetry == Permutations(Keys) \cup Permutations(Files) \cup Permutations(Listers)

=============================================================================
