---------------------------- MODULE MCWikiSession -----------------------------
(* WikiSession for TLC: tokens, browsers and requests are interchangeable. *)
EXTENDS WikiSession, TLC

Symmetry == UNION {Permutations(S) : S \in {Tokens, Clients, Requests}}

=============================================================================
