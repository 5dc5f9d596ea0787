---------------------------- MODULE MCRunEvents -----------------------------
(* Model-checking instance of RunEvents: identities are interchangeable.   *)
EXTENDS RunEvents, TLC

Symmetry == Permutations(Emitters) \union Permutations(Clients)
=============================================================================
