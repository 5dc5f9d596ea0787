--------------------------- MODULE MCRunLifecycle ---------------------------
(* RunLifecycle on a small instance. *)
EXTENDS RunLifecycle, TLC

(* The messages differ in name only. *)
Symmetry == Permutations(Messages)
=============================================================================
