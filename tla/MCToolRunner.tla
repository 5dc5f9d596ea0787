---------------------------- MODULE MCToolRunner ----------------------------
(* ToolRunner on a small instance. *)
EXTENDS ToolRunner

(* Requests are alike, and so are the processes named after them. *)
Symmetry == Permutations(Requests)
=============================================================================
