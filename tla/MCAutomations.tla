--------------------------- MODULE MCAutomations ---------------------------
(* Automations on a small instance. *)
EXTENDS Automations
=============================================================================
