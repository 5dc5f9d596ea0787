------------------------------ MODULE EventLog ------------------------------
(***************************************************************************)
(* What the event store of one run promises, whoever writes to it.  A      *)
(* per-run counter hands each number out once.  A number that was handed   *)
(* out is held by one writer, which stores one event under it or gives it  *)
(* up; a number that is not held any more never comes back.  Number 0 is   *)
(* the number an event carries when the counter could not be read: nobody  *)
(* holds it, and the table takes it once.                                  *)
(*                                                                         *)
(* This is the abstract specification; RunEvents implements it with the    *)
(* handlers of the control plane (see ImplementsEventLog there).           *)
(***************************************************************************)
EXTENDS Naturals

VARIABLES issued,   \* the last number the counter returned
          held,     \* numbers handed out, not stored and not given up
          numbers   \* the numbers of the stored events

Init == issued = 0 /\ held = {} /\ numbers = {}

(* The counter hands out the next number, to be stored or for an event     *)
(* that is not.                                                            *)
Issue == /\ issued' = issued + 1
         /\ held' \in {held, held \union {issued'}}
         /\ UNCHANGED numbers

(* An event is stored under a held number that is not in the table yet. *)
Store == \E n \in (held \union {0}) \ numbers :
           /\ numbers' = numbers \union {n}
           /\ held' = held \ {n}
           /\ UNCHANGED issued

(* The insert failed: the number is lost. *)
GiveUp == \E n \in held : held' = held \ {n} /\ UNCHANGED <<issued, numbers>>

Next == Issue \/ Store \/ GiveUp

Spec == Init /\ [][Next]_<<issued, held, numbers>>
=============================================================================
