-------------------------- MODULE MCNotifications --------------------------
(***************************************************************************)
(* Notifications on a small instance: one notification with a key that is  *)
(* due at once, as the services ask for, and one without a key that is     *)
(* scheduled, as the API allows.                                           *)
(***************************************************************************)
EXTENDS Notifications

CONSTANTS k1, w1, w2

MCKeys == {k1}
MCWorkers == {w1, w2}
MCAsked == {[key |-> k1, due |-> 0], [key |-> NoKey, due |-> 1]}
=============================================================================
