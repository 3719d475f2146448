------------------------------ MODULE MCFamily ------------------------------
(***************************************************************************)
(* Family on a small instance.                                             *)
(***************************************************************************)
EXTENDS Family, TLC

CONSTANTS u1, u2, w1, w2

MCUsers == {u1, u2}
MCWorkers == {w1, w2}

\* No user and no worker is special.
Symmetry == Permutations(MCUsers) \cup Permutations(MCWorkers)
=============================================================================
