-------------------------- MODULE MCGmailAccounts ---------------------------
(***************************************************************************)
(* GmailAccounts with two workers on three addresses of two users.         *)
(***************************************************************************)
EXTENDS GmailAccounts, TLC

CONSTANTS u1, u2, a1, a2, a3, w1, w2

MCUsers == {u1, u2}
MCAddresses == {a1, a2, a3}
MCWorkers == {w1, w2}

\* Users, addresses and workers are each alike.
Symmetry == Permutations(MCUsers) \cup Permutations(MCAddresses) \cup Permutations(MCWorkers)
=============================================================================
