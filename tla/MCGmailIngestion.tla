-------------------------- MODULE MCGmailIngestion --------------------------
(***************************************************************************)
(* GmailIngestion on a small instance: two payments of one bank account,   *)
(* a message that is no payment and one whose amount cannot be read.       *)
(***************************************************************************)
EXTENDS GmailIngestion, TLC

CONSTANTS a1, w1, w2

MCEmails == 1 .. 4
MCKind == <<"payment", "noise", "payment", "poison">>
MCAccounts == {a1}
MCAccount == <<a1, None, a1, None>>

\* Everything, what a query finds, and the newest two.
MCListings == {{1, 2, 3}, {3, 4}, {1, 2}}
MCWorkers == {w1, w2}
WorkerSymmetry == Permutations(MCWorkers)
=============================================================================
