------------------------- MODULE MCReconciliation ---------------------------
(***************************************************************************)
(* Reconciliation with two bank accounts and one repayment.  Of the        *)
(* transactions two are of the same day, one with the reference; one is    *)
(* close to them on the other account, and of the day of some payments,    *)
(* which it then competes for with the reference; one is a credit.         *)
(***************************************************************************)
EXTENDS Reconciliation, TLC

CONSTANTS savings, current, w1, w2, r1, ref

MCBankAccounts == {savings, current}
MCTransactions == 1 .. 4
MCAmount == <<1, 1, 1, 1>>
MCDate == <<2, 2, 4, 4>>
MCAccount == <<savings, savings, current, savings>>
MCMentions == <<{}, {ref}, {}, {ref}>>
MCEligible == {1, 2, 3}
MCRepayments == {r1}
MCReferences == {ref}
MCMaxEvents == [a \in MCBankAccounts |-> IF a = savings THEN 3 ELSE 2]
MCWorkers == {w1, w2}
Symmetry == Permutations(MCWorkers)
=============================================================================
