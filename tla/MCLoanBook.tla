----------------------------- MODULE MCLoanBook -----------------------------
(***************************************************************************)
(* LoanBook, with the family ledger over it, on a small instance.          *)
(***************************************************************************)
EXTENDS FamilyLedger

CONSTANTS u1, u2, l1, l2, r1, r2

MCUsers == {u1, u2}
MCLoans == {l1, l2}
MCRepayments == {r1, r2}

\* One loan that a single installment can repay, and one that takes two.
MCPrincipal == [l \in Loans |-> IF l = l1 THEN 2 ELSE 3]
=============================================================================
