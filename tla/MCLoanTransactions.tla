------------------------- MODULE MCLoanTransactions -------------------------
(***************************************************************************)
(* LoanTransactions on small instances.                                    *)
(***************************************************************************)
EXTENDS LoanTransactions, TLC

CONSTANTS u1, u2, l1, r1, r2, w1, w2, w3

MCUsers == {u1, u2}
MCRepayments == {r1, r2}
TwoWorkers == {w1, w2}
ThreeWorkers == {w1, w2, w3}

Decide(op) == [op |-> op, loan |-> l1]
Add(i, d, a) == [op |-> "add", loan |-> l1, installment |-> i, due_date |-> d, amount_due |-> a]
Pay(r, a) == [op |-> "pay", repayment |-> r, amount |-> a]
Sweep == [op |-> "sweep"]

\* Installment 1 falls overdue on day 1 and takes one payment, installment 2 is
\* never overdue and takes two.
AllCalls ==
    {Decide("accept"), Decide("reject"), Decide("cancel"), Add(1, 0, 1), Add(2, 1, 2), Sweep}
        \cup {Pay(r, 1) : r \in MCRepayments}

\* Payments that are made in full or refused, among the other calls that meet on
\* the rows of one loan.
FullPayments ==
    {Decide("reject"), Add(1, 0, 1), Add(2, 0, 2), Sweep} \cup {Pay(r, 2) : r \in MCRepayments}

\* Users, repayments and workers are only compared for equality.
MCSymmetry3 ==
    Permutations(MCUsers) \cup Permutations(MCRepayments) \cup Permutations(ThreeWorkers)
=============================================================================
