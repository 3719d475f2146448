---------------------------- MODULE FamilyLedger ----------------------------
(***************************************************************************)
(* What a family's ledger shows of the loan book: the loans among its      *)
(* members that are still owed, and what each member has lent and borrowed *)
(* in all (FamilyService._build_member_positions).  The ledger keeps no    *)
(* state; it is computed from the loan and repayment rows of LoanBook for  *)
(* whoever belongs to the family when it is asked for.                     *)
(***************************************************************************)
EXTENDS LoanBook, Functions

CONSTANT Principal      \* per loan: its principal amount

ASSUME PrincipalAssumption == Principal \in [Loans -> Nat \ {0}]
-----------------------------------------------------------------------------
\* Faulty: a loan is dropped from the ledger when it closes.
CountedOpen(l) == Exists(loans[l]) /\ loans[l].status = "active"

\* The loans the ledger counts: neither undecided nor turned down.
Counted(l) ==
    Exists(loans[l]) /\ loans[l].status \notin Pending \cup {"rejected", "cancelled"}

\* What has been paid on l, over all its repayments.
PaidOn(l) == SumFunction([r \in RepaymentsOf(l) |-> repayments[r].amount_paid])

\* What the ledger takes l to owe: repayments may add up to more than the principal.
Outstanding(l) ==
    LET remaining == Principal[l] - PaidOn(l)
    IN  IF Counted(l) /\ remaining > 0 THEN remaining ELSE 0

\* The loans the ledger of a family with these members goes through; the ones
\* with nothing outstanding make no entry and add nothing.
LoansAmong(members) ==
    {l \in Loans : Counted(l) /\ {loans[l].borrower, loans[l].lender} \subseteq members}

\* What is owed on some loans together.
Owed(ls) == SumFunction([l \in ls |-> Outstanding(l)])

TotalLent(members, u) == Owed({l \in LoansAmong(members) : loans[l].lender = u})

TotalBorrowed(members, u) == Owed({l \in LoansAmong(members) : loans[l].borrower = u})

NetPosition(members, u) == TotalLent(members, u) - TotalBorrowed(members, u)
-----------------------------------------------------------------------------
\* How the debt of l may move in a step that changes it.  It begins when an
\* undecided request is accepted - or when its installments are paid in full,
\* which closes it although nobody accepted it - and from then on only payments
\* on an active loan lower it, by no more than was paid.  A closed loan keeps
\* what its installments did not cover.
DebtMoves(l) ==
    IF Counted(l)
    THEN /\ loans[l].status = "active"
         /\ Outstanding(l)' < Outstanding(l)
         /\ Outstanding(l) - Outstanding(l)' <= PaidOn(l)' - PaidOn(l)
    ELSE Exists(loans[l]) /\ loans[l].status \in Pending

\* The part of u's net position that a change of l's debt by d accounts for.
Share(l, u, d) ==
    IF u = loans[l].lender THEN d ELSE IF u = loans[l].borrower THEN -d ELSE 0

\* Debts do not grow, revive or vanish under the ledger: a debt moves only as an
\* acceptance, a payment or a settlement moves it, one debt at a time, and in
\* every family its two parties belong to, the net positions move with it.
PositionsFollowPayments ==
    [][\A l \in Loans : Outstanding(l)' # Outstanding(l) =>
          /\ DebtMoves(l)
          /\ \A members \in SUBSET Users :
                {loans[l].lender, loans[l].borrower} \subseteq members =>
                    \A u \in members :
                        NetPosition(members, u)' - NetPosition(members, u)
                            = Share(l, u, Outstanding(l)' - Outstanding(l))]_<<loans, repayments>>
=============================================================================
