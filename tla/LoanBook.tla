------------------------------ MODULE LoanBook ------------------------------
(***************************************************************************)
(* The loan book: the user, loan and repayment rows and the audit trail    *)
(* that the loan and repayment services keep in the database.  Each action *)
(* is the committed effect of one service call; a call that is refused, or *)
(* that finds its work already done, changes no row and is a stuttering    *)
(* step.  How concurrent calls get this effect with row locks is the       *)
(* subject of LoanTransactions; the idempotency cache, the broker and      *)
(* rollbacks are the subject of LoanRequests.                              *)
(***************************************************************************)
EXTENDS AuditTrail

CONSTANTS
    Users,          \* mobile numbers people register with or are invited by
    Loans,          \* primary keys of the loan table
    Repayments,     \* primary keys of the repayment table
    Installments,   \* installment numbers
    Amounts,        \* amounts of money, in the smallest unit of the currency
    LastDay         \* bound on the calendar

ASSUME AmountsAssumption == Amounts \subseteq Nat \ {0}
ASSUME LastDayAssumption == LastDay \in Nat

VARIABLES
    users,          \* per user: "absent", "invited" (inactive row) or "active"
    loans,          \* per loan: its row, or NoRow
    repayments,     \* per repayment: its row, or NoRow
    loanTrail,      \* per loan: the audit events of its status, oldest first
    repaymentTrail, \* per repayment: the audit events of its status
    today           \* timezone.localdate()

vars == <<users, loans, repayments, loanTrail, repaymentTrail, today>>
-----------------------------------------------------------------------------
UserStates == {"absent", "invited", "active"}

LoanStatus ==
    {"pending_invite", "pending_review", "active", "rejected", "cancelled", "closed"}

RepaymentStatus == {"scheduled", "partial", "paid", "overdue"}

Pending == {"pending_invite", "pending_review"}

\* The statuses no service call leaves.
Finished == {"cancelled", "rejected", "closed"}

Days == 0 .. LastDay

NoRow == [status |-> "none"]

LoanRows == [status : LoanStatus, borrower : Users, lender : Users]

RepaymentRows ==
    [status : RepaymentStatus, loan : Loans, installment : Installments,
     due_date : Days, amount_due : Amounts, amount_paid : Nat]

Exists(row) == row.status # "none"

\* The repayment rows of loan l (the related manager loan.repayments).
RepaymentsOf(l) == {r \in Repayments : Exists(repayments[r]) /\ repayments[r].loan = l}

LoanChanges == [from : LoanStatus \cup {"none"}, to : LoanStatus]
RepaymentChanges == [from : RepaymentStatus \cup {"none"}, to : RepaymentStatus]

\* Faulty: every change is recorded as if it were the first decision.
MoveLoanForgetful(l, s) ==
    /\ loans' = [loans EXCEPT ![l].status = s]
    /\ loanTrail' = [loanTrail EXCEPT ![l] = Append(@, Change("pending_review", s))]

\* Loan l moves to status s, and the move is audited (_record_status_change).
MoveLoan(l, s) ==
    /\ loans' = [loans EXCEPT ![l].status = s]
    /\ loanTrail' = [loanTrail EXCEPT ![l] = Append(@, Change(loans[l].status, s))]
-----------------------------------------------------------------------------
Init ==
    /\ users = [u \in Users |-> "absent"]
    /\ loans = [l \in Loans |-> NoRow]
    /\ repayments = [r \in Repayments |-> NoRow]
    /\ loanTrail = [l \in Loans |-> <<>>]
    /\ repaymentTrail = [r \in Repayments |-> <<>>]
    /\ today = 0

\* register_user creates the row of u, or activates the inactive row an
\* invitation left.  Loans that wait for u keep their status.
RegisterUser(u) ==
    /\ users[u] # "active"
    /\ users' = [users EXCEPT ![u] = "active"]
    /\ UNCHANGED <<loans, repayments, loanTrail, repaymentTrail, today>>

\* create_loan by an active lender.  A borrower unknown to the platform gets an
\* inactive row; the status of the request says which kind of borrower it met.
CreateLoan(l, lender, borrower) ==
    LET status == IF users[borrower] = "active" THEN "pending_review" ELSE "pending_invite"
    IN  /\ ~Exists(loans[l])
        /\ users[lender] = "active"
        /\ lender # borrower
        /\ users' = [users EXCEPT ![borrower] = IF @ = "absent" THEN "invited" ELSE @]
        /\ loans' = [loans EXCEPT ![l] = [status |-> status, borrower |-> borrower, lender |-> lender]]
        /\ loanTrail' = [loanTrail EXCEPT ![l] = Append(@, Change("none", status))]
        /\ UNCHANGED <<repayments, repaymentTrail, today>>

\* Faulty: whoever was invited may answer.
BorrowerCallsUnregistered(l) == Exists(loans[l])

\* The borrower of l calls, and an authenticated caller is active.
BorrowerCalls(l) == Exists(loans[l]) /\ users[loans[l].borrower] = "active"

AcceptLoan(l) ==
    /\ BorrowerCalls(l)
    /\ loans[l].status \in Pending
    /\ MoveLoan(l, "active")
    /\ UNCHANGED <<users, repayments, repaymentTrail, today>>

RejectLoan(l) ==
    /\ BorrowerCalls(l)
    /\ loans[l].status \in Pending
    /\ MoveLoan(l, "rejected")
    /\ UNCHANGED <<users, repayments, repaymentTrail, today>>

\* Faulty: only an accepted loan is protected.
CancellableUnlessActive(l) == loans[l].status \notin {"active", "cancelled"}

\* What cancel_loan asks of the row.
Cancellable(l) == loans[l].status \in {"pending_review"}

CancelLoan(l) ==
    /\ Exists(loans[l])
    /\ Cancellable(l)
    /\ MoveLoan(l, "cancelled")
    /\ UNCHANGED <<users, repayments, repaymentTrail, today>>

\* No row has this installment of the loan.
InstallmentFree(l, installment) ==
    \A q \in RepaymentsOf(l) : repayments[q].installment # installment

\* create_repayment.  A row that has the installment already is returned, or the
\* call refused; either way nothing changes.
CreateRepayment(r, l, installment, due_date, amount_due) ==
    /\ Exists(loans[l])
    /\ loans[l].status \notin Finished
    /\ InstallmentFree(l, installment)
    /\ ~Exists(repayments[r])
    /\ repayments' = [repayments EXCEPT ![r] =
           [status |-> "scheduled", loan |-> l, installment |-> installment,
            due_date |-> due_date, amount_due |-> amount_due, amount_paid |-> 0]]
    /\ repaymentTrail' =
           [repaymentTrail EXCEPT ![r] = Append(@, Change("none", "scheduled"))]
    /\ UNCHANGED <<users, loans, loanTrail, today>>

\* Faulty: a repayment paid in full takes the status of a settled loan.
PaidRowClosed(r, amount) ==
    LET paid == repayments[r].amount_paid + amount
    IN  [repayments[r] EXCEPT
            !.amount_paid = paid,
            !.status = IF paid = repayments[r].amount_due THEN "closed" ELSE "partial"]

\* The row of r once amount has been paid on it.
PaidRow(r, amount) ==
    LET paid == repayments[r].amount_paid + amount
    IN  [repayments[r] EXCEPT
            !.amount_paid = paid,
            !.status = IF paid = repayments[r].amount_due THEN "paid" ELSE "partial"]

\* Faulty: the remaining amount is not looked at.
PayableUnbounded(r, amount) ==
    /\ Exists(repayments[r])
    /\ loans[repayments[r].loan].status \notin {"cancelled", "rejected"}
    /\ repayments[r].status # "paid"

\* What apply_payment asks before it writes.
Payable(r, amount) ==
    /\ Exists(repayments[r])
    /\ loans[repayments[r].loan].status \notin {"cancelled", "rejected"}
    /\ repayments[r].status # "paid"
    /\ amount <= repayments[r].amount_due - repayments[r].amount_paid

\* Faulty: the other installments are not looked at.
SettlesAlone(r, amount) == PaidRow(r, amount).status = "paid"

\* Paying amount on r leaves no repayment of its loan unpaid.
Settles(r, amount) ==
    /\ PaidRow(r, amount).status = "paid"
    /\ \A q \in RepaymentsOf(repayments[r].loan) \ {r} : repayments[q].status = "paid"

\* apply_payment, with _auto_settle_loan_if_fully_paid as its last step.
ApplyPayment(r, amount) ==
    LET l == repayments[r].loan
        new == PaidRow(r, amount)
    IN  /\ Payable(r, amount)
        /\ repayments' = [repayments EXCEPT ![r] = new]
        /\ repaymentTrail' = [repaymentTrail EXCEPT ![r] =
               IF repayments[r].status # new.status
               THEN Append(@, Change(repayments[r].status, new.status))
               ELSE @]
        /\ IF Settles(r, amount) /\ loans[l].status # "closed"
           THEN MoveLoan(l, "closed")
           ELSE UNCHANGED <<loans, loanTrail>>
        /\ UNCHANGED <<users, today>>

\* Faulty: a repayment is overdue a day late.
NewlyOverdueLate ==
    {r \in Repayments :
        /\ Exists(repayments[r])
        /\ repayments[r].due_date + 1 < today
        /\ repayments[r].status = "scheduled"
        /\ loans[repayments[r].loan].status \notin Finished}

\* The rows send_overdue_reminders marks.
NewlyOverdue ==
    {r \in Repayments :
        /\ Exists(repayments[r])
        /\ repayments[r].due_date < today
        /\ repayments[r].status = "scheduled"
        /\ repayments[r].amount_paid = 0
        /\ loans[repayments[r].loan].status \notin Finished}

\* send_overdue_reminders: one transaction over the overdue rows its query found.
\* Rows added after the query began wait for the next day's run.
MarkOverdue(rows) ==
    /\ rows # {}
    /\ rows \subseteq NewlyOverdue
    /\ repayments' = [r \in Repayments |->
           IF r \in rows THEN [repayments[r] EXCEPT !.status = "overdue"]
                         ELSE repayments[r]]
    /\ repaymentTrail' = [r \in Repayments |->
           IF r \in rows
           THEN Append(repaymentTrail[r], Change("scheduled", "overdue"))
           ELSE repaymentTrail[r]]
    /\ UNCHANGED <<users, loans, loanTrail, today>>

\* Midnight.
NextDay ==
    /\ today < LastDay
    /\ today' = today + 1
    /\ UNCHANGED <<users, loans, repayments, loanTrail, repaymentTrail>>

Next ==
    \/ \E u \in Users : RegisterUser(u)
    \/ \E l \in Loans, lender, borrower \in Users : CreateLoan(l, lender, borrower)
    \/ \E l \in Loans : AcceptLoan(l) \/ RejectLoan(l) \/ CancelLoan(l)
    \/ \E r \in Repayments, l \in Loans, i \in Installments, d \in Days, a \in Amounts :
          CreateRepayment(r, l, i, d, a)
    \/ \E r \in Repayments, a \in Amounts : ApplyPayment(r, a)
    \/ \E rows \in SUBSET Repayments : MarkOverdue(rows)
    \/ NextDay

Spec == Init /\ [][Next]_vars

\* A run of the nightly job that finds r.
FindOverdue(r) == \E rows \in SUBSET Repayments : r \in rows /\ MarkOverdue(rows)

\* The calendar and the nightly job do not stop (CELERY_BEAT_SCHEDULE), and a run
\* of the job finds every row committed before it.  Nobody has to call an API,
\* so the other actions get no fairness.
FairSpec ==
    /\ Spec
    /\ WF_vars(NextDay)
    /\ \A r \in Repayments : WF_vars(FindOverdue(r))
-----------------------------------------------------------------------------
TypeOK ==
    /\ users \in [Users -> UserStates]
    /\ loans \in [Loans -> LoanRows \cup {NoRow}]
    /\ repayments \in [Repayments -> RepaymentRows \cup {NoRow}]
    /\ loanTrail \in [Loans -> Seq(LoanChanges)]
    /\ repaymentTrail \in [Repayments -> Seq(RepaymentChanges)]
    /\ today \in Days

\* Whatever was paid, in however many parts, a repayment never takes more than
\* its amount due, and its status tells how much was paid: exactly the paid ones
\* are paid in full, and an overdue one is unpaid and past its date.
StatusTellsPayment ==
    \A r \in Repayments : Exists(repayments[r]) =>
        LET row == repayments[r]
        IN  /\ row.amount_paid <= row.amount_due
            /\ (row.status = "paid") <=> (row.amount_paid = row.amount_due)
            /\ (row.status = "partial") <=> (row.amount_paid \in 1 .. (row.amount_due - 1))
            /\ row.status = "overdue" => row.due_date < today

\* A loan is closed exactly when it has repayments and all of them are paid:
\* adding an installment, paying and closing cannot get out of step.
ClosedIffSettled ==
    \A l \in Loans : Exists(loans[l]) =>
        (loans[l].status = "closed" <=>
            /\ RepaymentsOf(l) # {}
            /\ \A r \in RepaymentsOf(l) : repayments[r].status = "paid")

\* No loan has two repayment rows for one installment, although the service
\* looks the installment up before it inserts the row.
OneRowPerInstallment ==
    \A p, q \in Repayments :
        /\ Exists(repayments[p])
        /\ Exists(repayments[q])
        /\ repayments[p].loan = repayments[q].loan
        /\ repayments[p].installment = repayments[q].installment
        => p = q

\* A repayment belongs to a loan, and a loan that was answered by its borrower,
\* or that anybody granted, is between registered people.
RowsReferToRows ==
    /\ \A r \in Repayments : Exists(repayments[r]) => Exists(loans[repayments[r].loan])
    /\ \A l \in Loans : Exists(loans[l]) =>
        /\ loans[l].lender # loans[l].borrower
        /\ users[loans[l].lender] = "active"
        /\ users[loans[l].borrower] # "absent"
        /\ loans[l].status \in {"active", "rejected"} => users[loans[l].borrower] = "active"

\* The audit trail alone reconstructs the history of every loan and repayment.
TrailsAccountForStatus ==
    /\ \A l \in Loans : Accounts(loanTrail[l], loans[l].status)
    /\ \A r \in Repayments : Accounts(repaymentTrail[r], repayments[r].status)

\* What a finished loan was, it stays: no call revives it, adds an installment
\* to it, or changes a repayment of it.
FinishedLoanIsFrozen(l) ==
    loans[l].status \in Finished =>
        /\ loans'[l] = loans[l]
        /\ RepaymentsOf(l)' = RepaymentsOf(l)
        /\ \A r \in RepaymentsOf(l) : repayments'[r] = repayments[r]

FinishedLoansAreFrozen == [][\A l \in Loans : FinishedLoanIsFrozen(l)]_vars

\* Money paid is never lost, and the terms of an installment never change.
PaymentsAreKept ==
    [][\A r \in Repayments : Exists(repayments[r]) =>
          /\ repayments'[r].amount_paid >= repayments[r].amount_paid
          /\ \A f \in {"loan", "installment", "due_date", "amount_due"} :
                repayments'[r][f] = repayments[r][f]]_vars

\* A scheduled repayment whose date passes is sooner or later paid into, marked
\* overdue, or its loan is finished.
OverdueIsNoticed ==
    \A r \in Repayments :
        (repayments[r].status = "scheduled" /\ repayments[r].due_date < LastDay)
            ~> (\/ repayments[r].status # "scheduled"
                \/ loans[repayments[r].loan].status \in Finished)
=============================================================================
