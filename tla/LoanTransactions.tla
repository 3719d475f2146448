-------------------------- MODULE LoanTransactions --------------------------
(***************************************************************************)
(* The loan book kept by concurrent database transactions.  Web and Celery *)
(* workers run service calls side by side; each call is one transaction    *)
(* (ATOMIC_REQUESTS, @transaction.atomic) that locks rows with             *)
(* select_for_update, reads them, decides, and writes when it commits.     *)
(* PostgreSQL runs at READ COMMITTED: a read returns what is committed     *)
(* when it is made, a row lock is held to the end of the transaction, and  *)
(* a transaction found in a circle of lock waits is rolled back.           *)
(*                                                                         *)
(* The variables of LoanBook are here the committed rows.                  *)
(***************************************************************************)
EXTENDS Integers, Sequences, FiniteSets

CONSTANTS
    Users, Loans, Repayments, Installments, Amounts, LastDay,
    Workers,    \* the processes that run service calls
    Requests,   \* the calls that are made
    None        \* nobody, nothing

VARIABLES
    users, loans, repayments, loanTrail, repaymentTrail, today,
    pc,             \* per worker: what it does next
    request,        \* per worker: the call it serves, or None
    target,         \* per worker: the repayment row it works on, or None
    todo,           \* per worker: the rows its overdue query still has to lock
    loanView,       \* per worker: the loan rows as it read them under lock
    repaymentView,  \* per worker: the repayment rows as it read them under lock
    settles,        \* per worker: it saw every other repayment of its loan paid
    loanLock,       \* per loan row: the worker that holds its lock, or None
    repaymentLock   \* per repayment row: likewise

\* The abstract specification; what a transaction has not committed, it does not see.
Book == INSTANCE LoanBook WITH
    users <- users, loans <- loans, repayments <- repayments,
    loanTrail <- loanTrail, repaymentTrail <- repaymentTrail, today <- today

book == <<users, loans, repayments, loanTrail, repaymentTrail, today>>
local == <<request, target, todo, loanView, repaymentView, settles>>
locks == <<loanLock, repaymentLock>>
vars == <<book, pc, local, locks>>
-----------------------------------------------------------------------------
\* Decisions on a loan request, and the calls on repayments.
DecisionRequests == [op : {"accept", "reject", "cancel"}, loan : Loans]
AddRequests == [op : {"add"}, loan : Loans, installment : Installments,
                due_date : Book!Days, amount_due : Amounts]
PayRequests == [op : {"pay"}, repayment : Repayments, amount : Amounts]
SweepRequests == [op : {"sweep"}]

AllRequests == DecisionRequests \cup AddRequests \cup PayRequests \cup SweepRequests

ASSUME AmountsAssumption == Amounts \subseteq Nat \ {0}
ASSUME LastDayAssumption == LastDay \in Nat
ASSUME RequestsAssumption == Requests \subseteq AllRequests
ASSUME NoneAssumption == None \notin Workers \cup Repayments \cup AllRequests

Steps == {"idle", "scan", "lockRepayment", "lockLoan", "lookup", "lockTaken",
          "check", "commit"}

NoLoans == [l \in Loans |-> Book!NoRow]
NoRepayments == [r \in Repayments |-> Book!NoRow]

\* The loan row the call of w is about.
LoanOf(w) ==
    IF request[w].op \in {"pay", "sweep"}
    THEN repaymentView[w][target[w]].loan
    ELSE request[w].loan

\* Faulty: rows are read without FOR UPDATE.
LoanUnguarded(w, l) == TRUE
RepaymentUnguarded(w, r) == TRUE

\* A row lock is free to w when nobody else holds it.
LoanFree(w, l) == loanLock[l] \in {None, w}
RepaymentFree(w, r) == repaymentLock[r] \in {None, w}

\* Faulty: a transaction is left open when its call ends.
StillHeld(lock, w) == lock

\* The row locks once those of w are released.
Released(lock, w) == [row \in DOMAIN lock |-> IF lock[row] = w THEN None ELSE lock[row]]

\* The overdue query of send_overdue_reminders on the committed rows.
OverdueRows ==
    {r \in Repayments :
        /\ Book!Exists(repayments[r])
        /\ repayments[r].due_date < today
        /\ repayments[r].status # "paid"}
-----------------------------------------------------------------------------
Init ==
    /\ Book!Init
    /\ pc = [w \in Workers |-> "idle"]
    /\ request = [w \in Workers |-> None]
    /\ target = [w \in Workers |-> None]
    /\ todo = [w \in Workers |-> {}]
    /\ loanView = [w \in Workers |-> NoLoans]
    /\ repaymentView = [w \in Workers |-> NoRepayments]
    /\ settles = [w \in Workers |-> FALSE]
    /\ loanLock = [l \in Loans |-> None]
    /\ repaymentLock = [r \in Repayments |-> None]

\* A call arrives at an idle worker.  A decision and a new installment begin
\* with the loan row, a payment with the repayment row, the reminder job with
\* its query.  The caller of accept and reject is the registered borrower; a row
\* that does not exist ends the call at once.
Start(w, req) ==
    /\ pc[w] = "idle"
    /\ request' = [request EXCEPT ![w] = req]
    /\ \/ /\ req.op \in {"accept", "reject"}
          /\ Book!BorrowerCalls(req.loan)
          /\ pc' = [pc EXCEPT ![w] = "lockLoan"]
          /\ UNCHANGED <<target, todo>>
       \/ /\ req.op \in {"cancel", "add"}
          /\ Book!Exists(loans[req.loan])
          /\ pc' = [pc EXCEPT ![w] = "lockLoan"]
          /\ UNCHANGED <<target, todo>>
       \/ /\ req.op = "pay"
          /\ Book!Exists(repayments[req.repayment])
          /\ pc' = [pc EXCEPT ![w] = "lockRepayment"]
          /\ target' = [target EXCEPT ![w] = req.repayment]
          /\ UNCHANGED todo
       \/ /\ req.op = "sweep"
          /\ pc' = [pc EXCEPT ![w] = "scan"]
          /\ todo' = [todo EXCEPT ![w] = OverdueRows]
          /\ UNCHANGED target
    /\ UNCHANGED <<book, loanView, repaymentView, settles, locks>>

\* The query of the job goes on to the next row it found.
NextRow(w) ==
    /\ pc[w] = "scan"
    /\ \E r \in todo[w] :
        /\ target' = [target EXCEPT ![w] = r]
        /\ todo' = [todo EXCEPT ![w] = @ \ {r}]
    /\ pc' = [pc EXCEPT ![w] = "lockRepayment"]
    /\ UNCHANGED <<book, request, loanView, repaymentView, settles, locks>>

\* ... and is complete once every row is locked.
ScanDone(w) ==
    /\ pc[w] = "scan"
    /\ todo[w] = {}
    /\ pc' = [pc EXCEPT ![w] = "commit"]
    /\ UNCHANGED <<book, local, locks>>

\* SELECT ... FOR UPDATE on the repayment joined with its loan: first the
\* repayment row is locked and read ...
LockRepayment(w) ==
    LET r == target[w]
    IN  /\ pc[w] = "lockRepayment"
        /\ RepaymentFree(w, r)
        /\ repaymentLock' = [repaymentLock EXCEPT ![r] = w]
        /\ repaymentView' = [repaymentView EXCEPT ![w][r] = repayments[r]]
        /\ pc' = [pc EXCEPT ![w] = "lockLoan"]
        /\ UNCHANGED <<book, request, target, todo, loanView, settles, loanLock>>

\* What a worker does once it has the loan row.
AfterLoanLock(w) ==
    CASE request[w].op = "add" -> "lookup"
      [] request[w].op = "pay" -> "check"
      [] request[w].op = "sweep" -> "scan"
      [] OTHER -> "commit"

\* ... then the loan row.  The other calls lock the loan row first of all.
LockLoan(w) ==
    LET l == LoanOf(w)
    IN  /\ pc[w] = "lockLoan"
        /\ LoanFree(w, l)
        /\ loanLock' = [loanLock EXCEPT ![l] = w]
        /\ loanView' = [loanView EXCEPT ![w][l] = loans[l]]
        /\ pc' = [pc EXCEPT ![w] = AfterLoanLock(w)]
        /\ UNCHANGED <<book, request, target, todo, repaymentView, settles, repaymentLock>>

\* The rows create_repayment finds for its installment.
Taken(w) ==
    {r \in Book!RepaymentsOf(request[w].loan) :
        repayments[r].installment = request[w].installment}

\* create_repayment looks its installment up, FOR UPDATE: a row that is there
\* has to be locked before it is returned or the call refused.
Lookup(w) ==
    /\ pc[w] = "lookup"
    /\ \/ /\ Taken(w) = {}
          /\ pc' = [pc EXCEPT ![w] = "commit"]
          /\ UNCHANGED target
       \/ /\ \E r \in Taken(w) : target' = [target EXCEPT ![w] = r]
          /\ pc' = [pc EXCEPT ![w] = "lockTaken"]
    /\ UNCHANGED <<book, request, todo, loanView, repaymentView, settles, locks>>

\* The end of a transaction: its locks are released and the worker is idle.
Finish(w) ==
    /\ pc' = [pc EXCEPT ![w] = "idle"]
    /\ request' = [request EXCEPT ![w] = None]
    /\ target' = [target EXCEPT ![w] = None]
    /\ todo' = [todo EXCEPT ![w] = {}]
    /\ loanView' = [loanView EXCEPT ![w] = NoLoans]
    /\ repaymentView' = [repaymentView EXCEPT ![w] = NoRepayments]
    /\ settles' = [settles EXCEPT ![w] = FALSE]
    /\ loanLock' = Released(loanLock, w)
    /\ repaymentLock' = Released(repaymentLock, w)

\* The installment exists; once its row is locked the call ends without a write.
LockTaken(w) ==
    /\ pc[w] = "lockTaken"
    /\ RepaymentFree(w, target[w])
    /\ Finish(w)
    /\ UNCHANGED book

\* apply_payment's guards, on the rows as the worker read them.
MayPay(w) ==
    LET row == repaymentView[w][target[w]]
    IN  /\ loanView[w][row.loan].status \notin {"cancelled", "rejected"}
        /\ row.status # "paid"
        /\ request[w].amount <= row.amount_due - row.amount_paid

\* The repayment row as apply_payment is about to write it.
PaidView(w) ==
    LET row == repaymentView[w][target[w]]
        paid == row.amount_paid + request[w].amount
    IN  [row EXCEPT !.amount_paid = paid,
                    !.status = IF paid = row.amount_due THEN "paid" ELSE "partial"]

\* apply_payment checks its guards, then asks whether the loan has a repayment
\* left that is not paid; that query locks nothing.
Check(w) ==
    /\ pc[w] = "check"
    /\ MayPay(w)
    /\ settles' = [settles EXCEPT ![w] =
           /\ PaidView(w).status = "paid"
           /\ \A r \in Book!RepaymentsOf(LoanOf(w)) \ {target[w]} :
                repayments[r].status = "paid"]
    /\ pc' = [pc EXCEPT ![w] = "commit"]
    /\ UNCHANGED <<book, request, target, todo, loanView, repaymentView, locks>>

\* What the guards of the other calls ask of the rows as the worker read them.
MayCommit(w) ==
    LET status == loanView[w][request[w].loan].status
    IN  CASE request[w].op \in {"accept", "reject"} -> status \in Book!Pending
          [] request[w].op = "cancel" -> status = "pending_review"
          [] request[w].op = "add" -> status \notin Book!Finished
          [] OTHER -> TRUE

\* A guard fails, or the work was done before: nothing is written.
Refuse(w) ==
    /\ \/ pc[w] = "check" /\ ~MayPay(w)
       \/ pc[w] = "commit" /\ ~MayCommit(w)
    /\ Finish(w)
    /\ UNCHANGED book

\* The write of status s to loan l and of its audit event.
WriteLoan(w, l, s) ==
    /\ loans' = [loans EXCEPT ![l].status = s]
    /\ loanTrail' =
           [loanTrail EXCEPT ![l] = Append(@, Book!Change(loanView[w][l].status, s))]

\* Faulty: an accepted loan takes the enumeration's "approved".
NewStatusApproved ==
    [accept |-> "approved", reject |-> "rejected", cancel |-> "cancelled"]

NewStatus == [accept |-> "active", reject |-> "rejected", cancel |-> "cancelled"]

CommitDecision(w) ==
    /\ pc[w] = "commit"
    /\ request[w].op \in {"accept", "reject", "cancel"}
    /\ MayCommit(w)
    /\ WriteLoan(w, request[w].loan, NewStatus[request[w].op])
    /\ Finish(w)
    /\ UNCHANGED <<users, repayments, repaymentTrail, today>>

CommitInstallment(w) ==
    /\ pc[w] = "commit"
    /\ request[w].op = "add"
    /\ MayCommit(w)
    /\ \E r \in Repayments :
        /\ ~Book!Exists(repayments[r])
        /\ repayments' = [repayments EXCEPT ![r] =
               [status |-> "scheduled", loan |-> request[w].loan,
                installment |-> request[w].installment, due_date |-> request[w].due_date,
                amount_due |-> request[w].amount_due, amount_paid |-> 0]]
        /\ repaymentTrail' = [repaymentTrail EXCEPT ![r] =
               Append(@, Book!Change("none", "scheduled"))]
    /\ Finish(w)
    /\ UNCHANGED <<users, loans, loanTrail, today>>

CommitPayment(w) ==
    LET r == target[w]
        old == repaymentView[w][r]
        new == PaidView(w)
    IN  /\ pc[w] = "commit"
        /\ request[w].op = "pay"
        /\ repayments' = [repayments EXCEPT ![r].amount_paid = new.amount_paid,
                                            ![r].status = new.status]
        /\ repaymentTrail' = [repaymentTrail EXCEPT ![r] =
               IF old.status # new.status
               THEN Append(@, Book!Change(old.status, new.status))
               ELSE @]
        /\ IF settles[w] /\ loanView[w][old.loan].status # "closed"
           THEN WriteLoan(w, old.loan, "closed")
           ELSE UNCHANGED <<loans, loanTrail>>
        /\ Finish(w)
        /\ UNCHANGED <<users, today>>

\* The rows the reminder job marks, judged by what it read.
Markable(w) ==
    {r \in Repayments :
        LET row == repaymentView[w][r]
        IN  /\ row.status = "scheduled"
            /\ row.amount_paid = 0
            /\ loanView[w][row.loan].status \notin Book!Finished}

CommitSweep(w) ==
    /\ pc[w] = "commit"
    /\ request[w].op = "sweep"
    /\ repayments' = [r \in Repayments |->
           IF r \in Markable(w) THEN [repayments[r] EXCEPT !.status = "overdue"]
                                ELSE repayments[r]]
    /\ repaymentTrail' = [r \in Repayments |->
           IF r \in Markable(w)
           THEN Append(repaymentTrail[r], Book!Change(repaymentView[w][r].status, "overdue"))
           ELSE repaymentTrail[r]]
    /\ Finish(w)
    /\ UNCHANGED <<users, loans, loanTrail, today>>

\* The worker w waits for a row lock, and the worker it waits for.
Blocker(w) ==
    CASE pc[w] \in {"lockRepayment", "lockTaken"} -> repaymentLock[target[w]]
      [] pc[w] = "lockLoan" -> loanLock[LoanOf(w)]
      [] OTHER -> None

Blocked(w) == Blocker(w) \notin {None, w}

\* The workers of S wait for each other in a circle.
Circle(S) == S # {} /\ (\A w \in S : Blocked(w)) /\ {Blocker(w) : w \in S} = S

\* Faulty: nobody looks for deadlocks.
NeverDeadlocked(w) == FALSE

Deadlocked(w) == \E S \in SUBSET Workers : w \in S /\ Circle(S)

\* PostgreSQL ends a circle of lock waits: one of its transactions is rolled back.
DeadlockAbort(w) ==
    /\ Deadlocked(w)
    /\ Finish(w)
    /\ UNCHANGED book

\* The process dies or an error escapes: the transaction is rolled back.
Fail(w) ==
    /\ pc[w] # "idle"
    /\ Finish(w)
    /\ UNCHANGED book

\* Registration, new loan requests and midnight; no row lock of a loan or a
\* repayment is involved.
Elsewhere ==
    /\ \/ \E u \in Users : Book!RegisterUser(u)
       \/ \E l \in Loans, lender, borrower \in Users : Book!CreateLoan(l, lender, borrower)
       \/ Book!NextDay
    /\ UNCHANGED <<pc, local, locks>>

\* A step of w that takes a lock, and any other step of its transaction.
Lock(w) == LockRepayment(w) \/ LockLoan(w) \/ LockTaken(w)

Proceed(w) ==
    \/ NextRow(w) \/ ScanDone(w) \/ Lookup(w) \/ Check(w) \/ Refuse(w)
    \/ CommitDecision(w) \/ CommitInstallment(w) \/ CommitPayment(w) \/ CommitSweep(w)

Next ==
    \/ Elsewhere
    \/ \E w \in Workers :
        \/ \E req \in Requests : Start(w, req)
        \/ Lock(w)
        \/ Proceed(w)
        \/ DeadlockAbort(w)
        \/ Fail(w)

Spec == Init /\ [][Next]_vars

\* A running process takes its next step, PostgreSQL grants a lock that is free
\* again and again to one that waits for it (its lock queues are fair), and it
\* looks for deadlocks.  No call has to be made.
FairSpec ==
    /\ Spec
    /\ \A w \in Workers : WF_vars(Proceed(w)) /\ SF_vars(Lock(w)) /\ WF_vars(DeadlockAbort(w))
-----------------------------------------------------------------------------
TypeOK ==
    /\ Book!TypeOK
    /\ pc \in [Workers -> Steps]
    /\ request \in [Workers -> Requests \cup {None}]
    /\ target \in [Workers -> Repayments \cup {None}]
    /\ todo \in [Workers -> SUBSET Repayments]
    /\ loanView \in [Workers -> [Loans -> Book!LoanRows \cup {Book!NoRow}]]
    /\ repaymentView \in [Workers -> [Repayments -> Book!RepaymentRows \cup {Book!NoRow}]]
    /\ settles \in [Workers -> BOOLEAN]
    /\ loanLock \in [Loans -> Workers \cup {None}]
    /\ repaymentLock \in [Repayments -> Workers \cup {None}]

\* Two-phase locking does its work: what a transaction decides on is still what
\* the tables hold when it commits - the rows it read, and the fact that no
\* other repayment of the loan is unpaid, which it read without a lock on them.
DecidesOnCurrentRows ==
    \A w \in Workers : pc[w] = "commit" =>
        /\ \A l \in Loans : Book!Exists(loanView[w][l]) => loanView[w][l] = loans[l]
        /\ \A r \in Repayments :
              Book!Exists(repaymentView[w][r]) => repaymentView[w][r] = repayments[r]
        /\ request[w].op = "add" => Taken(w) = {}
        /\ request[w].op = "pay" =>
              (settles[w] <=> Book!Settles(target[w], request[w].amount))

\* The services keep the loan book: every commit is one step of LoanBook.
KeepsTheBook == Book!Spec

\* Payments lock the repayment before the loan, new installments the loan before
\* the repayment, and the reminder job many of both.  A circle of lock waits
\* needs one of the latter two: decisions and payments alone never deadlock.
OnlyInstallmentsAndSweepsDeadlock ==
    \A S \in SUBSET Workers :
        Circle(S) => \E w \in S : request[w].op \in {"add", "sweep"}

\* Every call that a worker takes up comes to an end.
CallsEnd == \A w \in Workers : pc[w] # "idle" ~> pc[w] = "idle"
=============================================================================
