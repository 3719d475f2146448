----------------------- MODULE LoanTransactionsProofs -----------------------
(***************************************************************************)
(* Theorems about LoanTransactions, for any users, loans, repayments,      *)
(* installments, amounts, calls and workers: transactions decide on        *)
(* current rows, and so the workers together keep the loan book.           *)
(***************************************************************************)
EXTENDS LoanTransactions, TLAPS

(***************************************************************************)
(* The inductive invariant.                                                *)
(***************************************************************************)

\* Repayments are of loans that exist.
RepaymentsHaveLoans ==
    \A r \in Repayments :
        Book!Exists(repayments[r]) => Book!Exists(loans[repayments[r].loan])

\* The overdue rows of today or of an earlier day.
Late(r) == Book!Exists(repayments[r]) /\ repayments[r].due_date < today

\* What w has read it has locked, and what it has locked nobody else has changed.
ViewsHold(w) ==
    /\ \A l \in Loans : Book!Exists(loanView[w][l]) =>
        loanLock[l] = w /\ loanView[w][l] = loans[l]
    /\ \A r \in Repayments : Book!Exists(repaymentView[w][r]) =>
        repaymentLock[r] = w /\ repaymentView[w][r] = repayments[r]

\* An idle worker has read nothing; any other one serves a call.
Serves(w) ==
    /\ pc[w] = "idle" =>
        /\ \A l \in Loans : ~Book!Exists(loanView[w][l])
        /\ \A r \in Repayments : ~Book!Exists(repaymentView[w][r])
    /\ pc[w] # "idle" => request[w] # None

\* A worker with a decision, or a new installment, in hand.
LoanCall(w) ==
    pc[w] # "idle" /\ request[w].op \in {"accept", "reject", "cancel", "add"} =>
        LET l == request[w].loan
        IN  /\ pc[w] \in {"lockLoan", "lookup", "lockTaken", "commit"}
            /\ Book!Exists(loans[l])
            /\ request[w].op \in {"accept", "reject"} => users[loans[l].borrower] = "active"
            /\ pc[w] # "lockLoan" => Book!Exists(loanView[w][l])
            /\ pc[w] = "commit" /\ request[w].op = "add" => Taken(w) = {}

\* A worker with a payment in hand.
PayCall(w) ==
    pc[w] # "idle" /\ request[w].op = "pay" =>
        LET r == request[w].repayment
        IN  /\ pc[w] \in {"lockRepayment", "lockLoan", "check", "commit"}
            /\ target[w] = r
            /\ Book!Exists(repayments[r])
            /\ pc[w] # "lockRepayment" => Book!Exists(repaymentView[w][r])
            /\ pc[w] \in {"check", "commit"} => Book!Exists(loanView[w][repaymentView[w][r].loan])
            /\ pc[w] = "commit" =>
                /\ MayPay(w)
                /\ settles[w] <=> Book!Settles(r, request[w].amount)

\* A worker that runs the reminder job.
SweepCall(w) ==
    pc[w] # "idle" /\ request[w].op = "sweep" =>
        /\ pc[w] \in {"scan", "lockRepayment", "lockLoan", "commit"}
        /\ \A r \in todo[w] : Late(r)
        /\ pc[w] \in {"lockRepayment", "lockLoan"} => target[w] \in Repayments /\ Late(target[w])
        /\ pc[w] = "lockLoan" => Book!Exists(repaymentView[w][target[w]])
        /\ \A r \in Repayments : Book!Exists(repaymentView[w][r]) =>
            /\ Late(r)
            /\ \/ pc[w] = "lockLoan" /\ r = target[w]
               \/ Book!Exists(loanView[w][repaymentView[w][r].loan])

\* What w has locked it has read, and a decision or a payment that waits for a row
\* has locked nothing but what comes before that row: a payment its repayment.
LockOrder(w) ==
    /\ \A l \in Loans : loanLock[l] = w => Book!Exists(loanView[w][l])
    /\ \A r \in Repayments : repaymentLock[r] = w => Book!Exists(repaymentView[w][r])
    /\ pc[w] # "idle" /\ request[w].op \in {"accept", "reject", "cancel"} =>
        /\ pc[w] \in {"lockLoan", "commit"}
        /\ pc[w] = "lockLoan" => \A l \in Loans : ~Book!Exists(loanView[w][l])
    /\ pc[w] # "idle" /\ request[w].op = "pay" =>
        /\ pc[w] \in {"lockRepayment", "lockLoan"} => \A l \in Loans : ~Book!Exists(loanView[w][l])
        /\ pc[w] = "lockRepayment" => \A r \in Repayments : ~Book!Exists(repaymentView[w][r])

WorkerInv(w) ==
    ViewsHold(w) /\ Serves(w) /\ LoanCall(w) /\ PayCall(w) /\ SweepCall(w) /\ LockOrder(w)

TransactionInv ==
    /\ TypeOK
    /\ RepaymentsHaveLoans
    /\ \A w \in Workers : WorkerInv(w)

(***************************************************************************)
(* Facts about calls, rows and the end of a transaction.                   *)
(***************************************************************************)

\* The fields of a call by its kind.
LEMMA RequestKinds ==
    ASSUME NEW req \in Requests
    PROVE  /\ req.op \in {"accept", "reject", "cancel", "add", "pay", "sweep"}
           /\ req.op \in {"accept", "reject", "cancel", "add"} => req.loan \in Loans
           /\ req.op = "add" => /\ req.installment \in Installments
                                /\ req.due_date \in Book!Days
                                /\ req.amount_due \in Amounts
           /\ req.op = "pay" => req.repayment \in Repayments /\ req.amount \in Amounts
<1>1. req \in DecisionRequests \/ req \in AddRequests \/ req \in PayRequests \/ req \in SweepRequests
  BY RequestsAssumption DEF AllRequests
<1>2. CASE req \in DecisionRequests
  BY <1>2 DEF DecisionRequests
<1>3. CASE req \in AddRequests
  BY <1>3 DEF AddRequests
<1>4. CASE req \in PayRequests
  BY <1>4 DEF PayRequests
<1>5. CASE req \in SweepRequests
  BY <1>5 DEF SweepRequests
<1> QED
  BY <1>1, <1>2, <1>3, <1>4, <1>5

\* A worker that is not idle serves a call.
LEMMA ServedCall ==
    ASSUME TypeOK, NEW w \in Workers, Serves(w), pc[w] # "idle"
    PROVE  request[w] \in Requests
BY DEF TypeOK, Serves

\* Rows that exist have the type of their table.
LEMMA RowTypes ==
    ASSUME TypeOK
    PROVE  /\ \A l \in Loans : Book!Exists(loans[l]) => loans[l] \in Book!LoanRows
           /\ \A r \in Repayments : Book!Exists(repayments[r]) => repayments[r] \in Book!RepaymentRows
BY DEF TypeOK, Book!TypeOK, Book!Exists, Book!NoRow

\* The part of TypeOK that is not about the rows.
LocalTypes ==
    /\ pc \in [Workers -> Steps]
    /\ request \in [Workers -> Requests \cup {None}]
    /\ target \in [Workers -> Repayments \cup {None}]
    /\ todo \in [Workers -> SUBSET Repayments]
    /\ loanView \in [Workers -> [Loans -> Book!LoanRows \cup {Book!NoRow}]]
    /\ repaymentView \in [Workers -> [Repayments -> Book!RepaymentRows \cup {Book!NoRow}]]
    /\ settles \in [Workers -> BOOLEAN]
    /\ loanLock \in [Loans -> Workers \cup {None}]
    /\ repaymentLock \in [Repayments -> Workers \cup {None}]

\* The types are those of the committed rows and those of the workers.
LEMMA TypeParts == TypeOK <=> Book!TypeOK /\ LocalTypes
BY DEF TypeOK, LocalTypes

\* What the end of a transaction leaves of its worker and of the others.
LEMMA FinishFacts ==
    ASSUME LocalTypes, NEW w \in Workers, Finish(w)
    PROVE  /\ LocalTypes'
           /\ pc'[w] = "idle"
           /\ \A l \in Loans : ~Book!Exists(loanView'[w][l])
           /\ \A r \in Repayments : ~Book!Exists(repaymentView'[w][r])
           /\ \A l \in Loans : loanLock'[l] # w
           /\ \A r \in Repayments : repaymentLock'[r] # w
           /\ \A v \in Workers \ {w} :
                /\ pc'[v] = pc[v] /\ request'[v] = request[v]
                /\ target'[v] = target[v] /\ todo'[v] = todo[v]
                /\ loanView'[v] = loanView[v] /\ repaymentView'[v] = repaymentView[v]
                /\ settles'[v] = settles[v]
                /\ \A l \in Loans : loanLock[l] = v <=> loanLock'[l] = v
                /\ \A r \in Repayments : repaymentLock[r] = v <=> repaymentLock'[r] = v
<1>1. /\ NoLoans \in [Loans -> Book!LoanRows \cup {Book!NoRow}]
      /\ NoRepayments \in [Repayments -> Book!RepaymentRows \cup {Book!NoRow}]
      /\ \A l \in Loans : ~Book!Exists(NoLoans[l])
      /\ \A r \in Repayments : ~Book!Exists(NoRepayments[r])
  BY DEF NoLoans, NoRepayments, Book!Exists, Book!NoRow
<1>2. /\ loanLock' = [l \in Loans |-> IF loanLock[l] = w THEN None ELSE loanLock[l]]
      /\ repaymentLock' = [r \in Repayments |-> IF repaymentLock[r] = w THEN None ELSE repaymentLock[r]]
  BY DEF Finish, Released, LocalTypes
<1>3. /\ pc' = [pc EXCEPT ![w] = "idle"]
      /\ request' = [request EXCEPT ![w] = None]
      /\ target' = [target EXCEPT ![w] = None]
      /\ todo' = [todo EXCEPT ![w] = {}]
      /\ settles' = [settles EXCEPT ![w] = FALSE]
  BY DEF Finish
<1>4. /\ loanView' = [loanView EXCEPT ![w] = NoLoans]
      /\ repaymentView' = [repaymentView EXCEPT ![w] = NoRepayments]
  BY DEF Finish
<1>5. /\ pc' \in [Workers -> Steps]
      /\ request' \in [Workers -> Requests \cup {None}]
      /\ target' \in [Workers -> Repayments \cup {None}]
      /\ todo' \in [Workers -> SUBSET Repayments]
      /\ settles' \in [Workers -> BOOLEAN]
  BY <1>3 DEF LocalTypes, Steps
<1>6. /\ loanView' \in [Workers -> [Loans -> Book!LoanRows \cup {Book!NoRow}]]
      /\ repaymentView' \in [Workers -> [Repayments -> Book!RepaymentRows \cup {Book!NoRow}]]
      /\ loanView'[w] = NoLoans /\ repaymentView'[w] = NoRepayments
  <2> HIDE DEF NoLoans, NoRepayments
  <2> QED
    BY <1>1, <1>4 DEF LocalTypes
<1>7. /\ loanLock' \in [Loans -> Workers \cup {None}]
      /\ repaymentLock' \in [Repayments -> Workers \cup {None}]
  BY <1>2 DEF LocalTypes
<1>8. LocalTypes'
  BY <1>5, <1>6, <1>7 DEF LocalTypes
<1>9. ASSUME NEW v \in Workers \ {w}
      PROVE  /\ pc'[v] = pc[v] /\ request'[v] = request[v]
             /\ target'[v] = target[v] /\ todo'[v] = todo[v]
             /\ loanView'[v] = loanView[v] /\ repaymentView'[v] = repaymentView[v]
             /\ settles'[v] = settles[v]
  BY <1>3, <1>4 DEF LocalTypes
<1> QED
  BY <1>1, <1>2, <1>3, <1>6, <1>8, <1>9, NoneAssumption DEF LocalTypes

(***************************************************************************)
(* What a worker relies on while others move.                              *)
(***************************************************************************)

\* What the step of another worker leaves of the rows worker v relies on: rows
\* stay and keep their loan, due date and borrower, users stay active, time does
\* not go back, and nothing that a row locked by v governs is changed.
RowsKept(v) ==
    /\ \A l \in Loans : Book!Exists(loans[l]) =>
        Book!Exists(loans'[l]) /\ loans'[l].borrower = loans[l].borrower
    /\ \A u \in Users : users[u] = "active" => users'[u] = "active"
    /\ \A r \in Repayments : Book!Exists(repayments[r]) =>
        /\ Book!Exists(repayments'[r])
        /\ repayments'[r].loan = repayments[r].loan
        /\ repayments'[r].due_date = repayments[r].due_date
    /\ \A day \in Int : day < today => day < today'
    /\ \A l \in Loans : loanLock[l] = v /\ Book!Exists(loans[l]) =>
        /\ loans'[l] = loans[l]
        /\ \A r \in Repayments :
            /\ Book!Exists(repayments'[r]) /\ repayments'[r].loan = l => Book!Exists(repayments[r])
            /\ Book!Exists(repayments[r]) /\ repayments[r].loan = l => repayments'[r] = repayments[r]
    /\ \A r \in Repayments :
        repaymentLock[r] = v /\ Book!Exists(repayments[r]) => repayments'[r] = repayments[r]

\* Worker v does nothing in this step, and keeps its locks.
Rests(v) ==
    /\ pc'[v] = pc[v] /\ request'[v] = request[v]
    /\ target'[v] = target[v] /\ todo'[v] = todo[v]
    /\ loanView'[v] = loanView[v] /\ repaymentView'[v] = repaymentView[v]
    /\ settles'[v] = settles[v]
    /\ \A l \in Loans : loanLock[l] = v <=> loanLock'[l] = v
    /\ \A r \in Repayments : repaymentLock[r] = v <=> repaymentLock'[r] = v

\* Rows that exist keep their loan, so a locked loan keeps its repayments.
LEMMA KeptRepayments ==
    ASSUME NEW v, RowsKept(v), NEW l \in Loans, loanLock[l] = v, Book!Exists(loans[l])
    PROVE  /\ Book!RepaymentsOf(l)' = Book!RepaymentsOf(l)
           /\ \A r \in Book!RepaymentsOf(l) : repayments'[r] = repayments[r]
BY DEF RowsKept, Book!RepaymentsOf

\* A worker that rests keeps what it relies on if the rows it has locked are kept.
LEMMA RestingWorker ==
    ASSUME TransactionInv, NEW v \in Workers, Rests(v), RowsKept(v)
    PROVE  WorkerInv(v)'
<1>0. TypeOK /\ RepaymentsHaveLoans /\ ViewsHold(v) /\ Serves(v) /\ LoanCall(v) /\ PayCall(v) /\ SweepCall(v) /\ LockOrder(v)
  BY DEF TransactionInv, WorkerInv
<1>t. /\ \A l \in Loans : Book!Exists(loans[l]) => loans[l] \in Book!LoanRows
      /\ \A r \in Repayments : Book!Exists(repayments[r]) => repayments[r] \in Book!RepaymentRows
  BY <1>0, RowTypes
<1>v. /\ \A l \in Loans : Book!Exists(loanView[v][l]) => Book!Exists(loans[l])
      /\ \A r \in Repayments : Book!Exists(repaymentView[v][r]) => Book!Exists(repayments[r])
  BY <1>0 DEF ViewsHold
<1>1. ViewsHold(v)'
  BY <1>0, <1>v DEF ViewsHold, RowsKept, Rests
<1>2. Serves(v)'
  BY <1>0 DEF Serves, Rests
<1>3. \A r \in Repayments : Late(r) => Late(r)'
  BY <1>t DEF Late, RowsKept, Book!RepaymentRows, Book!Days
<1>4. LoanCall(v)'
  <2> SUFFICES ASSUME pc[v] # "idle", request[v].op \in {"accept", "reject", "cancel", "add"}
               PROVE  LoanCall(v)'
    BY DEF LoanCall, Rests
  <2> DEFINE l == request[v].loan
  <2>1. l \in Loans /\ Book!Exists(loans[l])
    BY <1>0, ServedCall, RequestKinds DEF LoanCall
  <2>2. loans[l].borrower \in Users
    BY <1>t, <2>1 DEF Book!LoanRows
  <2>3. Book!Exists(loans'[l]) /\ loans'[l].borrower = loans[l].borrower
    BY <2>1 DEF RowsKept
  <2>4. request[v].op \in {"accept", "reject"} => users'[loans'[l].borrower] = "active"
    BY <1>0, <2>2, <2>3 DEF LoanCall, RowsKept
  <2>5. CASE pc[v] = "commit" /\ request[v].op = "add"
    <3>1. loanLock[l] = v /\ Taken(v) = {}
      BY <1>0, <2>1, <2>5 DEF LoanCall, ViewsHold
    <3>2. PICK k \in Loans : k = l
      BY <2>1
    <3>3. Book!RepaymentsOf(k)' = Book!RepaymentsOf(k) /\ \A r \in Book!RepaymentsOf(k) : repayments'[r] = repayments[r]
      BY <2>1, <3>1, <3>2, KeptRepayments
    <3>4. request'[v] = request[v] /\ request[v].loan = k
      BY <3>2 DEF Rests
    <3> HIDE DEF l
    <3>5. Taken(v)' = {}
      BY <3>1, <3>3, <3>4 DEF Taken
    <3> QED
      BY <1>0, <2>3, <2>4, <3>5 DEF LoanCall, Rests, l
  <2>6. CASE ~(pc[v] = "commit" /\ request[v].op = "add")
    BY <1>0, <2>3, <2>4, <2>6 DEF LoanCall, Rests
  <2> QED
    BY <2>5, <2>6
<1>5. PayCall(v)'
  <2> SUFFICES ASSUME pc[v] # "idle", request[v].op = "pay"
               PROVE  PayCall(v)'
    BY DEF PayCall, Rests
  <2> DEFINE r == request[v].repayment
  <2>1. r \in Repayments /\ Book!Exists(repayments[r]) /\ target[v] = r
    BY <1>0, ServedCall, RequestKinds DEF PayCall
  <2>2. Book!Exists(repayments'[r])
    BY <2>1 DEF RowsKept
  <2>3. CASE pc[v] = "commit"
    <3>1. /\ repaymentView[v][r] = repayments[r] /\ repaymentLock[r] = v
      BY <1>0, <2>1, <2>3 DEF PayCall, ViewsHold
    <3>2. repayments'[r] = repayments[r] /\ repayments[r].loan \in Loans
      BY <1>t, <2>1, <3>1 DEF RowsKept, Book!RepaymentRows
    <3> DEFINE l == repayments[r].loan
    <3>3. loanLock[l] = v /\ Book!Exists(loans[l])
      BY <1>0, <2>1, <2>3, <3>1, <3>2 DEF PayCall, ViewsHold
    <3>4. PICK k \in Loans : k = l
      BY <3>2
    <3>7. Book!RepaymentsOf(k)' = Book!RepaymentsOf(k) /\ \A q \in Book!RepaymentsOf(k) : repayments'[q] = repayments[q]
      BY <3>3, <3>4, KeptRepayments
    <3>8. PICK q \in Repayments : q = r
      BY <2>1
    <3>9. PICK amount \in Amounts : amount = request[v].amount
      BY <1>0, ServedCall, RequestKinds
    <3>10. Book!Settles(q, amount)' <=> Book!Settles(q, amount)
      BY <3>2, <3>4, <3>7, <3>8 DEF Book!Settles, Book!PaidRow
    <3>5. MayPay(v)' <=> MayPay(v)
      BY DEF MayPay, Rests
    <3>6. Book!Settles(r, request[v].amount)' <=> Book!Settles(r, request[v].amount)
      BY <3>8, <3>9, <3>10 DEF Rests
    <3> QED
      BY <1>0, <2>1, <2>2, <2>3, <3>5, <3>6 DEF PayCall, Rests
  <2>4. CASE pc[v] # "commit"
    BY <1>0, <2>1, <2>2, <2>4 DEF PayCall, Rests
  <2> QED
    BY <2>3, <2>4
<1>6. SweepCall(v)'
  <2> SUFFICES ASSUME pc[v] # "idle", request[v].op = "sweep"
               PROVE  SweepCall(v)'
    BY DEF SweepCall, Rests
  <2>1. todo[v] \in SUBSET Repayments
    BY <1>0 DEF TypeOK
  <2>2. \A r \in todo[v] : Late(r)'
    BY <1>0, <1>3, <2>1 DEF SweepCall
  <2> QED
    BY <1>0, <1>3, <2>1, <2>2 DEF SweepCall, Rests
<1>7. LockOrder(v)'
  BY <1>0 DEF LockOrder, Rests
<1> QED
  BY <1>1, <1>2, <1>4, <1>5, <1>6, <1>7 DEF WorkerInv

(***************************************************************************)
(* Steps that change no row.                                               *)
(***************************************************************************)

\* Where nothing is committed, all rows are kept.
LEMMA UnchangedRows ==
    ASSUME UNCHANGED book, TransactionInv
    PROVE  /\ Book!TypeOK' /\ RepaymentsHaveLoans'
           /\ \A v \in Workers : RowsKept(v)
<1>1. Book!TypeOK /\ RepaymentsHaveLoans
  BY TypeParts DEF TransactionInv
<1>2. Book!TypeOK'
  BY <1>1 DEF book, Book!TypeOK
<1>3. RepaymentsHaveLoans'
  BY <1>1 DEF book, RepaymentsHaveLoans
<1>4. \A v \in Workers : RowsKept(v)
  BY DEF book, RowsKept
<1> QED
  BY <1>2, <1>3, <1>4

\* A step without a commit needs a look at its own worker only.
LEMMA LocalStep ==
    ASSUME TransactionInv, UNCHANGED book, NEW w \in Workers, LocalTypes', WorkerInv(w)',
           \A v \in Workers \ {w} : Rests(v)
    PROVE  TransactionInv'
<1>1. Book!TypeOK' /\ RepaymentsHaveLoans' /\ \A v \in Workers : RowsKept(v)
  BY UnchangedRows
<1>2. \A v \in Workers \ {w} : WorkerInv(v)'
  BY <1>1, RestingWorker
<1>3. TypeOK'
  BY <1>1, TypeParts DEF TypeOK, LocalTypes
<1> QED
  BY <1>1, <1>2, <1>3 DEF TransactionInv

\* A call that ends, with or without a write, leaves its worker idle.
LEMMA EndOfCall ==
    ASSUME TransactionInv, NEW w \in Workers, Finish(w),
           Book!TypeOK', RepaymentsHaveLoans', \A v \in Workers \ {w} : RowsKept(v)
    PROVE  TransactionInv'
<1>0. LocalTypes
  BY TypeParts DEF TransactionInv
<1>1. LocalTypes' /\ pc'[w] = "idle"
  BY <1>0, FinishFacts
<1>2. /\ \A l \in Loans : ~Book!Exists(loanView'[w][l])
      /\ \A r \in Repayments : ~Book!Exists(repaymentView'[w][r])
  BY <1>0, FinishFacts
<1>3. WorkerInv(w)'
  BY <1>0, <1>1, <1>2, FinishFacts
     DEF WorkerInv, ViewsHold, Serves, LoanCall, PayCall, SweepCall, LockOrder
<1>4. \A v \in Workers \ {w} : Rests(v)
  BY <1>0, FinishFacts DEF Rests
<1>5. \A v \in Workers \ {w} : WorkerInv(v)'
  BY <1>4, RestingWorker
<1>6. TypeOK'
  BY <1>1 DEF TypeOK, LocalTypes
<1> QED
  BY <1>3, <1>5, <1>6 DEF TransactionInv

\* The invariant is kept when a call starts.
LEMMA StartStep ==
    ASSUME TransactionInv, NEW w \in Workers, NEW req \in Requests, Start(w, req)
    PROVE  TransactionInv'
<1>0. LocalTypes /\ WorkerInv(w)
  BY TypeParts DEF TransactionInv
<1>1. /\ pc[w] = "idle"
      /\ request' = [request EXCEPT ![w] = req]
      /\ UNCHANGED <<book, loanView, repaymentView, settles, locks>>
  BY DEF Start
<1>2. /\ pc' \in {[pc EXCEPT ![w] = "lockLoan"], [pc EXCEPT ![w] = "lockRepayment"], [pc EXCEPT ![w] = "scan"]}
      /\ target' \in {target, [target EXCEPT ![w] = req.repayment]}
      /\ target' # target => req.op = "pay"
      /\ todo' \in {todo, [todo EXCEPT ![w] = OverdueRows]}
  BY DEF Start
<1>3. OverdueRows \in SUBSET Repayments /\ \A r \in OverdueRows : Late(r)
  BY DEF OverdueRows, Late
<1>4. LocalTypes'
  BY <1>0, <1>1, <1>2, <1>3, RequestKinds DEF LocalTypes, locks, Steps
<1>5. \A v \in Workers \ {w} : Rests(v)
  BY <1>0, <1>1, <1>2 DEF Rests, LocalTypes, locks
<1>6. WorkerInv(w)'
  <2>1. /\ \A l \in Loans : ~Book!Exists(loanView[w][l])
        /\ \A r \in Repayments : ~Book!Exists(repaymentView[w][r])
    BY <1>0, <1>1 DEF WorkerInv, Serves
  <2>2. loanView' = loanView /\ repaymentView' = repaymentView /\ request'[w] = req /\ req # None
    BY <1>0, <1>1, NoneAssumption, RequestsAssumption DEF LocalTypes
  <2>3. ViewsHold(w)' /\ Serves(w)'
    <3>1. pc'[w] # "idle"
      BY <1>0, <1>2 DEF LocalTypes
    <3> QED
      BY <2>1, <2>2, <3>1 DEF ViewsHold, Serves
  <2>4. LoanCall(w)'
    <3> SUFFICES ASSUME req.op \in {"accept", "reject", "cancel", "add"} PROVE LoanCall(w)'
      BY <2>2 DEF LoanCall
    <3>1. pc'[w] = "lockLoan" /\ Book!Exists(loans[req.loan])
      BY <1>0 DEF Start, LocalTypes, Book!BorrowerCalls
    <3>2. req.op \in {"accept", "reject"} => users[loans[req.loan].borrower] = "active"
      BY DEF Start, Book!BorrowerCalls
    <3>3. UNCHANGED <<users, loans>>
      BY <1>1 DEF book
    <3> QED
      BY <2>2, <3>1, <3>2, <3>3 DEF LoanCall
  <2>5. PayCall(w)'
    <3> SUFFICES ASSUME req.op = "pay" PROVE PayCall(w)'
      BY <2>2 DEF PayCall
    <3>1. /\ pc'[w] = "lockRepayment" /\ target'[w] = req.repayment
          /\ Book!Exists(repayments[req.repayment])
      BY <1>0 DEF Start, LocalTypes
    <3>2. repayments' = repayments
      BY <1>1 DEF book
    <3> QED
      BY <2>2, <3>1, <3>2 DEF PayCall
  <2>6. SweepCall(w)'
    <3> SUFFICES ASSUME req.op = "sweep" PROVE SweepCall(w)'
      BY <2>2 DEF SweepCall
    <3>1. pc'[w] = "scan" /\ todo'[w] = OverdueRows
      BY <1>0 DEF Start, LocalTypes
    <3>2. \A r : Late(r)' <=> Late(r)
      BY <1>1 DEF book, Late
    <3> QED
      BY <1>3, <2>1, <2>2, <3>1, <3>2 DEF SweepCall
  <2>7. LockOrder(w)'
    <3>1. loanLock' = loanLock /\ repaymentLock' = repaymentLock
      BY <1>1 DEF locks
    <3>2. req.op \in {"accept", "reject", "cancel"} => pc'[w] = "lockLoan"
      BY <1>0 DEF Start, LocalTypes
    <3> QED
      BY <1>0, <2>1, <2>2, <3>1, <3>2 DEF WorkerInv, LockOrder
  <2> QED
    BY <2>3, <2>4, <2>5, <2>6, <2>7 DEF WorkerInv
<1> QED
  BY <1>1, <1>4, <1>5, <1>6, LocalStep

\* Where a worker waits for a row lock, it knows the row it waits for.
LEMMA AtLockRepayment ==
    ASSUME TransactionInv, NEW w \in Workers, pc[w] = "lockRepayment"
    PROVE  /\ request[w] \in Requests /\ request[w].op \in {"pay", "sweep"}
           /\ target[w] \in Repayments /\ Book!Exists(repayments[target[w]])
<1>1. TypeOK /\ Serves(w) /\ LoanCall(w) /\ PayCall(w) /\ SweepCall(w)
  BY DEF TransactionInv, WorkerInv
<1>2. request[w] \in Requests
  BY <1>1, ServedCall
<1>3. request[w].op \in {"pay", "sweep"}
  BY <1>1, <1>2, RequestKinds DEF LoanCall
<1> QED
  BY <1>1, <1>2, <1>3, RequestKinds DEF PayCall, SweepCall, Late

\* What a call that is to lock its loan knows.
LEMMA AtLockLoan ==
    ASSUME TransactionInv, NEW w \in Workers, pc[w] = "lockLoan"
    PROVE  /\ request[w] \in Requests
           /\ LoanOf(w) \in Loans /\ Book!Exists(loans[LoanOf(w)])
           /\ request[w].op \in {"pay", "sweep"} =>
                target[w] \in Repayments /\ Book!Exists(repaymentView[w][target[w]])
<1>1. TypeOK /\ Serves(w) /\ LoanCall(w) /\ PayCall(w) /\ SweepCall(w) /\ ViewsHold(w) /\ RepaymentsHaveLoans
  BY DEF TransactionInv, WorkerInv
<1>2. request[w] \in Requests
  BY <1>1, ServedCall
<1>3. CASE request[w].op \in {"pay", "sweep"}
  <2>1. target[w] \in Repayments /\ Book!Exists(repaymentView[w][target[w]])
    BY <1>1, <1>2, <1>3, RequestKinds DEF PayCall, SweepCall
  <2>2. repaymentView[w][target[w]] = repayments[target[w]] /\ Book!Exists(repayments[target[w]])
    BY <1>1, <2>1 DEF ViewsHold
  <2>3. repayments[target[w]].loan \in Loans
    BY <1>1, <2>1, <2>2, RowTypes DEF Book!RepaymentRows
  <2> QED
    BY <1>1, <1>2, <1>3, <2>1, <2>2, <2>3 DEF LoanOf, RepaymentsHaveLoans
<1>4. CASE request[w].op \notin {"pay", "sweep"}
  BY <1>1, <1>2, <1>4, RequestKinds DEF LoanCall, LoanOf
<1> QED
  BY <1>3, <1>4

\* The invariant is kept when a repayment is locked.
LEMMA LockRepaymentStep ==
    ASSUME TransactionInv, NEW w \in Workers, LockRepayment(w)
    PROVE  TransactionInv'
<1> DEFINE r == target[w]
<1>0. /\ TypeOK /\ LocalTypes /\ ViewsHold(w) /\ Serves(w) /\ LoanCall(w) /\ PayCall(w) /\ SweepCall(w)
      /\ LockOrder(w)
  BY TypeParts DEF TransactionInv, WorkerInv
<1>1. /\ pc[w] = "lockRepayment"
      /\ repaymentLock[r] \in {None, w}
      /\ repaymentLock' = [repaymentLock EXCEPT ![r] = w]
      /\ repaymentView' = [repaymentView EXCEPT ![w][r] = repayments[r]]
      /\ pc' = [pc EXCEPT ![w] = "lockLoan"]
      /\ UNCHANGED <<book, request, target, todo, loanView, settles, loanLock>>
  BY DEF LockRepayment, RepaymentFree
<1>2. request[w] \in Requests /\ request[w].op \in {"pay", "sweep"} /\ r \in Repayments /\ Book!Exists(repayments[r])
  BY <1>1, AtLockRepayment
<1>3. repayments[r] \in Book!RepaymentRows
  BY <1>0, <1>2, RowTypes
<1> HIDE DEF r
<1>4. LocalTypes'
  BY <1>0, <1>1, <1>2, <1>3 DEF LocalTypes, Steps
<1>5. \A v \in Workers \ {w} : Rests(v)
  BY <1>0, <1>1, <1>2, NoneAssumption DEF Rests, LocalTypes
<1>6. /\ pc'[w] = "lockLoan" /\ repaymentView'[w][r] = repayments[r] /\ repaymentLock'[r] = w
      /\ \A q \in Repayments \ {r} :
            repaymentView'[w][q] = repaymentView[w][q] /\ repaymentLock'[q] = repaymentLock[q]
  BY <1>0, <1>1, <1>2 DEF LocalTypes
<1>7. /\ UNCHANGED <<loans, repayments, today, users>>
      /\ UNCHANGED <<request, target, todo, loanView, settles, loanLock>>
  BY <1>1 DEF book
<1>8. ViewsHold(w)'
  BY <1>0, <1>6, <1>7 DEF ViewsHold
<1>9. Serves(w)' /\ LoanCall(w)'
  BY <1>0, <1>1, <1>2, <1>6, <1>7 DEF Serves, LoanCall
<1>10. PayCall(w)'
  BY <1>0, <1>1, <1>2, <1>6, <1>7 DEF PayCall, r
<1>11. SweepCall(w)'
  <2>1. \A q : Late(q)' <=> Late(q)
    BY <1>7 DEF Late
  <2> QED
    BY <1>0, <1>1, <1>2, <1>6, <1>7, <2>1 DEF SweepCall, r
<1>12. LockOrder(w)'
  BY <1>0, <1>1, <1>2, <1>6, <1>7 DEF LockOrder
<1> QED
  BY <1>1, <1>4, <1>5, <1>8, <1>9, <1>10, <1>11, <1>12, LocalStep DEF WorkerInv

\* The invariant is kept when a loan is locked.
LEMMA LockLoanStep ==
    ASSUME TransactionInv, NEW w \in Workers, LockLoan(w)
    PROVE  TransactionInv'
<1> DEFINE l == LoanOf(w)
           next == AfterLoanLock(w)
<1>0. /\ TypeOK /\ LocalTypes /\ ViewsHold(w) /\ Serves(w) /\ LoanCall(w) /\ PayCall(w) /\ SweepCall(w)
      /\ LockOrder(w)
  BY TypeParts DEF TransactionInv, WorkerInv
<1>1. /\ pc[w] = "lockLoan"
      /\ loanLock[l] \in {None, w}
      /\ loanLock' = [loanLock EXCEPT ![l] = w]
      /\ loanView' = [loanView EXCEPT ![w][l] = loans[l]]
      /\ pc' = [pc EXCEPT ![w] = next]
      /\ UNCHANGED <<book, request, target, todo, repaymentView, settles, repaymentLock>>
  BY DEF LockLoan, LoanFree
<1>2. /\ request[w] \in Requests /\ l \in Loans /\ Book!Exists(loans[l])
      /\ request[w].op \in {"pay", "sweep"} =>
            target[w] \in Repayments /\ Book!Exists(repaymentView[w][target[w]])
  BY <1>1, AtLockLoan
<1>3. loans[l] \in Book!LoanRows
  BY <1>0, <1>2, RowTypes
<1>4. /\ request[w].op = "add" => next = "lookup"
      /\ request[w].op = "pay" => next = "check"
      /\ request[w].op = "sweep" => next = "scan"
      /\ request[w].op \in {"accept", "reject", "cancel"} => next = "commit"
      /\ next \in {"lookup", "check", "scan", "commit"}
  BY <1>2, RequestKinds DEF AfterLoanLock
<1>l. /\ request[w].op \in {"pay", "sweep"} => l = repaymentView[w][target[w]].loan
      /\ request[w].op \notin {"pay", "sweep"} => l = request[w].loan
  BY DEF LoanOf
<1> HIDE DEF l, next
<1>5. LocalTypes'
  BY <1>0, <1>1, <1>2, <1>3, <1>4 DEF LocalTypes, Steps
<1>6. \A v \in Workers \ {w} : Rests(v)
  BY <1>0, <1>1, <1>2, NoneAssumption DEF Rests, LocalTypes
<1>7. /\ pc'[w] = next /\ loanView'[w][l] = loans[l] /\ loanLock'[l] = w
      /\ \A k \in Loans \ {l} : loanView'[w][k] = loanView[w][k] /\ loanLock'[k] = loanLock[k]
  BY <1>0, <1>1, <1>2 DEF LocalTypes
<1>8. /\ UNCHANGED <<loans, repayments, today, users>>
      /\ UNCHANGED <<request, target, todo, repaymentView, settles, repaymentLock>>
  BY <1>1 DEF book
<1>9. ViewsHold(w)'
  BY <1>0, <1>2, <1>7, <1>8 DEF ViewsHold
<1>10. Serves(w)' /\ LoanCall(w)'
  BY <1>0, <1>1, <1>2, <1>4, <1>l, <1>7, <1>8 DEF Serves, LoanCall
<1>11. PayCall(w)'
  <2> SUFFICES ASSUME request[w].op = "pay" PROVE PayCall(w)'
    BY <1>8 DEF PayCall
  <2>1. request[w].repayment = target[w] /\ Book!Exists(repayments[target[w]])
    BY <1>0, <1>1 DEF PayCall
  <2>2. l = repaymentView[w][target[w]].loan /\ next = "check" /\ Book!Exists(repaymentView[w][target[w]])
    BY <1>2, <1>4, <1>l
  <2> QED
    BY <1>2, <1>7, <1>8, <2>1, <2>2 DEF PayCall
<1>12. SweepCall(w)'
  <2> SUFFICES ASSUME request[w].op = "sweep" PROVE SweepCall(w)'
    BY <1>8 DEF SweepCall
  <2>1. \A q : Late(q)' <=> Late(q)
    BY <1>8 DEF Late
  <2>2. next = "scan" /\ l = repaymentView[w][target[w]].loan
    BY <1>4, <1>l
  <2>3. \A k \in Loans : Book!Exists(loanView[w][k]) \/ k = l => Book!Exists(loanView'[w][k])
    BY <1>0, <1>2, <1>7
  <2>4. \A r \in Repayments : Book!Exists(repaymentView[w][r]) =>
            Late(r) /\ repaymentView[w][r].loan \in Loans
    BY <1>0, <1>1, RowTypes DEF SweepCall, ViewsHold, Book!RepaymentRows
  <2> QED
    BY <1>0, <1>1, <1>7, <1>8, <2>1, <2>2, <2>3, <2>4 DEF SweepCall
<1>13. LockOrder(w)'
  BY <1>0, <1>1, <1>2, <1>4, <1>7, <1>8 DEF LockOrder
<1> QED
  BY <1>1, <1>5, <1>6, <1>9, <1>10, <1>11, <1>12, <1>13, LocalStep DEF WorkerInv

\* The steps between the locks of one worker.
LEMMA ScanStep ==
    ASSUME TransactionInv, NEW w \in Workers, NextRow(w) \/ ScanDone(w)
    PROVE  TransactionInv'
<1>0. /\ TypeOK /\ LocalTypes /\ ViewsHold(w) /\ Serves(w) /\ LoanCall(w) /\ PayCall(w) /\ SweepCall(w)
      /\ LockOrder(w)
  BY TypeParts DEF TransactionInv, WorkerInv
<1>1. pc[w] = "scan" /\ UNCHANGED <<book, request, loanView, repaymentView, settles, locks>>
  BY DEF NextRow, ScanDone, local
<1>2. request[w] \in Requests /\ request[w].op = "sweep"
  BY <1>0, <1>1, ServedCall, RequestKinds DEF LoanCall, PayCall
<1>3. todo[w] \in SUBSET Repayments
  BY <1>0 DEF LocalTypes
<1>4. /\ pc' \in {[pc EXCEPT ![w] = "lockRepayment"], [pc EXCEPT ![w] = "commit"]}
      /\ todo' = todo \/ \E r \in todo[w] : todo' = [todo EXCEPT ![w] = @ \ {r}]
      /\ target' = target \/ \E r \in todo[w] : target' = [target EXCEPT ![w] = r]
      /\ pc'[w] = "lockRepayment" => target'[w] \in todo[w]
  <2>1. CASE NextRow(w)
    BY <1>0, <2>1 DEF NextRow, LocalTypes
  <2>2. CASE ScanDone(w)
    BY <1>0, <2>2 DEF ScanDone, local, LocalTypes
  <2> QED
    BY <2>1, <2>2
<1>5. LocalTypes'
  <2>1. todo' \in [Workers -> SUBSET Repayments]
    BY <1>0, <1>4 DEF LocalTypes
  <2>2. target' \in [Workers -> Repayments \cup {None}]
    BY <1>0, <1>3, <1>4 DEF LocalTypes
  <2>3. pc' \in [Workers -> Steps]
    BY <1>0, <1>4 DEF LocalTypes, Steps
  <2> QED
    BY <1>0, <1>1, <2>1, <2>2, <2>3 DEF LocalTypes, locks
<1>6. \A v \in Workers \ {w} : Rests(v)
  <2> SUFFICES ASSUME NEW v \in Workers \ {w} PROVE Rests(v)
    OBVIOUS
  <2>1. todo'[v] = todo[v] /\ target'[v] = target[v] /\ pc'[v] = pc[v]
    BY <1>0, <1>4 DEF LocalTypes
  <2> QED
    BY <1>1, <2>1 DEF Rests, locks
<1>7. pc'[w] \in {"lockRepayment", "commit"} /\ \A r \in todo'[w] : r \in todo[w]
  BY <1>0, <1>4 DEF LocalTypes
<1>8. UNCHANGED <<loans, repayments, today, users>>
  BY <1>1 DEF book
<1>9. ViewsHold(w)' /\ Serves(w)' /\ LoanCall(w)' /\ PayCall(w)'
  BY <1>0, <1>1, <1>2, <1>7, <1>8 DEF ViewsHold, Serves, LoanCall, PayCall, locks
<1>10. SweepCall(w)'
  <2>1. \A r : Late(r)' <=> Late(r)
    BY <1>8 DEF Late
  <2>2. \A r \in todo[w] : Late(r) /\ r \in Repayments
    BY <1>0, <1>1, <1>2, <1>3 DEF SweepCall
  <2>3. ASSUME NEW r \in Repayments, Book!Exists(repaymentView[w][r])
        PROVE  Late(r) /\ Book!Exists(loanView[w][repaymentView[w][r].loan])
    BY <1>0, <1>1, <1>2, <2>3 DEF SweepCall
  <2> QED
    BY <1>1, <1>4, <1>7, <2>1, <2>2, <2>3 DEF SweepCall
<1>11. LockOrder(w)'
  BY <1>0, <1>1, <1>2, <1>7 DEF LockOrder, locks
<1> QED
  BY <1>1, <1>5, <1>6, <1>9, <1>10, <1>11, LocalStep DEF WorkerInv

\* The invariant is kept when an installment is looked up.
LEMMA LookupStep ==
    ASSUME TransactionInv, NEW w \in Workers, Lookup(w)
    PROVE  TransactionInv'
<1>0. /\ TypeOK /\ LocalTypes /\ ViewsHold(w) /\ Serves(w) /\ LoanCall(w) /\ PayCall(w) /\ SweepCall(w)
      /\ LockOrder(w)
  BY TypeParts DEF TransactionInv, WorkerInv
<1>1. pc[w] = "lookup" /\ UNCHANGED <<book, request, todo, loanView, repaymentView, settles, locks>>
  BY DEF Lookup
<1>2. request[w] \in Requests /\ request[w].op \in {"accept", "reject", "cancel", "add"}
  BY <1>0, <1>1, ServedCall, RequestKinds DEF PayCall, SweepCall
<1>3. Taken(w) \in SUBSET Repayments
  BY DEF Taken, Book!RepaymentsOf
<1>4. /\ \/ pc' = [pc EXCEPT ![w] = "commit"] /\ Taken(w) = {}
         \/ pc' = [pc EXCEPT ![w] = "lockTaken"]
      /\ target' = target \/ \E r \in Taken(w) : target' = [target EXCEPT ![w] = r]
  BY DEF Lookup
<1>5. LocalTypes'
  BY <1>0, <1>1, <1>3, <1>4 DEF LocalTypes, locks, Steps
<1>6. \A v \in Workers \ {w} : Rests(v)
  BY <1>0, <1>1, <1>4 DEF Rests, LocalTypes, locks
<1>7. (pc'[w] = "commit" /\ Taken(w) = {}) \/ pc'[w] = "lockTaken"
  BY <1>0, <1>4 DEF LocalTypes
<1>8. UNCHANGED <<loans, repayments, today, users>>
  BY <1>1 DEF book
<1>9. ViewsHold(w)' /\ Serves(w)' /\ PayCall(w)' /\ SweepCall(w)'
  BY <1>0, <1>1, <1>2, <1>7, <1>8 DEF ViewsHold, Serves, PayCall, SweepCall, locks
<1>10. LoanCall(w)'
  <2>1. Taken(w)' = Taken(w)
    BY <1>1, <1>8 DEF Taken, Book!RepaymentsOf
  <2> QED
    BY <1>0, <1>1, <1>2, <1>7, <1>8, <2>1 DEF LoanCall
<1>11. LockOrder(w)'
  BY <1>0, <1>1, <1>2, <1>7 DEF LockOrder, locks
<1> QED
  BY <1>1, <1>5, <1>6, <1>9, <1>10, <1>11, LocalStep DEF WorkerInv

\* What w is about to write is what LoanBook writes, when it has read the row.
LEMMA PaidRowRead ==
    ASSUME NEW w \in Workers, NEW r \in Repayments,
           target[w] = r, request[w].op = "pay", repaymentView[w][r] = repayments[r]
    PROVE  /\ PaidView(w) = Book!PaidRow(r, request[w].amount)
           /\ LoanOf(w) = repayments[r].loan
BY DEF PaidView, Book!PaidRow, LoanOf

\* The invariant is kept when the other repayments of the loan are looked at.
LEMMA CheckStep ==
    ASSUME TransactionInv, NEW w \in Workers, Check(w)
    PROVE  TransactionInv'
<1>0. /\ TypeOK /\ LocalTypes /\ ViewsHold(w) /\ Serves(w) /\ LoanCall(w) /\ PayCall(w) /\ SweepCall(w)
      /\ LockOrder(w)
  BY TypeParts DEF TransactionInv, WorkerInv
<1>1. /\ pc[w] = "check" /\ MayPay(w)
      /\ pc' = [pc EXCEPT ![w] = "commit"]
      /\ UNCHANGED <<book, request, target, todo, loanView, repaymentView, locks>>
  BY DEF Check
<1>2. request[w] \in Requests /\ request[w].op = "pay"
  BY <1>0, <1>1, ServedCall, RequestKinds DEF LoanCall, SweepCall
<1> DEFINE all == /\ PaidView(w).status = "paid"
                  /\ \A r \in Book!RepaymentsOf(LoanOf(w)) \ {target[w]} :
                        repayments[r].status = "paid"
<1>3. settles' = [settles EXCEPT ![w] = all] /\ all \in BOOLEAN
  BY DEF Check
<1>4. PICK r \in Repayments : r = request[w].repayment
  BY <1>2, RequestKinds
<1>5. /\ target[w] = r /\ Book!Exists(repaymentView[w][r])
      /\ repaymentView[w][r] = repayments[r]
  BY <1>0, <1>1, <1>2, <1>4 DEF PayCall, ViewsHold
<1>6. all <=> Book!Settles(r, request[w].amount)
  BY <1>2, <1>5, PaidRowRead DEF Book!Settles
<1> HIDE DEF all
<1>7. LocalTypes'
  <2>1. settles' \in [Workers -> BOOLEAN]
    BY <1>0, <1>3 DEF LocalTypes
  <2>2. pc' \in [Workers -> Steps]
    BY <1>0, <1>1 DEF LocalTypes, Steps
  <2> QED
    BY <1>0, <1>1, <2>1, <2>2 DEF LocalTypes, locks
<1>8. \A v \in Workers \ {w} : Rests(v)
  BY <1>0, <1>1, <1>3 DEF Rests, LocalTypes, locks
<1>9. pc'[w] = "commit" /\ settles'[w] = all
  BY <1>0, <1>1, <1>3 DEF LocalTypes
<1>10. UNCHANGED <<loans, repayments, today, users>>
  BY <1>1 DEF book
<1>11. ViewsHold(w)' /\ Serves(w)' /\ LoanCall(w)' /\ SweepCall(w)'
  BY <1>0, <1>1, <1>2, <1>9, <1>10 DEF ViewsHold, Serves, LoanCall, SweepCall, locks
<1>12. PayCall(w)'
  <2>1. MayPay(w)'
    BY <1>1 DEF MayPay
  <2>2. PICK amount \in Amounts : amount = request[w].amount
    BY <1>2, RequestKinds
  <2>3. Book!Settles(r, amount)' <=> Book!Settles(r, amount)
    BY <1>10 DEF Book!Settles, Book!PaidRow, Book!RepaymentsOf
  <2>4. settles'[w] <=> Book!Settles(r, amount)'
    BY <1>6, <1>9, <2>2, <2>3
  <2>5. request'[w].repayment = r /\ request'[w].amount = amount
    BY <1>1, <1>4, <2>2
  <2> QED
    BY <1>0, <1>1, <1>2, <1>4, <1>9, <1>10, <2>1, <2>4, <2>5 DEF PayCall
<1>13. LockOrder(w)'
  BY <1>0, <1>1, <1>2, <1>9 DEF LockOrder, locks
<1> QED
  BY <1>1, <1>7, <1>8, <1>11, <1>12, <1>13, LocalStep DEF WorkerInv

\* A call that ends without a write.
LEMMA EndStep ==
    ASSUME TransactionInv, NEW w \in Workers,
           LockTaken(w) \/ Refuse(w) \/ DeadlockAbort(w) \/ Fail(w)
    PROVE  TransactionInv' /\ UNCHANGED book
<1>1. Finish(w) /\ UNCHANGED book
  BY DEF LockTaken, Refuse, DeadlockAbort, Fail
<1> QED
  BY <1>1, UnchangedRows, EndOfCall

(***************************************************************************)
(* Steps that write rows: each is a step of LoanBook, and other workers    *)
(* keep what they rely on.                                                 *)
(***************************************************************************)

\* The write to a loan that w has locked and read is a move of LoanBook.
LEMMA WrittenLoan ==
    ASSUME TransactionInv, NEW w \in Workers, NEW l \in Loans, Book!Exists(loanView[w][l]),
           NEW s \in {"active", "rejected", "cancelled", "closed"}, WriteLoan(w, l, s)
    PROVE  /\ Book!MoveLoan(l, s)
           /\ loans' \in [Loans -> Book!LoanRows \cup {Book!NoRow}]
           /\ loanTrail' \in [Loans -> Seq(Book!LoanChanges)]
           /\ loanLock[l] = w /\ loanView[w][l] = loans[l] /\ Book!Exists(loans[l])
           /\ Book!Exists(loans'[l]) /\ loans'[l].borrower = loans[l].borrower
           /\ \A k \in Loans \ {l} : loans'[k] = loans[k]
<1>1. TypeOK /\ ViewsHold(w) /\ Book!TypeOK
  BY TypeParts DEF TransactionInv, WorkerInv
<1>2. loanLock[l] = w /\ loanView[w][l] = loans[l] /\ Book!Exists(loans[l])
  BY <1>1 DEF ViewsHold
<1>3. loans[l] \in Book!LoanRows
  BY <1>1, <1>2, RowTypes
<1> DEFINE row == [loans[l] EXCEPT !.status = s]
<1>4. row \in Book!LoanRows /\ row.borrower = loans[l].borrower /\ Book!Exists(row)
  BY <1>3 DEF Book!LoanRows, Book!LoanStatus, Book!Exists
<1>5. loans' = [loans EXCEPT ![l] = row]
  BY DEF WriteLoan
<1> HIDE DEF row
<1>6. /\ loans' \in [Loans -> Book!LoanRows \cup {Book!NoRow}]
      /\ loans'[l] = row
      /\ \A k \in Loans \ {l} : loans'[k] = loans[k]
  BY <1>1, <1>4, <1>5 DEF Book!TypeOK
<1>7. Book!Change(loans[l].status, s) \in Book!LoanChanges
  BY <1>3 DEF Book!LoanRows, Book!LoanStatus, Book!Change, Book!LoanChanges
<1>8. loanTrail' = [loanTrail EXCEPT ![l] = Append(@, Book!Change(loans[l].status, s))]
  BY <1>2 DEF WriteLoan
<1>9. loanTrail' \in [Loans -> Seq(Book!LoanChanges)]
  <2>1. loanTrail \in [Loans -> Seq(Book!LoanChanges)]
    BY <1>1 DEF Book!TypeOK
  <2>2. Append(loanTrail[l], Book!Change(loans[l].status, s)) \in Seq(Book!LoanChanges)
    BY <1>7, <2>1
  <2> QED
    BY <1>8, <2>1, <2>2
<1>10. Book!MoveLoan(l, s)
  BY <1>8 DEF WriteLoan, Book!MoveLoan
<1> QED
  BY <1>2, <1>4, <1>6, <1>9, <1>10

\* The commit of a decision is a step of the book.
LEMMA DecisionStep ==
    ASSUME TransactionInv, NEW w \in Workers, CommitDecision(w)
    PROVE  TransactionInv' /\ Book!Next
<1>0. TypeOK /\ ViewsHold(w) /\ Serves(w) /\ LoanCall(w) /\ Book!TypeOK /\ RepaymentsHaveLoans
  BY TypeParts DEF TransactionInv, WorkerInv
<1>1. /\ pc[w] = "commit" /\ request[w].op \in {"accept", "reject", "cancel"} /\ MayCommit(w)
      /\ WriteLoan(w, request[w].loan, NewStatus[request[w].op])
      /\ Finish(w)
      /\ UNCHANGED <<users, repayments, repaymentTrail, today>>
  BY DEF CommitDecision
<1>2. PICK l \in Loans : l = request[w].loan
  BY <1>0, <1>1, ServedCall, RequestKinds
<1>3. PICK s \in {"active", "rejected", "cancelled", "closed"} : s = NewStatus[request[w].op]
  BY <1>1 DEF NewStatus
<1>4. Book!Exists(loanView[w][l])
  BY <1>0, <1>1, <1>2 DEF LoanCall
<1>5. WriteLoan(w, l, s)
  BY <1>1, <1>2, <1>3
<1>6. /\ Book!MoveLoan(l, s)
      /\ loans' \in [Loans -> Book!LoanRows \cup {Book!NoRow}]
      /\ loanTrail' \in [Loans -> Seq(Book!LoanChanges)]
      /\ loanLock[l] = w /\ loanView[w][l] = loans[l] /\ Book!Exists(loans[l])
      /\ Book!Exists(loans'[l]) /\ loans'[l].borrower = loans[l].borrower
      /\ \A k \in Loans \ {l} : loans'[k] = loans[k]
  BY <1>4, <1>5, WrittenLoan
<1>7. Book!AcceptLoan(l) \/ Book!RejectLoan(l) \/ Book!CancelLoan(l)
  <2>1. CASE request[w].op = "accept"
    BY <1>0, <1>1, <1>2, <1>3, <1>6, <2>1
       DEF LoanCall, MayCommit, NewStatus, Book!AcceptLoan, Book!BorrowerCalls
  <2>2. CASE request[w].op = "reject"
    BY <1>0, <1>1, <1>2, <1>3, <1>6, <2>2
       DEF LoanCall, MayCommit, NewStatus, Book!RejectLoan, Book!BorrowerCalls
  <2>3. CASE request[w].op = "cancel"
    BY <1>1, <1>2, <1>3, <1>6, <2>3
       DEF MayCommit, NewStatus, Book!CancelLoan, Book!Cancellable
  <2> QED
    BY <1>1, <2>1, <2>2, <2>3
<1>8. Book!TypeOK'
  BY <1>0, <1>1, <1>6 DEF Book!TypeOK
<1>9. RepaymentsHaveLoans'
  <2>1. \A k \in Loans : Book!Exists(loans[k]) => Book!Exists(loans'[k])
    BY <1>6
  <2> QED
    BY <1>0, <1>1, <2>1, RowTypes DEF RepaymentsHaveLoans, Book!RepaymentRows
<1>10. ASSUME NEW v \in Workers \ {w} PROVE RowsKept(v)
  BY <1>1, <1>6 DEF RowsKept
<1> QED
  BY <1>1, <1>7, <1>8, <1>9, <1>10, EndOfCall DEF Book!Next

\* The commit of an installment is a step of the book.
LEMMA InstallmentStep ==
    ASSUME TransactionInv, NEW w \in Workers, CommitInstallment(w)
    PROVE  TransactionInv' /\ Book!Next
<1>0. TypeOK /\ ViewsHold(w) /\ Serves(w) /\ LoanCall(w) /\ Book!TypeOK /\ RepaymentsHaveLoans
  BY TypeParts DEF TransactionInv, WorkerInv
<1>1. /\ pc[w] = "commit" /\ request[w].op = "add" /\ MayCommit(w) /\ Finish(w)
      /\ UNCHANGED <<users, loans, loanTrail, today>>
  BY DEF CommitInstallment
<1>2. request[w] \in Requests
  BY <1>0, <1>1, ServedCall
<1>3. PICK l \in Loans, i \in Installments, d \in Book!Days, a \in Amounts :
        /\ l = request[w].loan /\ i = request[w].installment
        /\ d = request[w].due_date /\ a = request[w].amount_due
  BY <1>1, <1>2, RequestKinds
<1> DEFINE row == [status |-> "scheduled", loan |-> l, installment |-> i, due_date |-> d,
                   amount_due |-> a, amount_paid |-> 0]
<1>4. PICK r \in Repayments :
        /\ ~Book!Exists(repayments[r])
        /\ repayments' = [repayments EXCEPT ![r] = row]
        /\ repaymentTrail' = [repaymentTrail EXCEPT ![r] =
               Append(@, Book!Change("none", "scheduled"))]
  BY <1>1, <1>3 DEF CommitInstallment
<1>5. /\ Book!Exists(loanView[w][l]) /\ loanView[w][l] = loans[l] /\ loanLock[l] = w
      /\ Book!Exists(loans[l]) /\ Taken(w) = {}
  BY <1>0, <1>1, <1>3 DEF LoanCall, ViewsHold
<1>6. Book!CreateRepayment(r, l, i, d, a)
  <2>1. Book!InstallmentFree(l, i)
    BY <1>3, <1>5 DEF Taken, Book!InstallmentFree
  <2>2. loans[l].status \notin Book!Finished
    BY <1>1, <1>3, <1>5 DEF MayCommit
  <2> QED
    BY <1>1, <1>4, <1>5, <2>1, <2>2 DEF Book!CreateRepayment
<1>7. row \in Book!RepaymentRows /\ row.loan = l /\ Book!Exists(row)
  BY DEF Book!RepaymentRows, Book!RepaymentStatus, Book!Exists
<1> HIDE DEF row
<1>8. /\ repayments' \in [Repayments -> Book!RepaymentRows \cup {Book!NoRow}]
      /\ repayments'[r] = row
      /\ \A q \in Repayments \ {r} : repayments'[q] = repayments[q]
  BY <1>0, <1>4, <1>7 DEF Book!TypeOK
<1>9. repaymentTrail' \in [Repayments -> Seq(Book!RepaymentChanges)]
  <2>1. repaymentTrail \in [Repayments -> Seq(Book!RepaymentChanges)]
    BY <1>0 DEF Book!TypeOK
  <2>2. Book!Change("none", "scheduled") \in Book!RepaymentChanges
    BY DEF Book!Change, Book!RepaymentChanges, Book!RepaymentStatus
  <2>3. Append(repaymentTrail[r], Book!Change("none", "scheduled")) \in Seq(Book!RepaymentChanges)
    BY <2>1, <2>2
  <2> QED
    BY <1>4, <2>1, <2>3
<1>10. Book!TypeOK'
  BY <1>0, <1>1, <1>8, <1>9 DEF Book!TypeOK
<1>11. RepaymentsHaveLoans'
  BY <1>0, <1>1, <1>5, <1>7, <1>8 DEF RepaymentsHaveLoans
<1>12. ASSUME NEW v \in Workers \ {w} PROVE RowsKept(v)
  <2>1. ASSUME NEW k \in Loans, loanLock[k] = v, NEW q \in Repayments,
               Book!Exists(repayments'[q]), repayments'[q].loan = k
        PROVE  Book!Exists(repayments[q])
    BY <1>5, <1>7, <1>8, <2>1
  <2> QED
    BY <1>1, <1>4, <1>8, <2>1 DEF RowsKept
<1> QED
  BY <1>1, <1>6, <1>10, <1>11, <1>12, EndOfCall DEF Book!Next

\* The commit of a payment, with the settlement, is a step of the book.
LEMMA PaymentStep ==
    ASSUME TransactionInv, NEW w \in Workers, CommitPayment(w)
    PROVE  TransactionInv' /\ Book!Next
<1>0. TypeOK /\ ViewsHold(w) /\ Serves(w) /\ PayCall(w) /\ Book!TypeOK /\ RepaymentsHaveLoans
  BY TypeParts DEF TransactionInv, WorkerInv
<1>1. pc[w] = "commit" /\ request[w].op = "pay" /\ Finish(w) /\ UNCHANGED <<users, today>>
  BY DEF CommitPayment
<1>2. request[w] \in Requests
  BY <1>0, <1>1, ServedCall
<1>3. PICK r \in Repayments, amount \in Amounts : r = request[w].repayment /\ amount = request[w].amount
  BY <1>1, <1>2, RequestKinds
<1>4. /\ target[w] = r /\ Book!Exists(repaymentView[w][r])
      /\ repaymentView[w][r] = repayments[r] /\ repaymentLock[r] = w /\ Book!Exists(repayments[r])
  BY <1>0, <1>1, <1>3 DEF PayCall, ViewsHold
<1>5. repayments[r] \in Book!RepaymentRows
  BY <1>0, <1>4, RowTypes
<1>6. PICK l \in Loans : l = repayments[r].loan
  BY <1>5 DEF Book!RepaymentRows
<1>7. Book!Exists(loanView[w][l]) /\ loanView[w][l] = loans[l] /\ loanLock[l] = w /\ Book!Exists(loans[l])
  BY <1>0, <1>1, <1>3, <1>4, <1>6 DEF PayCall, ViewsHold
<1>8. MayPay(w) /\ (settles[w] <=> Book!Settles(r, amount))
  BY <1>0, <1>1, <1>3 DEF PayCall
<1> DEFINE new == Book!PaidRow(r, amount)
<1>9. PaidView(w) = new
  BY <1>1, <1>3, <1>4, PaidRowRead
<1>10. /\ new \in Book!RepaymentRows /\ Book!Exists(new)
       /\ new.loan = repayments[r].loan /\ new.due_date = repayments[r].due_date
       /\ new = [repayments[r] EXCEPT !.amount_paid = new.amount_paid, !.status = new.status]
  <2>1. repayments[r].amount_paid + amount \in Nat
    BY <1>5, AmountsAssumption DEF Book!RepaymentRows
  <2> QED
    BY <1>5, <2>1 DEF Book!PaidRow, Book!RepaymentRows, Book!RepaymentStatus, Book!Exists
<1>11. /\ repayments' = [repayments EXCEPT ![r].amount_paid = new.amount_paid, ![r].status = new.status]
       /\ repaymentTrail' = [repaymentTrail EXCEPT ![r] =
               IF repayments[r].status # new.status
               THEN Append(@, Book!Change(repayments[r].status, new.status))
               ELSE @]
       /\ IF settles[w] /\ loans[l].status # "closed"
          THEN WriteLoan(w, l, "closed")
          ELSE UNCHANGED <<loans, loanTrail>>
  BY <1>4, <1>6, <1>7, <1>9 DEF CommitPayment
<1> HIDE DEF new
<1>12. /\ repayments' = [repayments EXCEPT ![r] = new]
       /\ repayments' \in [Repayments -> Book!RepaymentRows \cup {Book!NoRow}]
       /\ repayments'[r] = new
       /\ \A q \in Repayments \ {r} : repayments'[q] = repayments[q]
  <2>1. repayments \in [Repayments -> Book!RepaymentRows \cup {Book!NoRow}]
    BY <1>0 DEF Book!TypeOK
  <2>2. repayments' = [repayments EXCEPT ![r] = [repayments[r] EXCEPT !.amount_paid = new.amount_paid, !.status = new.status]]
    BY <1>11, <2>1
  <2>3. repayments' = [repayments EXCEPT ![r] = new]
    BY <1>10, <2>2
  <2> QED
    BY <1>10, <2>1, <2>3
<1>13. repaymentTrail' \in [Repayments -> Seq(Book!RepaymentChanges)]
  <2>1. repaymentTrail \in [Repayments -> Seq(Book!RepaymentChanges)]
    BY <1>0 DEF Book!TypeOK
  <2>2. Book!Change(repayments[r].status, new.status) \in Book!RepaymentChanges
    BY <1>5, <1>10 DEF Book!Change, Book!RepaymentChanges, Book!RepaymentRows
  <2>3. Append(repaymentTrail[r], Book!Change(repayments[r].status, new.status)) \in Seq(Book!RepaymentChanges)
    BY <2>1, <2>2
  <2> QED
    BY <1>11, <2>1, <2>3
<1>14. /\ loans' \in [Loans -> Book!LoanRows \cup {Book!NoRow}]
       /\ loanTrail' \in [Loans -> Seq(Book!LoanChanges)]
       /\ Book!Exists(loans'[l]) /\ loans'[l].borrower = loans[l].borrower
       /\ \A k \in Loans \ {l} : loans'[k] = loans[k]
       /\ IF settles[w] /\ loans[l].status # "closed"
          THEN Book!MoveLoan(l, "closed")
          ELSE UNCHANGED <<loans, loanTrail>>
  <2>1. CASE settles[w] /\ loans[l].status # "closed"
    BY <1>7, <1>11, <2>1, WrittenLoan
  <2>2. CASE ~(settles[w] /\ loans[l].status # "closed")
    BY <1>0, <1>7, <1>11, <2>2 DEF Book!TypeOK
  <2> QED
    BY <2>1, <2>2
<1>15. Book!ApplyPayment(r, amount)
  <2>1. Book!Payable(r, amount)
    BY <1>3, <1>4, <1>6, <1>7, <1>8 DEF MayPay, Book!Payable
  <2>2. IF Book!Settles(r, amount) /\ loans[l].status # "closed"
        THEN Book!MoveLoan(l, "closed")
        ELSE UNCHANGED <<loans, loanTrail>>
    BY <1>8, <1>14
  <2> QED
    BY <1>1, <1>6, <1>11, <1>12, <2>1, <2>2 DEF Book!ApplyPayment, new
<1>16. Book!TypeOK'
  BY <1>0, <1>1, <1>12, <1>13, <1>14 DEF Book!TypeOK
<1>17. RepaymentsHaveLoans'
  <2>1. \A k \in Loans : Book!Exists(loans[k]) => Book!Exists(loans'[k])
    BY <1>14
  <2>2. \A q \in Repayments : Book!Exists(repayments'[q]) =>
            Book!Exists(repayments[q]) /\ repayments'[q].loan = repayments[q].loan
    BY <1>4, <1>10, <1>12
  <2> QED
    BY <1>0, <2>1, <2>2, RowTypes DEF RepaymentsHaveLoans, Book!RepaymentRows
<1>18. ASSUME NEW v \in Workers \ {w} PROVE RowsKept(v)
  <2>1. \A k \in Loans : Book!Exists(loans[k]) =>
            Book!Exists(loans'[k]) /\ loans'[k].borrower = loans[k].borrower
    BY <1>14
  <2>2. \A q \in Repayments : Book!Exists(repayments[q]) =>
            /\ Book!Exists(repayments'[q])
            /\ repayments'[q].loan = repayments[q].loan
            /\ repayments'[q].due_date = repayments[q].due_date
    BY <1>10, <1>12
  <2>3. ASSUME NEW k \in Loans, loanLock[k] = v
        PROVE  /\ k # l /\ loans'[k] = loans[k]
               /\ \A q \in Repayments :
                    /\ Book!Exists(repayments'[q]) /\ repayments'[q].loan = k => Book!Exists(repayments[q])
                    /\ Book!Exists(repayments[q]) /\ repayments[q].loan = k => repayments'[q] = repayments[q]
    BY <1>4, <1>6, <1>7, <1>10, <1>12, <1>14, <2>3
  <2>4. \A q \in Repayments : repaymentLock[q] = v => repayments'[q] = repayments[q]
    BY <1>4, <1>12
  <2> QED
    BY <1>1, <2>1, <2>2, <2>3, <2>4 DEF RowsKept
<1> QED
  BY <1>1, <1>15, <1>16, <1>17, <1>18, EndOfCall DEF Book!Next

\* The commit of the overdue job is a step of the book, or changes nothing.
LEMMA SweepStep ==
    ASSUME TransactionInv, NEW w \in Workers, CommitSweep(w)
    PROVE  TransactionInv' /\ (Book!Next \/ UNCHANGED book)
<1>0. TypeOK /\ ViewsHold(w) /\ Serves(w) /\ SweepCall(w) /\ Book!TypeOK /\ RepaymentsHaveLoans
  BY TypeParts DEF TransactionInv, WorkerInv
<1>1. /\ pc[w] = "commit" /\ request[w].op = "sweep" /\ Finish(w)
      /\ UNCHANGED <<users, loans, loanTrail, today>>
  BY DEF CommitSweep
<1>2. PICK marked \in SUBSET Repayments : marked = Markable(w)
  BY DEF Markable
<1>3. ASSUME NEW r \in marked
      PROVE  /\ Book!Exists(repayments[r]) /\ repaymentView[w][r] = repayments[r]
             /\ repaymentLock[r] = w /\ repayments[r] \in Book!RepaymentRows
             /\ repayments[r].due_date < today
             /\ repayments[r].status = "scheduled" /\ repayments[r].amount_paid = 0
             /\ loanLock[repayments[r].loan] = w
             /\ loans[repayments[r].loan].status \notin Book!Finished
  <2>1. r \in Repayments /\ repaymentView[w][r].status = "scheduled" /\ repaymentView[w][r].amount_paid = 0
        /\ loanView[w][repaymentView[w][r].loan].status \notin Book!Finished
    BY <1>2 DEF Markable
  <2>2. Book!Exists(repaymentView[w][r])
    BY <2>1 DEF Book!Exists
  <2>3. /\ repaymentView[w][r] = repayments[r] /\ repaymentLock[r] = w
        /\ Late(r) /\ Book!Exists(loanView[w][repaymentView[w][r].loan])
    BY <1>0, <1>1, <2>1, <2>2 DEF ViewsHold, SweepCall
  <2>4. repayments[r] \in Book!RepaymentRows /\ repayments[r].loan \in Loans
    BY <1>0, <2>1, <2>2, <2>3, RowTypes DEF Book!RepaymentRows
  <2>5. loanView[w][repayments[r].loan] = loans[repayments[r].loan] /\ loanLock[repayments[r].loan] = w
    BY <1>0, <2>3, <2>4 DEF ViewsHold
  <2> QED
    BY <2>1, <2>2, <2>3, <2>4, <2>5 DEF Late
<1>4. /\ repayments' = [r \in Repayments |->
             IF r \in marked THEN [repayments[r] EXCEPT !.status = "overdue"] ELSE repayments[r]]
      /\ repaymentTrail' = [r \in Repayments |->
             IF r \in marked
             THEN Append(repaymentTrail[r], Book!Change("scheduled", "overdue"))
             ELSE repaymentTrail[r]]
  BY <1>2, <1>3 DEF CommitSweep
<1>5. marked \subseteq Book!NewlyOverdue
  BY <1>3 DEF Book!NewlyOverdue
<1>6. Book!Next \/ UNCHANGED book
  <2>1. CASE marked = {}
    <3>1. repayments' = repayments /\ repaymentTrail' = repaymentTrail
      BY <1>0, <1>4, <2>1 DEF Book!TypeOK
    <3> QED
      BY <1>1, <3>1 DEF book
  <2>2. CASE marked # {}
    BY <1>1, <1>4, <1>5, <2>2 DEF Book!Next, Book!MarkOverdue
  <2> QED
    BY <2>1, <2>2
<1>7. ASSUME NEW r \in marked
      PROVE  /\ repayments'[r] \in Book!RepaymentRows /\ Book!Exists(repayments'[r])
             /\ repayments'[r].loan = repayments[r].loan
             /\ repayments'[r].due_date = repayments[r].due_date
  <2>1. repayments'[r] = [repayments[r] EXCEPT !.status = "overdue"]
    BY <1>4
  <2> QED
    BY <1>3, <2>1 DEF Book!RepaymentRows, Book!RepaymentStatus, Book!Exists
<1>8. \A r \in Repayments \ marked : repayments'[r] = repayments[r]
  BY <1>4
<1>9. repayments' \in [Repayments -> Book!RepaymentRows \cup {Book!NoRow}]
  <2>1. \A r \in Repayments : repayments'[r] \in Book!RepaymentRows \cup {Book!NoRow}
    BY <1>0, <1>7, <1>8 DEF Book!TypeOK
  <2>2. repayments' = [r \in Repayments |-> repayments'[r]]
    BY <1>4
  <2> QED
    BY <2>1, <2>2
<1>10. repaymentTrail' \in [Repayments -> Seq(Book!RepaymentChanges)]
  <2>1. repaymentTrail \in [Repayments -> Seq(Book!RepaymentChanges)]
    BY <1>0 DEF Book!TypeOK
  <2>2. Book!Change("scheduled", "overdue") \in Book!RepaymentChanges
    BY DEF Book!Change, Book!RepaymentChanges, Book!RepaymentStatus
  <2>3. \A r \in Repayments :
            Append(repaymentTrail[r], Book!Change("scheduled", "overdue")) \in Seq(Book!RepaymentChanges)
    BY <2>1, <2>2
  <2> QED
    BY <1>4, <2>1, <2>3
<1>11. Book!TypeOK'
  BY <1>0, <1>1, <1>9, <1>10 DEF Book!TypeOK
<1>12. RepaymentsHaveLoans'
  <2>1. \A q \in Repayments : Book!Exists(repayments'[q]) =>
            Book!Exists(repayments[q]) /\ repayments'[q].loan = repayments[q].loan
    BY <1>3, <1>7, <1>8
  <2> QED
    BY <1>0, <1>1, <2>1 DEF RepaymentsHaveLoans
<1>13. ASSUME NEW v \in Workers \ {w} PROVE RowsKept(v)
  <2>1. \A q \in Repayments : Book!Exists(repayments[q]) =>
            /\ Book!Exists(repayments'[q])
            /\ repayments'[q].loan = repayments[q].loan
            /\ repayments'[q].due_date = repayments[q].due_date
    BY <1>7, <1>8
  <2>2. ASSUME NEW k \in Loans, loanLock[k] = v, NEW q \in Repayments
        PROVE  /\ Book!Exists(repayments'[q]) /\ repayments'[q].loan = k => Book!Exists(repayments[q])
               /\ Book!Exists(repayments[q]) /\ repayments[q].loan = k => repayments'[q] = repayments[q]
    BY <1>3, <1>8, <2>2
  <2>3. \A q \in Repayments : repaymentLock[q] = v => repayments'[q] = repayments[q]
    BY <1>3, <1>8
  <2> QED
    BY <1>1, <2>1, <2>2, <2>3 DEF RowsKept
<1> QED
  BY <1>1, <1>6, <1>11, <1>12, <1>13, EndOfCall

\* What is committed beside these calls is a step of the book.
LEMMA ElsewhereStep ==
    ASSUME TransactionInv, Elsewhere
    PROVE  TransactionInv' /\ Book!Next
<1>0. TypeOK /\ Book!TypeOK /\ LocalTypes /\ RepaymentsHaveLoans
  BY TypeParts DEF TransactionInv
<1>1. UNCHANGED <<pc, local, locks>>
  BY DEF Elsewhere
<1>2. LocalTypes' /\ \A v \in Workers : Rests(v)
  BY <1>0, <1>1 DEF LocalTypes, Rests, local, locks
<1>3. SUFFICES ASSUME Book!TypeOK', RepaymentsHaveLoans', \A v \in Workers : RowsKept(v), Book!Next
               PROVE  TransactionInv'
  <2>1. ASSUME NEW u \in Users, Book!RegisterUser(u)
        PROVE  Book!TypeOK' /\ RepaymentsHaveLoans' /\ (\A v \in Workers : RowsKept(v)) /\ Book!Next
    <3>1. Book!TypeOK'
      BY <1>0, <2>1 DEF Book!RegisterUser, Book!TypeOK, Book!UserStates
    <3>2. RepaymentsHaveLoans'
      BY <1>0, <2>1 DEF Book!RegisterUser, RepaymentsHaveLoans
    <3>3. \A v \in Workers : RowsKept(v)
      BY <1>0, <2>1 DEF Book!RegisterUser, RowsKept, Book!TypeOK
    <3> QED
      BY <2>1, <3>1, <3>2, <3>3 DEF Book!Next
  <2>2. ASSUME NEW l \in Loans, NEW lender \in Users, NEW borrower \in Users,
               Book!CreateLoan(l, lender, borrower)
        PROVE  Book!TypeOK' /\ RepaymentsHaveLoans' /\ (\A v \in Workers : RowsKept(v)) /\ Book!Next
    <3> DEFINE status == IF users[borrower] = "active" THEN "pending_review" ELSE "pending_invite"
               row == [status |-> status, borrower |-> borrower, lender |-> lender]
    <3>1. status \in Book!LoanStatus
      BY DEF Book!LoanStatus
    <3>2. row \in Book!LoanRows /\ Book!Exists(row)
      BY DEF Book!LoanRows, Book!LoanStatus, Book!Exists
    <3>3. /\ ~Book!Exists(loans[l])
          /\ users' = [users EXCEPT ![borrower] = IF @ = "absent" THEN "invited" ELSE @]
          /\ loans' = [loans EXCEPT ![l] = row]
          /\ loanTrail' = [loanTrail EXCEPT ![l] = Append(@, Book!Change("none", status))]
          /\ UNCHANGED <<repayments, repaymentTrail, today>>
      BY <2>2 DEF Book!CreateLoan
    <3> HIDE DEF row, status
    <3>4. loanTrail' \in [Loans -> Seq(Book!LoanChanges)]
      <4>1. loanTrail \in [Loans -> Seq(Book!LoanChanges)]
        BY <1>0 DEF Book!TypeOK
      <4>2. Book!Change("none", status) \in Book!LoanChanges
        BY <3>1 DEF Book!Change, Book!LoanChanges
      <4>3. Append(loanTrail[l], Book!Change("none", status)) \in Seq(Book!LoanChanges)
        BY <4>1, <4>2
      <4> QED
        BY <3>3, <4>1, <4>3
    <3>5. /\ loans' \in [Loans -> Book!LoanRows \cup {Book!NoRow}]
          /\ users' \in [Users -> Book!UserStates]
          /\ \A k \in Loans : Book!Exists(loans[k]) => loans'[k] = loans[k]
          /\ \A u \in Users : users[u] = "active" => users'[u] = "active"
      BY <1>0, <3>2, <3>3 DEF Book!TypeOK, Book!UserStates
    <3>6. Book!TypeOK'
      BY <1>0, <3>3, <3>4, <3>5 DEF Book!TypeOK
    <3>7. RepaymentsHaveLoans'
      BY <1>0, <3>3, <3>5, RowTypes DEF RepaymentsHaveLoans, Book!RepaymentRows
    <3>8. \A v \in Workers : RowsKept(v)
      BY <3>3, <3>5 DEF RowsKept
    <3> QED
      BY <2>2, <3>6, <3>7, <3>8 DEF Book!Next
  <2>3. ASSUME Book!NextDay
        PROVE  Book!TypeOK' /\ RepaymentsHaveLoans' /\ (\A v \in Workers : RowsKept(v)) /\ Book!Next
    <3>1. today \in Int /\ today' = today + 1 /\ UNCHANGED <<users, loans, repayments, loanTrail, repaymentTrail>>
      BY <1>0, <2>3 DEF Book!NextDay, Book!TypeOK, Book!Days
    <3>2. Book!TypeOK'
      BY <1>0, <2>3, <3>1, LastDayAssumption DEF Book!NextDay, Book!TypeOK, Book!Days
    <3>3. RepaymentsHaveLoans'
      BY <1>0, <3>1 DEF RepaymentsHaveLoans
    <3>4. \A v \in Workers : RowsKept(v)
      BY <3>1 DEF RowsKept
    <3> QED
      BY <2>3, <3>2, <3>3, <3>4 DEF Book!Next
  <2> QED
    BY <2>1, <2>2, <2>3 DEF Elsewhere
<1>4. \A v \in Workers : WorkerInv(v)'
  BY <1>2, <1>3, RestingWorker
<1>5. TypeOK'
  BY <1>2, <1>3 DEF TypeOK, LocalTypes
<1> QED
  BY <1>3, <1>4, <1>5 DEF TransactionInv

(***************************************************************************)
(* The theorems.                                                           *)
(***************************************************************************)

\* The invariant holds at first, and the committed rows are those of an empty book.
LEMMA TransactionInvInit == Init => TransactionInv /\ Book!Init
<1> SUFFICES ASSUME Init PROVE TransactionInv /\ Book!Init
  OBVIOUS
<1>1. Book!Init
  BY DEF Init
<1>2. Book!TypeOK
  <2>1. <<>> \in Seq(Book!LoanChanges) /\ <<>> \in Seq(Book!RepaymentChanges) /\ today \in Book!Days
    BY <1>1, LastDayAssumption DEF Book!Init, Book!Days
  <2> QED
    BY <1>1, <2>1 DEF Book!Init, Book!TypeOK, Book!UserStates
<1>3. /\ NoLoans \in [Loans -> Book!LoanRows \cup {Book!NoRow}]
      /\ NoRepayments \in [Repayments -> Book!RepaymentRows \cup {Book!NoRow}]
      /\ \A l \in Loans : ~Book!Exists(NoLoans[l])
      /\ \A r \in Repayments : ~Book!Exists(NoRepayments[r])
  BY DEF NoLoans, NoRepayments, Book!Exists, Book!NoRow
<1> HIDE DEF NoLoans, NoRepayments
<1>4. LocalTypes
  BY <1>3 DEF Init, LocalTypes, Steps
<1>5. RepaymentsHaveLoans
  BY <1>1 DEF Book!Init, RepaymentsHaveLoans, Book!Exists, Book!NoRow
<1>6. \A w \in Workers : WorkerInv(w)
  BY <1>3, NoneAssumption
     DEF Init, WorkerInv, ViewsHold, Serves, LoanCall, PayCall, SweepCall, LockOrder
<1> QED
  BY <1>1, <1>2, <1>4, <1>5, <1>6, TypeParts DEF TransactionInv

\* One step: the invariant is kept, and the rows make a step of LoanBook or none.
LEMMA TransactionInvNext ==
    TransactionInv /\ [Next]_vars => TransactionInv' /\ [Book!Next]_(Book!vars)
<1> SUFFICES ASSUME TransactionInv, [Next]_vars
             PROVE  TransactionInv' /\ (Book!Next \/ UNCHANGED book)
  BY DEF book, Book!vars
<1>1. CASE Elsewhere
  BY <1>1, ElsewhereStep
<1>2. ASSUME NEW w \in Workers, NEW req \in Requests, Start(w, req)
      PROVE  TransactionInv' /\ UNCHANGED book
  BY <1>2, StartStep DEF Start
<1>3. ASSUME NEW w \in Workers, LockRepayment(w) \/ LockLoan(w)
      PROVE  TransactionInv' /\ UNCHANGED book
  BY <1>3, LockRepaymentStep, LockLoanStep DEF LockRepayment, LockLoan
<1>4. ASSUME NEW w \in Workers, NextRow(w) \/ ScanDone(w) \/ Lookup(w) \/ Check(w)
      PROVE  TransactionInv' /\ UNCHANGED book
  BY <1>4, ScanStep, LookupStep, CheckStep DEF NextRow, ScanDone, Lookup, Check
<1>5. ASSUME NEW w \in Workers, LockTaken(w) \/ Refuse(w) \/ DeadlockAbort(w) \/ Fail(w)
      PROVE  TransactionInv' /\ UNCHANGED book
  BY <1>5, EndStep
<1>6. ASSUME NEW w \in Workers,
             CommitDecision(w) \/ CommitInstallment(w) \/ CommitPayment(w) \/ CommitSweep(w)
      PROVE  TransactionInv' /\ (Book!Next \/ UNCHANGED book)
  BY <1>6, DecisionStep, InstallmentStep, PaymentStep, SweepStep
<1>7. CASE UNCHANGED vars
  <2>1. UNCHANGED book /\ UNCHANGED <<pc, local, locks>>
    BY <1>7 DEF vars
  <2>2. LocalTypes' /\ \A v \in Workers : Rests(v)
    BY <2>1, TypeParts DEF LocalTypes, Rests, local, locks, TransactionInv
  <2>3. Book!TypeOK' /\ RepaymentsHaveLoans' /\ \A v \in Workers : WorkerInv(v)'
    BY <2>1, <2>2, UnchangedRows, RestingWorker
  <2> QED
    BY <2>1, <2>2, <2>3 DEF TransactionInv, TypeOK, LocalTypes
<1> QED
  BY <1>1, <1>2, <1>3, <1>4, <1>5, <1>6, <1>7 DEF Next, Lock, Proceed

\* Every reachable state is well typed, for any constants.
THEOREM TypeCorrect == Spec => []TypeOK
<1>1. TransactionInv => TypeOK
  BY DEF TransactionInv
<1> QED
  BY <1>1, TransactionInvInit, TransactionInvNext, PTL DEF Spec

\* A service call that commits decides on what the tables hold when it commits,
\* although it read the rows earlier and the other repayments without a lock.
THEOREM CurrentRows == Spec => []DecidesOnCurrentRows
<1>1. TransactionInv => DecidesOnCurrentRows
  <2> SUFFICES ASSUME TransactionInv, NEW w \in Workers, pc[w] = "commit"
               PROVE  /\ \A l \in Loans : Book!Exists(loanView[w][l]) => loanView[w][l] = loans[l]
                      /\ \A r \in Repayments :
                            Book!Exists(repaymentView[w][r]) => repaymentView[w][r] = repayments[r]
                      /\ request[w].op = "add" => Taken(w) = {}
                      /\ request[w].op = "pay" =>
                            (settles[w] <=> Book!Settles(target[w], request[w].amount))
    BY DEF DecidesOnCurrentRows
  <2>1. ViewsHold(w) /\ LoanCall(w) /\ PayCall(w)
    BY DEF TransactionInv, WorkerInv
  <2> QED
    BY <2>1 DEF ViewsHold, LoanCall, PayCall
<1> QED
  BY <1>1, TransactionInvInit, TransactionInvNext, PTL DEF Spec

\* Decisions and payments alone never wait for each other in a circle, however
\* many workers and rows there are.
THEOREM DeadlocksNeedInstallmentsOrSweeps == Spec => []OnlyInstallmentsAndSweepsDeadlock
<1>1. TransactionInv => OnlyInstallmentsAndSweepsDeadlock
  <2> SUFFICES ASSUME TransactionInv, NEW S \in SUBSET Workers, Circle(S),
                      \A w \in S : request[w].op \notin {"add", "sweep"}
               PROVE  FALSE
    BY DEF OnlyInstallmentsAndSweepsDeadlock
  <2>1. TypeOK /\ \A w \in S : Serves(w) /\ LockOrder(w) /\ PayCall(w)
    BY DEF TransactionInv, WorkerInv
  <2>2. ASSUME NEW w \in S
        PROVE  /\ Blocker(w) \in S
               /\ \/ pc[w] = "lockRepayment" /\ request[w].op = "pay"
                  \/ pc[w] = "lockLoan"
               /\ \A l \in Loans : loanLock[l] # w
    <3>1. Blocker(w) \in S /\ Blocker(w) # None
      BY DEF Circle, Blocked
    <3>2. pc[w] \in {"lockRepayment", "lockTaken", "lockLoan"}
      BY <3>1 DEF Blocker
    <3>3. request[w].op \in {"accept", "reject", "cancel", "pay"}
      BY <2>1, <3>2, ServedCall, RequestKinds
    <3> QED
      BY <2>1, <3>1, <3>2, <3>3 DEF LockOrder, PayCall
  <2>3. ASSUME NEW w \in S PROVE pc[w] = "lockRepayment" /\ request[w].op = "pay"
    <3> SUFFICES ASSUME pc[w] = "lockLoan" PROVE FALSE
      BY <2>2
    <3>1. Blocker(w) = loanLock[LoanOf(w)] /\ LoanOf(w) \in Loans
      BY AtLockLoan DEF Blocker
    <3> QED
      BY <2>2, <3>1
  <2>4. ASSUME NEW w \in S PROVE FALSE
    <3>1. target[w] \in Repayments /\ Blocker(w) = repaymentLock[target[w]] /\ Blocker(w) \in S
      BY <2>2, <2>3, AtLockRepayment DEF Blocker
    <3> QED
      BY <2>1, <2>3, <3>1 DEF LockOrder
  <2> QED
    BY <2>4 DEF Circle
<1> QED
  BY <1>1, TransactionInvInit, TransactionInvNext, PTL DEF Spec

\* Workers that run the service calls side by side keep the loan book: what they
\* commit is a behaviour of LoanBook, for which its own theorems hold.
THEOREM Refinement == Spec => KeepsTheBook
<1>1. Init => Book!Init
  BY TransactionInvInit
<1>2. TransactionInv /\ [Next]_vars => [Book!Next]_(Book!vars)
  BY TransactionInvNext
<1>3. TransactionInv /\ [Next]_vars => TransactionInv'
  BY TransactionInvNext
<1> QED
  BY <1>1, <1>2, <1>3, TransactionInvInit, PTL DEF Spec, KeepsTheBook, Book!Spec

(***************************************************************************)
(* What this says of the committed rows.                                   *)
(***************************************************************************)

\* The theorems about LoanBook, read for the rows that workers commit.
Theory == INSTANCE LoanBookProofs WITH
    users <- users, loans <- loans, repayments <- repayments,
    loanTrail <- loanTrail, repaymentTrail <- repaymentTrail, today <- today

\* Book and Theory define the same operators of the same rows, each under its own name.
LEMMA SameSteps == Book!Next <=> Theory!Next
<1>1. \A u \in Users : Book!RegisterUser(u) <=> Theory!RegisterUser(u)
  BY DEF Book!RegisterUser, Theory!RegisterUser
<1>2. \A l \in Loans, x \in Users, y \in Users : Book!CreateLoan(l, x, y) <=> Theory!CreateLoan(l, x, y)
  BY DEF Book!CreateLoan, Theory!CreateLoan, Book!Change, Theory!Change, Book!NoRow,
         Theory!NoRow, Book!Exists, Theory!Exists
<1>3. \A l \in Loans : Book!AcceptLoan(l) <=> Theory!AcceptLoan(l)
  BY DEF Book!AcceptLoan, Theory!AcceptLoan, Book!BorrowerCalls, Theory!BorrowerCalls,
         Book!Pending, Theory!Pending, Book!MoveLoan, Theory!MoveLoan, Book!Change,
         Theory!Change, Book!Exists, Theory!Exists
<1>4. \A l \in Loans : Book!RejectLoan(l) <=> Theory!RejectLoan(l)
  BY DEF Book!RejectLoan, Theory!RejectLoan, Book!BorrowerCalls, Theory!BorrowerCalls,
         Book!Pending, Theory!Pending, Book!MoveLoan, Theory!MoveLoan, Book!Change,
         Theory!Change, Book!Exists, Theory!Exists
<1>5. \A l \in Loans : Book!CancelLoan(l) <=> Theory!CancelLoan(l)
  BY DEF Book!CancelLoan, Theory!CancelLoan, Book!Cancellable, Theory!Cancellable,
         Book!MoveLoan, Theory!MoveLoan, Book!Change, Theory!Change, Book!Exists,
         Theory!Exists
<1>6. \A r \in Repayments, l \in Loans, i \in Installments, d \in Book!Days, a \in Amounts :
          Book!CreateRepayment(r, l, i, d, a) <=> Theory!CreateRepayment(r, l, i, d, a)
  BY DEF Book!CreateRepayment, Theory!CreateRepayment, Book!InstallmentFree,
         Theory!InstallmentFree, Book!RepaymentsOf, Theory!RepaymentsOf, Book!Finished,
         Theory!Finished, Book!Change, Theory!Change, Book!Exists, Theory!Exists
<1>7. \A r \in Repayments, a \in Amounts : Book!ApplyPayment(r, a) <=> Theory!ApplyPayment(r, a)
  BY DEF Book!ApplyPayment, Theory!ApplyPayment, Book!Payable, Theory!Payable, Book!PaidRow,
         Theory!PaidRow, Book!Settles, Theory!Settles, Book!RepaymentsOf,
         Theory!RepaymentsOf, Book!MoveLoan, Theory!MoveLoan, Book!Change, Theory!Change,
         Book!Exists, Theory!Exists
<1>8. \A rows \in SUBSET Repayments : Book!MarkOverdue(rows) <=> Theory!MarkOverdue(rows)
  BY DEF Book!MarkOverdue, Theory!MarkOverdue, Book!NewlyOverdue, Theory!NewlyOverdue,
         Book!Finished, Theory!Finished, Book!Change, Theory!Change, Book!Exists,
         Theory!Exists
<1>9. Book!NextDay <=> Theory!NextDay
  BY DEF Book!NextDay, Theory!NextDay
<1> QED
  BY <1>1, <1>2, <1>3, <1>4, <1>5, <1>6, <1>7, <1>8, <1>9
     DEF Book!Next, Theory!Next, Book!Days, Theory!Days

\* The instance of the theorems speaks of the same book.
LEMMA SameSpec == Book!Spec => Theory!Spec
<1>1. Book!Init <=> Theory!Init
  BY DEF Book!Init, Theory!Init, Book!NoRow, Theory!NoRow
<1>2. [Book!Next]_(Book!vars) => [Theory!Next]_(Theory!vars)
  BY SameSteps DEF Book!vars, Theory!vars
<1> QED
  BY <1>1, <1>2, PTL DEF Book!Spec, Theory!Spec

\* LoanBook's invariants.
BookIsRight ==
    /\ Book!TypeOK
    /\ Book!RowsReferToRows
    /\ Book!StatusTellsPayment
    /\ Book!OneRowPerInstallment
    /\ Book!ClosedIffSettled
    /\ Book!TrailsAccountForStatus

\* And of the same invariants.
LEMMA SameInvariants ==
    Theory!TypeOK /\ Theory!RowsReferToRows /\ Theory!StatusTellsPayment
        /\ Theory!OneRowPerInstallment /\ Theory!ClosedIffSettled
        /\ Theory!TrailsAccountForStatus
      => BookIsRight
<1>1. Theory!TypeOK => Book!TypeOK
  BY DEF Book!TypeOK, Theory!TypeOK, Book!UserStates, Theory!UserStates, Book!LoanRows,
         Theory!LoanRows, Book!NoRow, Theory!NoRow, Book!RepaymentRows,
         Theory!RepaymentRows, Book!LoanChanges, Theory!LoanChanges, Book!RepaymentChanges,
         Theory!RepaymentChanges, Book!Days, Theory!Days, Book!LoanStatus,
         Theory!LoanStatus, Book!RepaymentStatus, Theory!RepaymentStatus
<1>2. Theory!RowsReferToRows => Book!RowsReferToRows
  BY DEF Book!RowsReferToRows, Theory!RowsReferToRows, Book!Exists, Theory!Exists
<1>3. Theory!StatusTellsPayment => Book!StatusTellsPayment
  BY DEF Book!StatusTellsPayment, Theory!StatusTellsPayment, Book!Exists, Theory!Exists
<1>4. Theory!OneRowPerInstallment => Book!OneRowPerInstallment
  BY DEF Book!OneRowPerInstallment, Theory!OneRowPerInstallment, Book!Exists, Theory!Exists
<1>5. Theory!ClosedIffSettled => Book!ClosedIffSettled
  BY DEF Book!ClosedIffSettled, Theory!ClosedIffSettled, Book!Exists, Theory!Exists,
         Book!RepaymentsOf, Theory!RepaymentsOf
<1>6. Theory!TrailsAccountForStatus => Book!TrailsAccountForStatus
  BY DEF Book!TrailsAccountForStatus, Theory!TrailsAccountForStatus, Book!Accounts,
         Theory!Accounts
<1> QED
  BY <1>1, <1>2, <1>3, <1>4, <1>5, <1>6 DEF BookIsRight

\* However calls run side by side, the committed rows satisfy every invariant that is
\* proved of LoanBook.
THEOREM CommittedRowsAreRight == Spec => []BookIsRight
<1>1. Theory!Spec => []Theory!TypeOK
  BY Theory!TypeCorrect, AmountsAssumption, LastDayAssumption
<1>2. Theory!Spec => []Theory!RowsReferToRows
  BY Theory!ReferencesCorrect, AmountsAssumption, LastDayAssumption
<1>3. Theory!Spec => []Theory!StatusTellsPayment
  BY Theory!PaymentsCorrect, AmountsAssumption, LastDayAssumption
<1>4. Theory!Spec => []Theory!OneRowPerInstallment
  BY Theory!InstallmentsUnique, AmountsAssumption, LastDayAssumption
<1>5. Theory!Spec => []Theory!ClosedIffSettled
  BY Theory!SettlementCorrect, AmountsAssumption, LastDayAssumption
<1>6. Theory!Spec => []Theory!TrailsAccountForStatus
  BY Theory!TrailsCorrect, AmountsAssumption, LastDayAssumption
<1>7. Spec => Theory!Spec
  BY Refinement, SameSpec, PTL DEF KeepsTheBook
<1> QED
  BY <1>1, <1>2, <1>3, <1>4, <1>5, <1>6, <1>7, SameInvariants, PTL

\* However calls run side by side, what is committed leaves a finished loan as it is and
\* loses no money that was paid.
THEOREM CommittedRowsAreKept == Spec => Book!FinishedLoansAreFrozen /\ Book!PaymentsAreKept
<1>1. Theory!Spec => Theory!FinishedLoansAreFrozen
  BY Theory!FinishedFrozen, AmountsAssumption, LastDayAssumption
<1>2. Theory!Spec => Theory!PaymentsAreKept
  BY Theory!MoneyKept, AmountsAssumption, LastDayAssumption
<1>3. Spec => Theory!Spec
  BY Refinement, SameSpec, PTL DEF KeepsTheBook
<1>4. Theory!FinishedLoansAreFrozen => Book!FinishedLoansAreFrozen
  BY PTL DEF Book!FinishedLoansAreFrozen, Theory!FinishedLoansAreFrozen,
         Book!FinishedLoanIsFrozen, Theory!FinishedLoanIsFrozen, Book!RepaymentsOf,
         Theory!RepaymentsOf, Book!Exists, Theory!Exists, Book!Finished, Theory!Finished,
         Book!vars, Theory!vars
<1>5. Theory!PaymentsAreKept => Book!PaymentsAreKept
  BY PTL DEF Book!PaymentsAreKept, Theory!PaymentsAreKept, Book!Exists, Theory!Exists,
         Book!vars, Theory!vars
<1> QED
  BY <1>1, <1>2, <1>3, <1>4, <1>5, PTL
=============================================================================
