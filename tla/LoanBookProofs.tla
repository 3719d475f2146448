--------------------------- MODULE LoanBookProofs ---------------------------
(***************************************************************************)
(* Theorems about LoanBook, for any sets of users, loans, repayments,      *)
(* installments and amounts and any length of the calendar.                *)
(***************************************************************************)
EXTENDS LoanBook, TLAPS

(***************************************************************************)
(* Facts about the operators.                                              *)
(***************************************************************************)

\* A loan row that exists is a record of LoanRows.
LEMMA LoanRow ==
    ASSUME TypeOK, NEW l \in Loans, Exists(loans[l])
    PROVE  loans[l] \in LoanRows
BY DEF TypeOK, Exists, NoRow

\* A repayment row that exists is a record of RepaymentRows.
LEMMA RepaymentRow ==
    ASSUME TypeOK, NEW r \in Repayments, Exists(repayments[r])
    PROVE  repayments[r] \in RepaymentRows
BY DEF TypeOK, Exists, NoRow

\* Moving an existing loan keeps the types of the loan table and its trail.
LEMMA MoveLoanType ==
    ASSUME TypeOK, NEW l \in Loans, Exists(loans[l]), NEW s \in LoanStatus, MoveLoan(l, s)
    PROVE  /\ loans' \in [Loans -> LoanRows \cup {NoRow}]
           /\ loanTrail' \in [Loans -> Seq(LoanChanges)]
<1>1. loans[l] \in LoanRows
  BY LoanRow
<1>2. [loans[l] EXCEPT !.status = s] \in LoanRows
  BY <1>1 DEF LoanRows
<1>3. Change(loans[l].status, s) \in LoanChanges
  BY <1>1 DEF LoanRows, Change, LoanChanges
<1>4. loanTrail \in [Loans -> Seq(LoanChanges)]
  BY DEF TypeOK
<1>5. Append(loanTrail[l], Change(loans[l].status, s)) \in Seq(LoanChanges)
  BY <1>3, <1>4
<1>6. loans' \in [Loans -> LoanRows \cup {NoRow}]
  BY <1>2 DEF MoveLoan, TypeOK
<1>7. loanTrail' \in [Loans -> Seq(LoanChanges)]
  BY <1>4, <1>5 DEF MoveLoan
<1> QED
  BY <1>6, <1>7

\* What a payment that passes the guards makes of a repayment row.
LEMMA PaidRowType ==
    ASSUME TypeOK, NEW r \in Repayments, NEW amount \in Amounts, Payable(r, amount)
    PROVE  /\ repayments[r] \in RepaymentRows
           /\ PaidRow(r, amount) \in RepaymentRows
           /\ PaidRow(r, amount).status \in {"paid", "partial"}
           /\ PaidRow(r, amount).amount_paid = repayments[r].amount_paid + amount
           /\ PaidRow(r, amount).status = "paid"
                <=> repayments[r].amount_paid + amount = repayments[r].amount_due
           /\ \A f \in {"loan", "installment", "due_date", "amount_due"} :
                PaidRow(r, amount)[f] = repayments[r][f]
<1>1. repayments[r] \in RepaymentRows
  BY RepaymentRow DEF Payable
<1>2. repayments[r].amount_paid + amount \in Nat
  BY <1>1, AmountsAssumption DEF RepaymentRows
<1> QED
  BY <1>1, <1>2 DEF PaidRow, RepaymentRows, RepaymentStatus

(***************************************************************************)
(* Type correctness.                                                       *)
(***************************************************************************)

\* The types hold of the empty book.
LEMMA TypeInit == Init => TypeOK
<1> SUFFICES ASSUME Init PROVE TypeOK
  OBVIOUS
<1>1. <<>> \in Seq(LoanChanges) /\ <<>> \in Seq(RepaymentChanges)
  OBVIOUS
<1>2. today \in Days
  BY LastDayAssumption DEF Init, Days
<1> QED
  BY <1>1, <1>2 DEF Init, TypeOK, UserStates

\* Steps keep the types; a payment reads a row of an existing loan.
LEMMA TypeNext == TypeOK /\ RowsReferToRows /\ [Next]_vars => TypeOK'
<1> SUFFICES ASSUME TypeOK, RowsReferToRows, [Next]_vars PROVE TypeOK'
  OBVIOUS
<1>1. ASSUME NEW u \in Users, RegisterUser(u) PROVE TypeOK'
  BY <1>1 DEF TypeOK, RegisterUser, UserStates
<1>2. ASSUME NEW l \in Loans, NEW lender \in Users, NEW borrower \in Users,
             CreateLoan(l, lender, borrower)
      PROVE  TypeOK'
  <2> DEFINE status == IF users[borrower] = "active" THEN "pending_review" ELSE "pending_invite"
             row == [status |-> status, borrower |-> borrower, lender |-> lender]
  <2>1. row \in LoanRows
    BY DEF LoanRows, LoanStatus
  <2>2. Change("none", status) \in LoanChanges
    BY DEF Change, LoanChanges, LoanStatus
  <2> HIDE DEF status, row
  <2>3. loans' = [loans EXCEPT ![l] = row] /\ loanTrail' = [loanTrail EXCEPT ![l] = Append(@, Change("none", status))]
    BY <1>2 DEF CreateLoan, row, status
  <2>4. loanTrail \in [Loans -> Seq(LoanChanges)]
    BY DEF TypeOK
  <2>5. loanTrail' \in [Loans -> Seq(LoanChanges)]
    BY <2>2, <2>3, <2>4
  <2>6. users' \in [Users -> UserStates]
    BY <1>2 DEF CreateLoan, TypeOK, UserStates
  <2> QED
    BY <1>2, <2>1, <2>3, <2>5, <2>6 DEF TypeOK, CreateLoan
<1>3. ASSUME NEW l \in Loans, AcceptLoan(l) PROVE TypeOK'
  BY <1>3, MoveLoanType DEF TypeOK, AcceptLoan, BorrowerCalls, LoanStatus
<1>4. ASSUME NEW l \in Loans, RejectLoan(l) PROVE TypeOK'
  BY <1>4, MoveLoanType DEF TypeOK, RejectLoan, BorrowerCalls, LoanStatus
<1>5. ASSUME NEW l \in Loans, CancelLoan(l) PROVE TypeOK'
  BY <1>5, MoveLoanType DEF TypeOK, CancelLoan, LoanStatus
<1>6. ASSUME NEW r \in Repayments, NEW l \in Loans, NEW i \in Installments,
             NEW d \in Days, NEW a \in Amounts, CreateRepayment(r, l, i, d, a)
      PROVE  TypeOK'
  <2>1. [status |-> "scheduled", loan |-> l, installment |-> i,
         due_date |-> d, amount_due |-> a, amount_paid |-> 0] \in RepaymentRows
    BY DEF RepaymentRows, RepaymentStatus
  <2>2. Change("none", "scheduled") \in RepaymentChanges
    BY DEF Change, RepaymentChanges, RepaymentStatus
  <2>3. repaymentTrail \in [Repayments -> Seq(RepaymentChanges)]
    BY DEF TypeOK
  <2>4. repaymentTrail' \in [Repayments -> Seq(RepaymentChanges)]
    BY <1>6, <2>2, <2>3 DEF CreateRepayment
  <2>5. repayments' \in [Repayments -> RepaymentRows \cup {NoRow}]
    BY <1>6, <2>1 DEF CreateRepayment, TypeOK
  <2> QED
    BY <1>6, <2>4, <2>5 DEF CreateRepayment, TypeOK
<1>7. ASSUME NEW r \in Repayments, NEW a \in Amounts, ApplyPayment(r, a) PROVE TypeOK'
  <2> DEFINE l == repayments[r].loan
             new == PaidRow(r, a)
  <2>1. Payable(r, a)
    BY <1>7 DEF ApplyPayment
  <2>2. repayments[r] \in RepaymentRows /\ new \in RepaymentRows
    BY <2>1, PaidRowType
  <2>3. l \in Loans /\ Change(repayments[r].status, new.status) \in RepaymentChanges
    BY <2>2 DEF RepaymentRows, Change, RepaymentChanges
  <2>4. repaymentTrail \in [Repayments -> Seq(RepaymentChanges)]
    BY DEF TypeOK
  <2>5. repaymentTrail' \in [Repayments -> Seq(RepaymentChanges)]
    BY <1>7, <2>3, <2>4 DEF ApplyPayment
  <2>6. repayments' \in [Repayments -> RepaymentRows \cup {NoRow}]
    BY <1>7, <2>2 DEF ApplyPayment, TypeOK
  <2>7. Exists(loans[l])
    BY <2>1 DEF RowsReferToRows, Payable
  <2>8. ASSUME MoveLoan(l, "closed")
        PROVE  /\ loans' \in [Loans -> LoanRows \cup {NoRow}]
               /\ loanTrail' \in [Loans -> Seq(LoanChanges)]
    BY <2>3, <2>7, <2>8, MoveLoanType DEF LoanStatus
  <2> QED
    BY <1>7, <2>5, <2>6, <2>8 DEF ApplyPayment, TypeOK
<1>8. ASSUME NEW rows \in SUBSET Repayments, MarkOverdue(rows) PROVE TypeOK'
  <2>1. ASSUME NEW r \in rows
        PROVE  [repayments[r] EXCEPT !.status = "overdue"] \in RepaymentRows
    BY <1>8, RepaymentRow DEF MarkOverdue, NewlyOverdue, RepaymentRows, RepaymentStatus
  <2>2. Change("scheduled", "overdue") \in RepaymentChanges
    BY DEF Change, RepaymentChanges, RepaymentStatus
  <2>3. repaymentTrail \in [Repayments -> Seq(RepaymentChanges)]
    BY DEF TypeOK
  <2>4. repaymentTrail' \in [Repayments -> Seq(RepaymentChanges)]
    BY <1>8, <2>2, <2>3 DEF MarkOverdue
  <2>5. repayments' \in [Repayments -> RepaymentRows \cup {NoRow}]
    BY <1>8, <2>1 DEF MarkOverdue, TypeOK
  <2> QED
    BY <1>8, <2>4, <2>5 DEF MarkOverdue, TypeOK
<1>9. CASE NextDay
  BY <1>9, LastDayAssumption DEF NextDay, TypeOK, Days
<1>10. CASE UNCHANGED vars
  BY <1>10 DEF vars, TypeOK
<1> QED
  BY <1>1, <1>2, <1>3, <1>4, <1>5, <1>6, <1>7, <1>8, <1>9, <1>10 DEF Next

\* There are no rows at first.
LEMMA ReferencesInit == Init => RowsReferToRows
BY DEF Init, RowsReferToRows, Exists, NoRow

\* A step that keeps the loan rows but for one status keeps the references,
\* provided the new status asks no more of the borrower than is known.
LEMMA MoveLoanReferences ==
    ASSUME TypeOK, RowsReferToRows, NEW l \in Loans, Exists(loans[l]),
           NEW s \in LoanStatus, MoveLoan(l, s),
           s \in {"active", "rejected"} => users[loans[l].borrower] = "active",
           UNCHANGED users,
           \A r \in Repayments :
               /\ Exists(repayments'[r]) <=> Exists(repayments[r])
               /\ Exists(repayments[r]) => repayments'[r].loan = repayments[r].loan
    PROVE  RowsReferToRows'
<1>1. loans[l] \in LoanRows
  BY LoanRow
<1>2. loans'[l].status = s /\ s # "none"
  BY <1>1 DEF MoveLoan, TypeOK, LoanRows, LoanStatus
<1>3. loans'[l].borrower = loans[l].borrower /\ loans'[l].lender = loans[l].lender
  BY <1>1 DEF MoveLoan, TypeOK, LoanRows
<1>4. \A k \in Loans \ {l} : loans'[k] = loans[k]
  BY DEF MoveLoan, TypeOK
<1>5. \A k \in Loans : Exists(loans'[k]) <=> Exists(loans[k])
  BY <1>2, <1>4 DEF Exists
<1>6. ASSUME NEW r \in Repayments, Exists(repayments'[r])
      PROVE  Exists(loans'[repayments'[r].loan])
  <2>1. repayments'[r].loan \in Loans
    BY <1>6, RepaymentRow DEF RepaymentRows
  <2> QED
    BY <1>5, <1>6, <2>1 DEF RowsReferToRows
<1>7. ASSUME NEW k \in Loans, Exists(loans'[k])
      PROVE  /\ loans'[k].lender # loans'[k].borrower
             /\ users'[loans'[k].lender] = "active"
             /\ users'[loans'[k].borrower] # "absent"
             /\ loans'[k].status \in {"active", "rejected"} => users'[loans'[k].borrower] = "active"
  <2>1. CASE k = l
    BY <1>2, <1>3, <2>1 DEF RowsReferToRows
  <2>2. CASE k # l
    BY <1>4, <1>5, <1>7, <2>2 DEF RowsReferToRows
  <2> QED
    BY <2>1, <2>2
<1> QED
  BY <1>6, <1>7 DEF RowsReferToRows, Exists

\* Rows are added only for what exists, and never taken away.
LEMMA ReferencesNext == TypeOK /\ RowsReferToRows /\ [Next]_vars => RowsReferToRows'
<1> SUFFICES ASSUME TypeOK, RowsReferToRows, [Next]_vars PROVE RowsReferToRows'
  OBVIOUS
<1>1. ASSUME NEW u \in Users, RegisterUser(u) PROVE RowsReferToRows'
  <2>1. \A v \in Users : users[v] = "active" => users'[v] = "active"
    BY <1>1 DEF RegisterUser, TypeOK
  <2>2. \A v \in Users : users[v] # "absent" => users'[v] # "absent"
    BY <1>1 DEF RegisterUser, TypeOK
  <2>3. \A l \in Loans : Exists(loans[l]) => loans[l].lender \in Users /\ loans[l].borrower \in Users
    BY LoanRow DEF LoanRows
  <2> QED
    BY <1>1, <2>1, <2>2, <2>3 DEF RegisterUser, RowsReferToRows, Exists
<1>2. ASSUME NEW l \in Loans, NEW lender \in Users, NEW borrower \in Users,
             CreateLoan(l, lender, borrower)
      PROVE  RowsReferToRows'
  <2>1. \A v \in Users : users[v] # "absent" => users'[v] = users[v]
    BY <1>2 DEF CreateLoan, TypeOK
  <2>2. users'[borrower] # "absent"
    BY <1>2 DEF CreateLoan, TypeOK
  <2>3. \A k \in Loans : Exists(loans[k]) => loans[k].lender \in Users /\ loans[k].borrower \in Users
    BY LoanRow DEF LoanRows
  <2>4. \A k \in Loans \ {l} : loans'[k] = loans[k]
    BY <1>2 DEF CreateLoan, TypeOK
  <2>5. /\ loans'[l].status \in Pending
        /\ loans'[l].lender = lender
        /\ loans'[l].borrower = borrower
    BY <1>2 DEF CreateLoan, TypeOK, Pending
  <2>6. \A r \in Repayments : Exists(repayments[r]) => Exists(loans'[repayments[r].loan])
    BY <1>2, <2>4, <2>5, RepaymentRow DEF RowsReferToRows, Exists, CreateLoan, Pending, RepaymentRows
  <2>7. ASSUME NEW k \in Loans, Exists(loans'[k])
        PROVE  /\ loans'[k].lender # loans'[k].borrower
               /\ users'[loans'[k].lender] = "active"
               /\ users'[loans'[k].borrower] # "absent"
               /\ loans'[k].status \in {"active", "rejected"} => users'[loans'[k].borrower] = "active"
    <3>1. CASE k = l
      BY <1>2, <2>1, <2>2, <2>5, <3>1 DEF CreateLoan, Pending
    <3>2. CASE k # l
      BY <2>1, <2>3, <2>4, <2>7, <3>2 DEF RowsReferToRows
    <3> QED
      BY <3>1, <3>2
  <2> QED
    BY <1>2, <2>6, <2>7 DEF RowsReferToRows, Exists, CreateLoan
<1>3. ASSUME NEW l \in Loans, AcceptLoan(l) PROVE RowsReferToRows'
  BY <1>3, MoveLoanReferences DEF AcceptLoan, BorrowerCalls, LoanStatus
<1>4. ASSUME NEW l \in Loans, RejectLoan(l) PROVE RowsReferToRows'
  BY <1>4, MoveLoanReferences DEF RejectLoan, BorrowerCalls, LoanStatus
<1>5. ASSUME NEW l \in Loans, CancelLoan(l) PROVE RowsReferToRows'
  BY <1>5, MoveLoanReferences DEF CancelLoan, LoanStatus
<1>6. ASSUME NEW r \in Repayments, NEW l \in Loans, NEW i \in Installments,
             NEW d \in Days, NEW a \in Amounts, CreateRepayment(r, l, i, d, a)
      PROVE  RowsReferToRows'
  <2>1. repayments'[r].loan = l /\ \A q \in Repayments \ {r} : repayments'[q] = repayments[q]
    BY <1>6 DEF CreateRepayment, TypeOK
  <2> QED
    BY <1>6, <2>1 DEF CreateRepayment, RowsReferToRows, Exists
<1>7. ASSUME NEW r \in Repayments, NEW a \in Amounts, ApplyPayment(r, a)
      PROVE  RowsReferToRows'
  <2> DEFINE l == repayments[r].loan
  <2>1. Payable(r, a) /\ repayments' = [repayments EXCEPT ![r] = PaidRow(r, a)] /\ UNCHANGED users
    BY <1>7 DEF ApplyPayment
  <2>2. /\ repayments[r] \in RepaymentRows
        /\ PaidRow(r, a).status \in {"paid", "partial"}
        /\ PaidRow(r, a).loan = l
    BY <2>1, PaidRowType
  <2>3. l \in Loans /\ Exists(loans[l])
    BY <2>1, <2>2 DEF RowsReferToRows, Payable, RepaymentRows
  <2>4. \A q \in Repayments :
            /\ Exists(repayments'[q]) <=> Exists(repayments[q])
            /\ Exists(repayments[q]) => repayments'[q].loan = repayments[q].loan
    BY <2>1, <2>2 DEF TypeOK, Exists, Payable
  <2>5. CASE MoveLoan(l, "closed")
    BY <2>1, <2>3, <2>4, <2>5, MoveLoanReferences DEF LoanStatus
  <2>6. CASE UNCHANGED loans
    BY <2>1, <2>4, <2>6 DEF RowsReferToRows, Exists
  <2> QED
    BY <1>7, <2>5, <2>6 DEF ApplyPayment
<1>8. ASSUME NEW rows \in SUBSET Repayments, MarkOverdue(rows) PROVE RowsReferToRows'
  <2>1. \A q \in Repayments :
            /\ Exists(repayments'[q]) <=> Exists(repayments[q])
            /\ Exists(repayments[q]) => repayments'[q].loan = repayments[q].loan
    <3>1. ASSUME NEW q \in rows
          PROVE  /\ repayments'[q].status = "overdue"
                 /\ repayments'[q].loan = repayments[q].loan
                 /\ Exists(repayments[q])
      BY <1>8, RepaymentRow DEF MarkOverdue, NewlyOverdue, RepaymentRows
    <3>2. \A q \in Repayments \ rows : repayments'[q] = repayments[q]
      BY <1>8 DEF MarkOverdue
    <3> QED
      BY <3>1, <3>2 DEF Exists
  <2> QED
    BY <1>8, <2>1 DEF MarkOverdue, RowsReferToRows, Exists
<1>9. CASE NextDay
  BY <1>9 DEF NextDay, RowsReferToRows, Exists
<1>10. CASE UNCHANGED vars
  BY <1>10 DEF vars, RowsReferToRows, Exists
<1> QED
  BY <1>1, <1>2, <1>3, <1>4, <1>5, <1>6, <1>7, <1>8, <1>9, <1>10 DEF Next

\* Types alone are not inductive: closing the loan of a paid repayment needs that loan to
\* exist.
LEMMA TypeInvariance == Spec => [](TypeOK /\ RowsReferToRows)
<1>1. Init => TypeOK /\ RowsReferToRows
  BY TypeInit, ReferencesInit
<1>2. TypeOK /\ RowsReferToRows /\ [Next]_vars => (TypeOK /\ RowsReferToRows)'
  BY TypeNext, ReferencesNext
<1> QED
  BY <1>1, <1>2, PTL DEF Spec

\* Every value of every variable is one the tables can hold.
THEOREM TypeCorrect == Spec => []TypeOK
BY TypeInvariance, PTL

\* A repayment is of a loan that exists.  A loan is between two people, and one that was
\* answered by its borrower is between registered ones.
THEOREM ReferencesCorrect == Spec => []RowsReferToRows
BY TypeInvariance, PTL

(***************************************************************************)
(* Payments.                                                               *)
(***************************************************************************)

\* StatusTellsPayment, said of one row on one day.
Told(row, day) ==
    /\ row.amount_paid <= row.amount_due
    /\ (row.status = "paid") <=> (row.amount_paid = row.amount_due)
    /\ (row.status = "partial") <=> (row.amount_paid \in 1 .. (row.amount_due - 1))
    /\ row.status = "overdue" => row.due_date < day

\* A payment within what remains leaves a row that tells what was paid.
LEMMA PaymentIsTold ==
    ASSUME TypeOK, NEW r \in Repayments, NEW a \in Amounts, Payable(r, a)
    PROVE  Told(PaidRow(r, a), today)
<1>1. repayments[r].amount_paid \in Nat /\ repayments[r].amount_due \in Nat /\ a \in Nat \ {0}
  BY PaidRowType, AmountsAssumption DEF RepaymentRows
<1>2. repayments[r].amount_paid + a <= repayments[r].amount_due
  BY <1>1 DEF Payable
<1>3. /\ PaidRow(r, a).amount_paid = repayments[r].amount_paid + a
      /\ PaidRow(r, a).amount_due = repayments[r].amount_due
      /\ PaidRow(r, a).status \in {"paid", "partial"}
      /\ PaidRow(r, a).status = "paid"
            <=> repayments[r].amount_paid + a = repayments[r].amount_due
  BY PaidRowType
<1> QED
  BY <1>1, <1>2, <1>3 DEF Told

\* There are no repayments at first.
LEMMA PaymentInit == Init => StatusTellsPayment
BY DEF Init, StatusTellsPayment, Exists, NoRow

\* A payment takes no more than remains, and sets the status by what remains then.
LEMMA PaymentNext ==
    TypeOK /\ StatusTellsPayment /\ [Next]_vars => StatusTellsPayment'
<1> SUFFICES ASSUME TypeOK, StatusTellsPayment, [Next]_vars,
                    NEW q \in Repayments, Exists(repayments'[q])
             PROVE  Told(repayments'[q], today')
  BY DEF StatusTellsPayment, Told, Exists
<1>1. CASE UNCHANGED <<repayments, today>>
  BY <1>1 DEF StatusTellsPayment, Told, Exists
<1>2. ASSUME NEW r \in Repayments, NEW l \in Loans, NEW i \in Installments,
             NEW d \in Days, NEW a \in Amounts, CreateRepayment(r, l, i, d, a)
      PROVE  Told(repayments'[q], today')
  <2>1. CASE q = r
    <3>1. /\ repayments'[q].status = "scheduled"
          /\ repayments'[q].amount_paid = 0
          /\ repayments'[q].amount_due = a
      BY <1>2, <2>1 DEF CreateRepayment, TypeOK
    <3> QED
      BY <3>1, AmountsAssumption DEF Told
  <2>2. CASE q # r
    BY <1>2, <2>2 DEF CreateRepayment, TypeOK, StatusTellsPayment, Told, Exists
  <2> QED
    BY <2>1, <2>2
<1>3. ASSUME NEW r \in Repayments, NEW a \in Amounts, ApplyPayment(r, a)
      PROVE  Told(repayments'[q], today')
  <2>1. /\ Payable(r, a)
        /\ repayments' = [repayments EXCEPT ![r] = PaidRow(r, a)]
        /\ today' = today
    BY <1>3 DEF ApplyPayment
  <2>2. CASE q = r
    BY <2>1, <2>2, PaymentIsTold DEF TypeOK
  <2>3. CASE q # r
    BY <2>1, <2>3 DEF TypeOK, StatusTellsPayment, Told, Exists
  <2> QED
    BY <2>2, <2>3
<1>4. ASSUME NEW rows \in SUBSET Repayments, MarkOverdue(rows) PROVE Told(repayments'[q], today')
  <2>1. CASE q \in rows
    <3>1. /\ repayments[q] \in RepaymentRows
          /\ repayments[q].status = "scheduled"
          /\ repayments[q].amount_paid = 0
          /\ repayments[q].due_date < today
      BY <1>4, <2>1, RepaymentRow DEF MarkOverdue, NewlyOverdue
    <3>2. repayments'[q] = [repayments[q] EXCEPT !.status = "overdue"] /\ today' = today
      BY <1>4, <2>1 DEF MarkOverdue
    <3>3. repayments[q].amount_due \in Nat \ {0}
      BY <3>1, AmountsAssumption DEF RepaymentRows
    <3> QED
      BY <3>1, <3>2, <3>3 DEF Told, RepaymentRows
  <2>2. CASE q \notin rows
    BY <1>4, <2>2 DEF MarkOverdue, StatusTellsPayment, Told, Exists
  <2> QED
    BY <2>1, <2>2
<1>5. CASE NextDay
  <2>1. repayments[q] \in RepaymentRows /\ Told(repayments[q], today) /\ repayments'[q] = repayments[q]
    BY <1>5, RepaymentRow DEF NextDay, StatusTellsPayment, Told, Exists
  <2>2. repayments[q].due_date \in Int /\ today \in Int /\ today' = today + 1
    BY <1>5, <2>1 DEF NextDay, TypeOK, Days, RepaymentRows
  <2> QED
    BY <2>1, <2>2 DEF Told
<1> QED
  BY <1>1, <1>2, <1>3, <1>4, <1>5
     DEF Next, vars, RegisterUser, CreateLoan, AcceptLoan, RejectLoan, CancelLoan

\* However payments arrive, no repayment takes more than its amount due, and
\* its status says how much of it was paid.
THEOREM PaymentsCorrect == Spec => []StatusTellsPayment
<1>1. Init => StatusTellsPayment
  BY PaymentInit
<1>2. TypeOK /\ StatusTellsPayment /\ [Next]_vars => StatusTellsPayment'
  BY PaymentNext
<1> QED
  BY <1>1, <1>2, TypeInvariance, PTL DEF Spec

(***************************************************************************)
(* Installments.                                                           *)
(***************************************************************************)

\* An installment is added only when its loan has none with that number.
LEMMA InstallmentsNext ==
    TypeOK /\ OneRowPerInstallment /\ [Next]_vars => OneRowPerInstallment'
<1> SUFFICES ASSUME TypeOK, OneRowPerInstallment, [Next]_vars
             PROVE  OneRowPerInstallment'
  OBVIOUS
<1>1. ASSUME \A q \in Repayments :
                /\ Exists(repayments'[q]) <=> Exists(repayments[q])
                /\ Exists(repayments[q]) =>
                      /\ repayments'[q].loan = repayments[q].loan
                      /\ repayments'[q].installment = repayments[q].installment
      PROVE  OneRowPerInstallment'
  BY <1>1 DEF OneRowPerInstallment, Exists
<1>2. CASE UNCHANGED repayments
  BY <1>1, <1>2
<1>3. ASSUME NEW r \in Repayments, NEW l \in Loans, NEW i \in Installments,
             NEW d \in Days, NEW a \in Amounts, CreateRepayment(r, l, i, d, a)
      PROVE  OneRowPerInstallment'
  <2>1. \A q \in Repayments \ {r} : repayments'[q] = repayments[q]
    BY <1>3 DEF CreateRepayment, TypeOK
  <2>2. repayments'[r].loan = l /\ repayments'[r].installment = i
    BY <1>3 DEF CreateRepayment, TypeOK
  <2>3. \A q \in Repayments \ {r} :
            Exists(repayments[q]) /\ repayments[q].loan = l => repayments[q].installment # i
    BY <1>3 DEF CreateRepayment, InstallmentFree, RepaymentsOf
  <2> QED
    BY <2>1, <2>2, <2>3 DEF OneRowPerInstallment, Exists
<1>4. ASSUME NEW r \in Repayments, NEW a \in Amounts, ApplyPayment(r, a)
      PROVE  OneRowPerInstallment'
  <2>1. Payable(r, a) /\ repayments' = [repayments EXCEPT ![r] = PaidRow(r, a)]
    BY <1>4 DEF ApplyPayment
  <2>2. /\ PaidRow(r, a).status \in {"paid", "partial"}
        /\ PaidRow(r, a).loan = repayments[r].loan
        /\ PaidRow(r, a).installment = repayments[r].installment
    BY <2>1, PaidRowType
  <2> QED
    BY <1>1, <2>1, <2>2 DEF TypeOK, Exists, Payable
<1>5. ASSUME NEW rows \in SUBSET Repayments, MarkOverdue(rows) PROVE OneRowPerInstallment'
  <2>1. ASSUME NEW q \in rows
        PROVE  /\ Exists(repayments'[q]) /\ Exists(repayments[q])
               /\ repayments'[q].loan = repayments[q].loan
               /\ repayments'[q].installment = repayments[q].installment
    BY <1>5, RepaymentRow DEF MarkOverdue, NewlyOverdue, RepaymentRows, Exists
  <2>2. \A q \in Repayments \ rows : repayments'[q] = repayments[q]
    BY <1>5 DEF MarkOverdue
  <2> QED
    BY <1>1, <2>1, <2>2
<1> QED
  BY <1>2, <1>3, <1>4, <1>5
     DEF Next, vars, RegisterUser, CreateLoan, AcceptLoan, RejectLoan, CancelLoan, NextDay

\* The lookup of create_repayment alone keeps installments unique, without help
\* from the table's unique constraint.
THEOREM InstallmentsUnique == Spec => []OneRowPerInstallment
<1>1. Init => OneRowPerInstallment
  BY DEF Init, OneRowPerInstallment, Exists, NoRow
<1>2. TypeOK /\ OneRowPerInstallment /\ [Next]_vars => OneRowPerInstallment'
  BY InstallmentsNext
<1> QED
  BY <1>1, <1>2, TypeInvariance, PTL DEF Spec

(***************************************************************************)
(* Settlement.                                                             *)
(***************************************************************************)

\* All repayments of loan l, and there are some, are paid.
Settled(l) ==
    /\ \E r \in Repayments : Exists(repayments[r]) /\ repayments[r].loan = l
    /\ \A r \in Repayments :
          Exists(repayments[r]) /\ repayments[r].loan = l => repayments[r].status = "paid"

\* Settlement stated without the set of a loan's repayments.
LEMMA ClosedIffSettledAlt ==
    ClosedIffSettled <=>
        \A l \in Loans : Exists(loans[l]) => (loans[l].status = "closed" <=> Settled(l))
BY DEF ClosedIffSettled, Settled, RepaymentsOf

\* Moving a loan that is not settled to another status than closed.
LEMMA MoveUnsettled ==
    ASSUME TypeOK, ClosedIffSettled, NEW l \in Loans, Exists(loans[l]),
           loans[l].status # "closed", NEW s \in LoanStatus \ {"closed"},
           MoveLoan(l, s), UNCHANGED repayments
    PROVE  ClosedIffSettled'
<1>1. loans'[l].status = s
  BY LoanRow DEF MoveLoan, TypeOK, LoanRows
<1>2. \A k \in Loans \ {l} : loans'[k] = loans[k]
  BY DEF MoveLoan, TypeOK
<1>3. \A k \in Loans : Settled(k)' <=> Settled(k)
  BY DEF Settled, Exists
<1>4. \A k \in Loans : Exists(loans'[k]) => (loans'[k].status = "closed" <=> Settled(k)')
  BY <1>1, <1>2, <1>3, ClosedIffSettledAlt DEF Exists
<1> QED
  BY <1>4 DEF ClosedIffSettled, Settled, RepaymentsOf, Exists

\* The payment that settles a loan closes it, and a closed loan gets no installment.
LEMMA SettlementNext ==
    TypeOK /\ RowsReferToRows /\ ClosedIffSettled /\ [Next]_vars => ClosedIffSettled'
<1> SUFFICES ASSUME TypeOK, RowsReferToRows, ClosedIffSettled, [Next]_vars
             PROVE  ClosedIffSettled'
  OBVIOUS
<1>0. ASSUME \A k \in Loans : Exists(loans'[k]) => (loans'[k].status = "closed" <=> Settled(k)')
      PROVE  ClosedIffSettled'
  BY <1>0 DEF ClosedIffSettled, Settled, RepaymentsOf, Exists
<1>1. CASE UNCHANGED <<loans, repayments>>
  BY <1>1 DEF ClosedIffSettled, RepaymentsOf, Exists
<1>2. ASSUME NEW l \in Loans, NEW lender \in Users, NEW borrower \in Users,
             CreateLoan(l, lender, borrower)
      PROVE  ClosedIffSettled'
  <2>1. loans'[l].status \in Pending /\ \A k \in Loans \ {l} : loans'[k] = loans[k]
    BY <1>2 DEF CreateLoan, TypeOK, Pending
  <2>2. \A r \in Repayments : Exists(repayments[r]) => repayments[r].loan # l
    BY <1>2 DEF CreateLoan, RowsReferToRows
  <2>3. UNCHANGED repayments
    BY <1>2 DEF CreateLoan
  <2>4. ~Settled(l)' /\ \A k \in Loans : Settled(k)' <=> Settled(k)
    BY <2>2, <2>3 DEF Settled, Exists
  <2> QED
    BY <1>0, <2>1, <2>4, ClosedIffSettledAlt DEF Exists, Pending
<1>3. ASSUME NEW l \in Loans, AcceptLoan(l) PROVE ClosedIffSettled'
  BY <1>3, MoveUnsettled DEF AcceptLoan, BorrowerCalls, LoanStatus, Pending
<1>4. ASSUME NEW l \in Loans, RejectLoan(l) PROVE ClosedIffSettled'
  BY <1>4, MoveUnsettled DEF RejectLoan, BorrowerCalls, LoanStatus, Pending
<1>5. ASSUME NEW l \in Loans, CancelLoan(l) PROVE ClosedIffSettled'
  BY <1>5, MoveUnsettled DEF CancelLoan, Cancellable, LoanStatus
<1>6. ASSUME NEW r \in Repayments, NEW l \in Loans, NEW i \in Installments,
             NEW d \in Days, NEW a \in Amounts, CreateRepayment(r, l, i, d, a)
      PROVE  ClosedIffSettled'
  <2>1. /\ repayments'[r].loan = l
        /\ repayments'[r].status = "scheduled"
        /\ \A q \in Repayments \ {r} : repayments'[q] = repayments[q]
        /\ ~Exists(repayments[r])
        /\ UNCHANGED loans
        /\ loans[l].status # "closed"
    BY <1>6 DEF CreateRepayment, TypeOK, Finished
  <2>2. ~Settled(l)'
    BY <2>1 DEF Settled, Exists
  <2>3. \A k \in Loans \ {l} : Settled(k)' <=> Settled(k)
    BY <2>1 DEF Settled, Exists
  <2> QED
    BY <1>0, <2>1, <2>2, <2>3, ClosedIffSettledAlt
<1>7. ASSUME NEW r \in Repayments, NEW a \in Amounts, ApplyPayment(r, a)
      PROVE  ClosedIffSettled'
  <2>1. Payable(r, a) /\ repayments' = [repayments EXCEPT ![r] = PaidRow(r, a)]
    BY <1>7 DEF ApplyPayment
  <2> PICK l \in Loans : l = repayments[r].loan
    BY <2>1, PaidRowType DEF RepaymentRows
  <2>2. /\ repayments[r] \in RepaymentRows
        /\ PaidRow(r, a).status \in {"paid", "partial"}
        /\ PaidRow(r, a).loan = l
    BY <2>1, PaidRowType
  <2>3. Exists(loans[l]) /\ Exists(repayments[r]) /\ repayments[r].status # "paid"
    BY <2>1, <2>2 DEF RowsReferToRows, Payable, RepaymentRows
  <2>4. /\ \A q \in Repayments \ {r} : repayments'[q] = repayments[q]
        /\ repayments'[r] = PaidRow(r, a)
    BY <2>1 DEF TypeOK
  <2>5. ~Settled(l)
    BY <2>3 DEF Settled
  <2>6. loans[l].status # "closed"
    BY <2>3, <2>5, ClosedIffSettledAlt
  <2>7. \A k \in Loans \ {l} : Settled(k)' <=> Settled(k)
    BY <2>2, <2>4 DEF Settled, Exists
  <2>8. Settled(l)' <=> Settles(r, a)
    BY <2>2, <2>3, <2>4 DEF Settled, Settles, RepaymentsOf, Exists
  <2>9. CASE Settles(r, a)
    <3>1. MoveLoan(l, "closed")
      BY <1>7, <2>6, <2>9 DEF ApplyPayment
    <3>2. loans'[l].status = "closed" /\ \A k \in Loans \ {l} : loans'[k] = loans[k]
      BY <2>3, <3>1, LoanRow DEF MoveLoan, TypeOK, LoanRows
    <3> QED
      BY <1>0, <2>7, <2>8, <2>9, <3>2, ClosedIffSettledAlt
  <2>10. CASE ~Settles(r, a)
    <3>1. UNCHANGED loans
      BY <1>7, <2>10 DEF ApplyPayment
    <3> QED
      BY <1>0, <2>6, <2>7, <2>8, <2>10, <3>1, ClosedIffSettledAlt
  <2> QED
    BY <2>9, <2>10
<1>8. ASSUME NEW rows \in SUBSET Repayments, MarkOverdue(rows) PROVE ClosedIffSettled'
  <2>1. ASSUME NEW q \in rows
        PROVE  /\ Exists(repayments'[q]) /\ Exists(repayments[q])
               /\ repayments'[q].loan = repayments[q].loan
               /\ repayments'[q].status # "paid" /\ repayments[q].status # "paid"
    BY <1>8, RepaymentRow DEF MarkOverdue, NewlyOverdue, RepaymentRows, Exists
  <2>2. (\A q \in Repayments \ rows : repayments'[q] = repayments[q]) /\ UNCHANGED loans
    BY <1>8 DEF MarkOverdue
  <2>3. \A k \in Loans : Settled(k)' <=> Settled(k)
    BY <2>1, <2>2 DEF Settled, Exists
  <2> QED
    BY <1>0, <2>2, <2>3, ClosedIffSettledAlt
<1> QED
  BY <1>1, <1>2, <1>3, <1>4, <1>5, <1>6, <1>7, <1>8
     DEF Next, vars, RegisterUser, NextDay

\* A loan is closed exactly when it has repayments and all are paid.
THEOREM SettlementCorrect == Spec => []ClosedIffSettled
<1>1. Init => ClosedIffSettled
  BY DEF Init, ClosedIffSettled, Exists, NoRow
<1>2. TypeOK /\ RowsReferToRows /\ ClosedIffSettled /\ [Next]_vars => ClosedIffSettled'
  BY SettlementNext
<1> QED
  BY <1>1, <1>2, TypeInvariance, PTL DEF Spec

(***************************************************************************)
(* Finished loans.                                                         *)
(***************************************************************************)

\* A step leaves a finished loan and its repayments as they are.
LEMMA FinishedStep ==
    ASSUME TypeOK, RowsReferToRows, ClosedIffSettled, [Next]_vars,
           NEW l \in Loans, loans[l].status \in Finished
    PROVE  FinishedLoanIsFrozen(l)
<1> USE DEF Finished
<1>0. Exists(loans[l])
  BY DEF Exists
<1>1. CASE UNCHANGED <<loans, repayments>>
  BY <1>1 DEF FinishedLoanIsFrozen, RepaymentsOf, Exists
<1>2. ASSUME NEW k \in Loans, NEW s \in LoanStatus, MoveLoan(k, s), UNCHANGED repayments,
             loans[k].status \notin Finished
      PROVE  FinishedLoanIsFrozen(l)
  BY <1>2 DEF MoveLoan, TypeOK, FinishedLoanIsFrozen, RepaymentsOf, Exists
<1>3. ASSUME NEW k \in Loans, NEW lender \in Users, NEW borrower \in Users,
             CreateLoan(k, lender, borrower)
      PROVE  FinishedLoanIsFrozen(l)
  BY <1>0, <1>3 DEF CreateLoan, TypeOK, FinishedLoanIsFrozen, RepaymentsOf, Exists
<1>4. ASSUME NEW k \in Loans, AcceptLoan(k) \/ RejectLoan(k) \/ CancelLoan(k)
      PROVE  FinishedLoanIsFrozen(l)
  BY <1>2, <1>4 DEF AcceptLoan, RejectLoan, CancelLoan, Pending, Cancellable, LoanStatus
<1>5. ASSUME NEW r \in Repayments, NEW k \in Loans, NEW i \in Installments,
             NEW d \in Days, NEW a \in Amounts, CreateRepayment(r, k, i, d, a)
      PROVE  FinishedLoanIsFrozen(l)
  <2>1. k # l /\ ~Exists(repayments[r]) /\ repayments'[r].loan = k /\ UNCHANGED loans
    BY <1>5 DEF CreateRepayment, TypeOK
  <2>2. \A q \in Repayments \ {r} : repayments'[q] = repayments[q]
    BY <1>5 DEF CreateRepayment, TypeOK
  <2> QED
    BY <2>1, <2>2 DEF FinishedLoanIsFrozen, RepaymentsOf, Exists
<1>6. ASSUME NEW r \in Repayments, NEW a \in Amounts, ApplyPayment(r, a)
      PROVE  FinishedLoanIsFrozen(l)
  <2> DEFINE k == repayments[r].loan
  <2>1. /\ Payable(r, a)
        /\ repayments' = [repayments EXCEPT ![r] = PaidRow(r, a)]
        /\ MoveLoan(k, "closed") \/ UNCHANGED loans
    BY <1>6 DEF ApplyPayment
  <2>2. PaidRow(r, a).loan = k /\ k \in Loans
    BY <2>1, PaidRowType DEF RepaymentRows
  <2>3. k # l
    <3>1. Exists(repayments[r]) /\ repayments[r].status # "paid" /\ loans[k].status \notin {"cancelled", "rejected"}
      BY <2>1 DEF Payable
    <3>2. ~Settled(k)
      BY <3>1 DEF Settled
    <3> QED
      BY <1>0, <3>1, <3>2, ClosedIffSettledAlt
  <2>4. \A q \in Repayments \ {r} : repayments'[q] = repayments[q]
    BY <2>1 DEF TypeOK
  <2>5. repayments'[r].loan = k
    BY <2>1, <2>2 DEF TypeOK
  <2>6. loans'[l] = loans[l]
    BY <2>1, <2>3 DEF MoveLoan, TypeOK
  <2> QED
    BY <2>3, <2>4, <2>5, <2>6 DEF FinishedLoanIsFrozen, RepaymentsOf, Exists
<1>7. ASSUME NEW rows \in SUBSET Repayments, MarkOverdue(rows) PROVE FinishedLoanIsFrozen(l)
  <2>1. ASSUME NEW q \in rows
        PROVE  repayments[q].loan # l /\ repayments'[q].loan = repayments[q].loan
    BY <1>7, RepaymentRow DEF MarkOverdue, NewlyOverdue, RepaymentRows
  <2>2. (\A q \in Repayments \ rows : repayments'[q] = repayments[q]) /\ UNCHANGED loans
    BY <1>7 DEF MarkOverdue
  <2> QED
    BY <2>1, <2>2 DEF FinishedLoanIsFrozen, RepaymentsOf, Exists
<1> QED
  BY <1>1, <1>3, <1>4, <1>5, <1>6, <1>7 DEF Next, vars, RegisterUser, NextDay

\* Nothing happens any more to a finished loan or to its repayments.  A closed
\* loan could be paid into as far as the guards of apply_payment go; that all
\* its repayments are paid is what forbids it.
THEOREM FinishedFrozen == Spec => FinishedLoansAreFrozen
<1>1. TypeOK /\ RowsReferToRows /\ ClosedIffSettled /\ [Next]_vars
        => [\A l \in Loans : FinishedLoanIsFrozen(l)]_vars
  BY FinishedStep DEF FinishedLoanIsFrozen
<1> QED
  BY <1>1, TypeInvariance, SettlementCorrect, PTL DEF Spec, FinishedLoansAreFrozen

(***************************************************************************)
(* The audit trail.                                                        *)
(***************************************************************************)

\* Recording a move from the present status to another keeps the account.
LEMMA RecordedMove ==
    ASSUME NEW S, NEW trail \in Seq(S), NEW old, NEW new, new # old,
           Accounts(trail, old)
    PROVE  Accounts(Append(trail, Change(old, new)), new)
<1> DEFINE more == Append(trail, Change(old, new))
<1>1. Len(trail) \in Nat /\ Len(more) = Len(trail) + 1
  OBVIOUS
<1>2. more[Len(trail) + 1] = Change(old, new)
  BY <1>1
<1>3. \A i \in 1 .. Len(trail) : more[i] = trail[i]
  BY <1>1
<1>4. more # <<>>
  BY <1>1
<1>5. old = IF Len(trail) = 0 THEN "none" ELSE trail[Len(trail)].to
  BY <1>1 DEF Accounts
<1> HIDE DEF more
<1>6. ASSUME NEW i \in 1 .. Len(more)
      PROVE  /\ more[i].from = IF i = 1 THEN "none" ELSE more[i - 1].to
             /\ more[i].to # more[i].from
  <2>1. CASE i \in 1 .. Len(trail)
    <3>1. more[i] = trail[i] /\ (i # 1 => i - 1 \in 1 .. Len(trail))
      BY <1>1, <1>3, <2>1
    <3>2. i # 1 => more[i - 1] = trail[i - 1]
      BY <1>3, <3>1
    <3> QED
      BY <2>1, <3>1, <3>2 DEF Accounts
  <2>2. CASE i = Len(trail) + 1
    <3>1. more[i].from = old /\ more[i].to = new
      BY <1>2, <2>2 DEF Change
    <3>2. i # 1 => Len(trail) # 0 /\ i - 1 \in 1 .. Len(trail) /\ i - 1 = Len(trail)
      BY <1>1, <2>2
    <3>3. i # 1 => more[i - 1].to = old
      BY <1>3, <1>5, <3>2
    <3>4. i = 1 => old = "none"
      BY <1>1, <1>5, <2>2
    <3> QED
      BY <3>1, <3>3, <3>4
  <2> QED
    BY <1>1, <2>1, <2>2
<1>7. more[Len(more)].to = new
  BY <1>1, <1>2 DEF Change
<1> QED
  BY <1>4, <1>6, <1>7 DEF Accounts, more

\* A move of an existing loan to another status is accounted for.
LEMMA MoveLoanAccounts ==
    ASSUME TypeOK, TrailsAccountForStatus, NEW l \in Loans, Exists(loans[l]),
           NEW s \in LoanStatus, loans[l].status # s, MoveLoan(l, s)
    PROVE  \A k \in Loans : Accounts(loanTrail'[k], loans'[k].status)
<1>1. loans[l] \in LoanRows
  BY LoanRow
<1>2. loanTrail \in [Loans -> Seq(LoanChanges)] /\ loans \in [Loans -> LoanRows \cup {NoRow}]
  BY DEF TypeOK
<1>3. loans'[l].status = s /\ loanTrail'[l] = Append(loanTrail[l], Change(loans[l].status, s))
  BY <1>1, <1>2 DEF MoveLoan, LoanRows
<1>4. \A k \in Loans \ {l} : loans'[k] = loans[k] /\ loanTrail'[k] = loanTrail[k]
  BY <1>2 DEF MoveLoan
<1>5. loanTrail[l] \in Seq(LoanChanges)
  BY <1>2
<1>6. Accounts(loanTrail[l], loans[l].status)
  BY DEF TrailsAccountForStatus
<1>7. Accounts(Append(loanTrail[l], Change(loans[l].status, s)), s)
  BY <1>5, <1>6, RecordedMove
<1> QED
  BY <1>3, <1>4, <1>7 DEF TrailsAccountForStatus

\* There are no events at first.
LEMMA TrailInit == Init => TrailsAccountForStatus
<1>1. Accounts(<<>>, "none")
  BY DEF Accounts
<1> QED
  BY <1>1 DEF Init, TrailsAccountForStatus, NoRow

\* Each change of status appends the event of that change.
LEMMA TrailNext ==
    TypeOK /\ RowsReferToRows /\ TrailsAccountForStatus /\ [Next]_vars
        => TrailsAccountForStatus'
<1> SUFFICES ASSUME TypeOK, RowsReferToRows, TrailsAccountForStatus, [Next]_vars
             PROVE  /\ \A k \in Loans : Accounts(loanTrail'[k], loans'[k].status)
                    /\ \A q \in Repayments : Accounts(repaymentTrail'[q], repayments'[q].status)
  BY DEF TrailsAccountForStatus, Accounts
<1> DEFINE LoansDone == \A k \in Loans : Accounts(loanTrail'[k], loans'[k].status)
           RepaymentsDone == \A q \in Repayments : Accounts(repaymentTrail'[q], repayments'[q].status)
<1>a. UNCHANGED <<loans, loanTrail>> => LoansDone
  BY DEF TrailsAccountForStatus
<1>b. UNCHANGED <<repayments, repaymentTrail>> => RepaymentsDone
  BY DEF TrailsAccountForStatus
<1>t. /\ loans \in [Loans -> LoanRows \cup {NoRow}]
      /\ loanTrail \in [Loans -> Seq(LoanChanges)]
      /\ repayments \in [Repayments -> RepaymentRows \cup {NoRow}]
      /\ repaymentTrail \in [Repayments -> Seq(RepaymentChanges)]
  BY DEF TypeOK
<1> HIDE DEF LoansDone, RepaymentsDone
<1>1. ASSUME NEW l \in Loans, NEW lender \in Users, NEW borrower \in Users,
             CreateLoan(l, lender, borrower)
      PROVE  LoansDone /\ RepaymentsDone
  <2> DEFINE status == IF users[borrower] = "active" THEN "pending_review" ELSE "pending_invite"
  <2>1. status # "none" /\ loans[l].status = "none"
    BY <1>1 DEF CreateLoan, Exists
  <2>2. /\ loans'[l].status = status
        /\ loanTrail'[l] = Append(loanTrail[l], Change("none", status))
        /\ \A k \in Loans \ {l} : loans'[k] = loans[k] /\ loanTrail'[k] = loanTrail[k]
        /\ UNCHANGED <<repayments, repaymentTrail>>
    BY <1>1, <1>t DEF CreateLoan
  <2> HIDE DEF status
  <2>3. loanTrail[l] \in Seq(LoanChanges) /\ Accounts(loanTrail[l], "none")
    BY <1>t, <2>1 DEF TrailsAccountForStatus
  <2>4. Accounts(loanTrail'[l], status)
    BY <2>1, <2>2, <2>3, RecordedMove
  <2> QED
    BY <1>b, <2>2, <2>4 DEF LoansDone, TrailsAccountForStatus
<1>2. ASSUME NEW l \in Loans, NEW s \in LoanStatus, Exists(loans[l]), loans[l].status # s,
             MoveLoan(l, s)
      PROVE  LoansDone
  BY <1>2, MoveLoanAccounts DEF LoansDone
<1>3. ASSUME NEW l \in Loans, AcceptLoan(l) \/ RejectLoan(l) \/ CancelLoan(l)
      PROVE  LoansDone /\ RepaymentsDone
  BY <1>b, <1>2, <1>3
     DEF AcceptLoan, RejectLoan, CancelLoan, BorrowerCalls, Pending, Cancellable, LoanStatus
<1>4. ASSUME NEW r \in Repayments, NEW l \in Loans, NEW i \in Installments,
             NEW d \in Days, NEW a \in Amounts, CreateRepayment(r, l, i, d, a)
      PROVE  LoansDone /\ RepaymentsDone
  <2>1. /\ repayments[r].status = "none"
        /\ repayments'[r].status = "scheduled"
        /\ repaymentTrail'[r] = Append(repaymentTrail[r], Change("none", "scheduled"))
        /\ \A q \in Repayments \ {r} :
              repayments'[q] = repayments[q] /\ repaymentTrail'[q] = repaymentTrail[q]
        /\ UNCHANGED <<loans, loanTrail>>
    BY <1>4, <1>t DEF CreateRepayment, Exists
  <2>2. repaymentTrail[r] \in Seq(RepaymentChanges) /\ Accounts(repaymentTrail[r], "none")
    BY <1>t, <2>1 DEF TrailsAccountForStatus
  <2>3. Accounts(repaymentTrail'[r], "scheduled")
    BY <2>1, <2>2, RecordedMove
  <2> QED
    BY <1>a, <2>1, <2>3 DEF RepaymentsDone, TrailsAccountForStatus
<1>5. ASSUME NEW r \in Repayments, NEW a \in Amounts, ApplyPayment(r, a)
      PROVE  LoansDone /\ RepaymentsDone
  <2> DEFINE old == repayments[r].status
             new == PaidRow(r, a).status
             l == repayments[r].loan
  <2>1. Payable(r, a)
    BY <1>5 DEF ApplyPayment
  <2>2. l \in Loans /\ Exists(loans[l])
    BY <2>1, PaidRowType DEF RowsReferToRows, Payable, RepaymentRows
  <2>3. LoansDone
    <3>1. CASE MoveLoan(l, "closed") /\ loans[l].status # "closed"
      BY <1>2, <2>2, <3>1 DEF LoanStatus
    <3>2. CASE UNCHANGED <<loans, loanTrail>>
      BY <1>a, <3>2
    <3> QED
      BY <1>5, <3>1, <3>2 DEF ApplyPayment
  <2>4. /\ repayments'[r].status = new
        /\ repaymentTrail'[r] =
              IF old # new THEN Append(repaymentTrail[r], Change(old, new)) ELSE repaymentTrail[r]
        /\ \A q \in Repayments \ {r} :
              repayments'[q] = repayments[q] /\ repaymentTrail'[q] = repaymentTrail[q]
    BY <1>5, <1>t DEF ApplyPayment
  <2> HIDE DEF old, new
  <2>5. repaymentTrail[r] \in Seq(RepaymentChanges) /\ Accounts(repaymentTrail[r], old)
    BY <1>t DEF TrailsAccountForStatus, old
  <2>6. Accounts(repaymentTrail'[r], new)
    <3>1. CASE old = new
      BY <2>4, <2>5, <3>1
    <3>2. CASE old # new
      BY <2>4, <2>5, <3>2, RecordedMove
    <3> QED
      BY <3>1, <3>2
  <2> QED
    BY <2>3, <2>4, <2>6 DEF RepaymentsDone, TrailsAccountForStatus
<1>6. ASSUME NEW rows \in SUBSET Repayments, MarkOverdue(rows) PROVE LoansDone /\ RepaymentsDone
  <2>1. ASSUME NEW q \in rows
        PROVE  Accounts(repaymentTrail'[q], repayments'[q].status)
    <3>1. q \in Repayments /\ repayments[q].status = "scheduled"
      BY <1>6, <2>1 DEF MarkOverdue, NewlyOverdue
    <3>2. repayments'[q] = [repayments[q] EXCEPT !.status = "overdue"]
      BY <1>6, <2>1, <3>1 DEF MarkOverdue
    <3>3. repaymentTrail'[q] = Append(repaymentTrail[q], Change("scheduled", "overdue"))
      BY <1>6, <2>1, <3>1 DEF MarkOverdue
    <3>4. repayments'[q].status = "overdue"
      BY <1>6, <2>1, <3>1, <3>2, RepaymentRow DEF MarkOverdue, NewlyOverdue, RepaymentRows
    <3>5. repaymentTrail[q] \in Seq(RepaymentChanges) /\ Accounts(repaymentTrail[q], "scheduled")
      BY <1>t, <3>1 DEF TrailsAccountForStatus
    <3> QED
      BY <3>3, <3>4, <3>5, RecordedMove
  <2>2. /\ \A q \in Repayments \ rows :
              repayments'[q] = repayments[q] /\ repaymentTrail'[q] = repaymentTrail[q]
        /\ UNCHANGED <<loans, loanTrail>>
    BY <1>6 DEF MarkOverdue
  <2> QED
    BY <1>a, <2>1, <2>2 DEF RepaymentsDone, TrailsAccountForStatus
<1>7. CASE UNCHANGED <<loans, loanTrail, repayments, repaymentTrail>>
  BY <1>a, <1>b, <1>7 DEF LoansDone, RepaymentsDone
<1> QED
  BY <1>1, <1>3, <1>4, <1>5, <1>6, <1>7
     DEF Next, vars, RegisterUser, NextDay, LoansDone, RepaymentsDone

\* From the audit events alone one can tell the status of every loan and
\* repayment and how it came to be.
THEOREM TrailsCorrect == Spec => []TrailsAccountForStatus
<1>1. Init => TrailsAccountForStatus
  BY TrailInit
<1>2. TypeOK /\ RowsReferToRows /\ TrailsAccountForStatus /\ [Next]_vars
        => TrailsAccountForStatus'
  BY TrailNext
<1> QED
  BY <1>1, <1>2, TypeInvariance, PTL DEF Spec

(***************************************************************************)
(* Money.                                                                  *)
(***************************************************************************)

\* PaymentsAreKept, said of one repayment.
Kept(r) ==
    /\ repayments'[r].amount_paid >= repayments[r].amount_paid
    /\ \A f \in {"loan", "installment", "due_date", "amount_due"} :
          repayments'[r][f] = repayments[r][f]

\* A step lowers no payment and changes no terms.
LEMMA KeptStep ==
    ASSUME TypeOK, [Next]_vars, NEW q \in Repayments, Exists(repayments[q])
    PROVE  Kept(q)
<1>0. repayments[q] \in RepaymentRows /\ repayments[q].amount_paid \in Nat
  BY RepaymentRow DEF RepaymentRows
<1>1. CASE repayments'[q] = repayments[q]
  BY <1>0, <1>1 DEF Kept
<1>2. ASSUME NEW r \in Repayments, NEW l \in Loans, NEW i \in Installments,
             NEW d \in Days, NEW a \in Amounts, CreateRepayment(r, l, i, d, a)
      PROVE  Kept(q)
  BY <1>1, <1>2 DEF CreateRepayment, TypeOK
<1>3. ASSUME NEW r \in Repayments, NEW a \in Amounts, ApplyPayment(r, a)
      PROVE  Kept(q)
  <2>1. Payable(r, a) /\ repayments' = [repayments EXCEPT ![r] = PaidRow(r, a)]
    BY <1>3 DEF ApplyPayment
  <2>2. CASE q = r
    <3>1. repayments'[q] = PaidRow(r, a)
      BY <2>1, <2>2 DEF TypeOK
    <3>2. /\ PaidRow(r, a).amount_paid = repayments[r].amount_paid + a
          /\ \A f \in {"loan", "installment", "due_date", "amount_due"} :
                PaidRow(r, a)[f] = repayments[r][f]
      BY <2>1, PaidRowType
    <3> QED
      BY <1>0, <2>2, <3>1, <3>2, AmountsAssumption DEF Kept
  <2>3. CASE q # r
    BY <1>1, <2>1, <2>3 DEF TypeOK
  <2> QED
    BY <2>2, <2>3
<1>4. ASSUME NEW rows \in SUBSET Repayments, MarkOverdue(rows) PROVE Kept(q)
  <2>1. repayments'[q] = [repayments[q] EXCEPT !.status = "overdue"] \/ repayments'[q] = repayments[q]
    BY <1>4 DEF MarkOverdue
  <2> QED
    BY <1>0, <1>1, <2>1 DEF Kept, RepaymentRows
<1> QED
  BY <1>1, <1>2, <1>3, <1>4
     DEF Next, vars, RegisterUser, CreateLoan, AcceptLoan, RejectLoan, CancelLoan, NextDay

\* No service call takes back money that was paid or rewrites what was agreed.
THEOREM MoneyKept == Spec => PaymentsAreKept
<1>1. TypeOK /\ [Next]_vars
        => [\A r \in Repayments : Exists(repayments[r]) => Kept(r)]_vars
  BY KeptStep DEF Kept
<1> QED
  BY <1>1, TypeInvariance, PTL DEF Spec, PaymentsAreKept, Kept
=============================================================================
