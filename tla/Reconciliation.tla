-------------------------- MODULE Reconciliation ----------------------------
(***************************************************************************)
(* The bank accounts and transactions of a borrower, and how a payment on  *)
(* a repayment is matched with a transaction.  The user links, dismisses   *)
(* and unlinks accounts while transactions arrive and payments are made;   *)
(* only transactions of linked accounts are candidates.  Which payments    *)
(* are accepted, and when a loan is settled, is the subject of LoanBook.   *)
(***************************************************************************)
EXTENDS AuditTrail, FiniteSets, Folds

CONSTANTS
    Transactions, \* bank transactions, numbered in the order of transaction_date
    Amount,       \* per transaction: its amount
    Date,         \* per transaction: the day of its transaction_date, at one hour for all
    Account,      \* per transaction: the bank account it is on
    Mentions,     \* per transaction: the references its narration contains
    Eligible,     \* the transactions that are debits of a savings or current account
    BankAccounts,
    RepaymentIds,
    Due,          \* the amount due on each repayment
    References,   \* what a payer may give as transaction_reference, beside nothing
    PaymentDays,  \* the days payments are made on
    Workers,
    None,         \* nobody, nothing; also the empty reference
    MaxEvents     \* per bank account: bound on its audit events

ASSUME TransactionsAssumption ==
    /\ Transactions \subseteq Nat
    /\ \A s, t \in Transactions : s < t => Date[s] <= Date[t]
    /\ Eligible \subseteq Transactions
ASSUME AttributesAssumption ==
    /\ Amount \in [Transactions -> Nat \ {0}]
    /\ Date \in [Transactions -> Nat]
    /\ Account \in [Transactions -> BankAccounts]
    /\ Mentions \in [Transactions -> SUBSET References]
ASSUME PaymentsAssumption ==
    Due \in Nat /\ PaymentDays \subseteq Nat /\ MaxEvents \in [BankAccounts -> Nat]
ASSUME NoneAssumption == None \notin Transactions \cup References \cup RepaymentIds

VARIABLES
    status,   \* per bank account: the status of its DiscoveredAccount row, or "none"
    trail,    \* per bank account: the audit events of that status
    arrived,  \* the transactions that are stored
    rows,     \* per repayment: what apply_payment keeps of it
    pc,       \* per worker: what it does next
    call,     \* per worker: the call it serves, or None
    seen,     \* per worker: the account status it has read
    result    \* per worker: the ReconciliationResult of its payment

rcVars == <<status, trail, arrived, rows, pc, call, seen, result>>
-----------------------------------------------------------------------------
Statuses == {"unlinked", "linked", "dismissed"}
Changes == [from : Statuses \cup {"none"}, to : Statuses]

Confidences == {"", "low", "medium", "high"}

Results == [matched : Transactions \cup {None}, confidence : Confidences, review : BOOLEAN]
NoResult == [matched |-> None, confidence |-> "", review |-> FALSE]

Rows == [paid : 0 .. Due, reference : References \cup {None}, matched : Transactions \cup {None},
         confidence : Confidences, review : BOOLEAN]
NewRow == [paid |-> 0, reference |-> None, matched |-> None, confidence |-> "", review |-> FALSE]

Payments == [op : {"pay"}, repayment : RepaymentIds, amount : 1 .. Due, day : PaymentDays,
             reference : References \cup {None}]
\* link_account, dismiss_account and unlink_account.
Actions == [op : {"mark"}, account : BankAccounts, status : Statuses]
-----------------------------------------------------------------------------
Distance(s, t) == IF s < t THEN t - s ELSE s - t

\* The stored transactions that may be what the payment was made with.
Candidates(pay) ==
    {t \in arrived \cap Eligible :
        /\ Amount[t] = pay.amount
        /\ Distance(Date[t], pay.day) <= 5
        /\ status[Account[t]] = "linked"}

\* Faulty: the empty reference is found in every narration.
RefersByDefault(t, pay) == pay.reference \in Mentions[t] \cup {None}

Refers(t, pay) == pay.reference \in Mentions[t]

Score(t, pay) ==
    LET days == Distance(Date[t], pay.day)
    IN  (IF Refers(t, pay) THEN 7 ELSE 0)
        + (IF days = 0 THEN 3 ELSE IF days <= 2 THEN 2 ELSE 1)

\* Faulty: a low score is named none.
ConfidenceOrNone(score) == IF score >= 8 THEN "high" ELSE IF score >= 4 THEN "medium" ELSE "none"

Confidence(score) == IF score >= 8 THEN "high" ELSE IF score >= 4 THEN "medium" ELSE "low"

\* Faulty: the later of two equal candidates is kept.
BetterOrEqual(t, best, pay) == best = None \/ Score(t, pay) >= Score(best, pay)

\* A candidate replaces the best one so far when it scores more.
Better(t, best, pay) == best = None \/ Score(t, pay) > Score(best, pay)

\* Of some transactions the one that comes last when ordered by transaction_date.
Latest(ts) == CHOOSE t \in ts : \A s \in ts : s <= t

\* The loop over the candidates, ordered by transaction_date: the best one is what
\* the latest candidate leaves of the best one among those before it.
BestMatch(pay) ==
    MapThenFoldSet(LAMBDA t, best : IF Better(t, best, pay) THEN t ELSE best,
                   None, LAMBDA t : t, Latest, Candidates(pay))

\* match_repayment_transaction
Reconcile(pay) ==
    LET best == BestMatch(pay)
    IN  IF best = None
        THEN [NoResult EXCEPT !.review = pay.reference # None]
        ELSE [matched |-> best, confidence |-> Confidence(Score(best, pay)), review |-> FALSE]
-----------------------------------------------------------------------------
RCInit ==
    /\ status = [a \in BankAccounts |-> "none"]
    /\ trail = [a \in BankAccounts |-> <<>>]
    /\ arrived = {}
    /\ rows = [r \in RepaymentIds |-> NewRow]
    /\ pc = [w \in Workers |-> "idle"]
    /\ call = [w \in Workers |-> None]
    /\ seen = [w \in Workers |-> "none"]
    /\ result = [w \in Workers |-> NoResult]

\* discover_account, by hand or for an email, makes a row that is unlinked.
DiscoverAccount(a) ==
    /\ status[a] = "none"
    /\ status' = [status EXCEPT ![a] = "unlinked"]
    /\ trail' = [trail EXCEPT ![a] = Append(@, Change("none", "unlinked"))]
    /\ UNCHANGED <<arrived, rows, pc, call, seen, result>>

\* create_transaction, entered by hand or ingested.
CreateTransaction(t) ==
    /\ t \notin arrived
    /\ arrived' = arrived \cup {t}
    /\ UNCHANGED <<status, trail, rows, pc, call, seen, result>>

Idle(w) ==
    /\ pc' = [pc EXCEPT ![w] = "idle"]
    /\ call' = [call EXCEPT ![w] = None]
    /\ seen' = [seen EXCEPT ![w] = "none"]
    /\ result' = [result EXCEPT ![w] = NoResult]

\* A status action reads the account, without a lock.
ReadAccount(w, action) ==
    /\ pc[w] = "idle"
    /\ status[action.account] # "none"
    /\ Len(trail[action.account]) < MaxEvents[action.account]
    /\ pc' = [pc EXCEPT ![w] = "write"]
    /\ call' = [call EXCEPT ![w] = action]
    /\ seen' = [seen EXCEPT ![w] = status[action.account]]
    /\ UNCHANGED <<status, trail, arrived, rows, result>>

\* Faulty: only what happens to a new account is recorded.
RecordedOnce(a, from, to) == IF from = "unlinked" THEN Append(trail[a], Change(from, to)) ELSE trail[a]

\* _record_status_change starts from the status that was read.
Recorded(a, from, to) == IF from # to THEN Append(trail[a], Change(from, to)) ELSE trail[a]

\* It writes the new status whatever the row has become, and commits.
WriteAccount(w) ==
    /\ pc[w] = "write"
    /\ status' = [status EXCEPT ![call[w].account] = call[w].status]
    /\ trail' = [trail EXCEPT ![call[w].account] =
            Recorded(call[w].account, seen[w], call[w].status)]
    /\ Idle(w)
    /\ UNCHANGED <<arrived, rows>>

\* apply_payment has the lock of the repayment row and looks for a transaction.
Match(w, pay) ==
    /\ pc[w] = "idle"
    /\ \A v \in Workers : pc[v] = "commit" => call[v].repayment # pay.repayment
    /\ pay.amount <= Due - rows[pay.repayment].paid
    /\ pc' = [pc EXCEPT ![w] = "commit"]
    /\ call' = [call EXCEPT ![w] = pay]
    /\ result' = [result EXCEPT ![w] = Reconcile(pay)]
    /\ UNCHANGED <<status, trail, arrived, rows, seen>>

\* Faulty: an earlier match stays when there is no new one.
MatchedOrBefore(w, r) == IF result[w].matched = None THEN rows[r].matched ELSE result[w].matched

\* The transaction a repayment is matched with once worker w has paid on it.
Matched(w, r) == result[w].matched

\* The result replaces that of an earlier partial payment, and the payment commits.
CommitPayment(w) ==
    /\ pc[w] = "commit"
    /\ LET r == call[w].repayment
       IN  rows' = [rows EXCEPT ![r] =
               [paid |-> @.paid + call[w].amount, reference |-> call[w].reference,
                matched |-> Matched(w, r), confidence |-> result[w].confidence,
                review |-> result[w].review]]
    /\ Idle(w)
    /\ UNCHANGED <<status, trail, arrived>>

\* The call fails, and its transaction is rolled back.
Rollback(w) ==
    /\ pc[w] # "idle"
    /\ Idle(w)
    /\ UNCHANGED <<status, trail, arrived, rows>>

RCNext ==
    \/ \E a \in BankAccounts : DiscoverAccount(a)
    \/ \E t \in Transactions : CreateTransaction(t)
    \/ \E w \in Workers :
        \/ \E action \in Actions : ReadAccount(w, action)
        \/ \E pay \in Payments : Match(w, pay)
        \/ WriteAccount(w) \/ CommitPayment(w) \/ Rollback(w)

RCSpec == RCInit /\ [][RCNext]_rcVars
-----------------------------------------------------------------------------
RCTypeOK ==
    /\ status \in [BankAccounts -> Statuses \cup {"none"}]
    /\ trail \in [BankAccounts -> Seq(Changes)]
    /\ arrived \subseteq Transactions
    /\ rows \in [RepaymentIds -> Rows]
    /\ pc \in [Workers -> {"idle", "write", "commit"}]
    /\ call \in [Workers -> Payments \cup Actions \cup {None}]
    /\ seen \in [Workers -> Statuses \cup {"none"}]
    /\ result \in [Workers -> Results]

\* The loop of match_repayment_transaction finds what its scores are meant to say:
\* a transaction that mentions the reference before all others, then the one that
\* is closest to the day of the payment in the three steps of the score, then the
\* earliest; with high confidence exactly when it mentions the reference, and
\* never with medium.
MatchesAreBest ==
    \A pay \in Payments :
        LET best == BestMatch(pay)
            level(t) == LET d == Distance(Date[t], pay.day)
                        IN  IF d = 0 THEN 0 ELSE IF d <= 2 THEN 1 ELSE 2
            mentions(t) == pay.reference # None /\ pay.reference \in Mentions[t]
        IN  IF Candidates(pay) = {}
            THEN best = None
            ELSE /\ best \in Candidates(pay)
                 /\ \A t \in Candidates(pay) \ {best} :
                        \/ mentions(best) /\ ~mentions(t)
                        \/ /\ mentions(best) <=> mentions(t)
                           /\ level(best) < level(t) \/ (level(best) = level(t) /\ best < t)
                 /\ Confidence(Score(best, pay)) = IF mentions(best) THEN "high" ELSE "low"

\* What a repayment row says of its match fits together after any number of
\* partial payments, while accounts are unlinked and transactions arrive: the
\* transaction is of an account that is on record as linked at some time, the
\* confidence fits the reference on the row, and a row is put up for review
\* exactly when it has a reference and no match.
MatchesTellTheRow ==
    \A r \in RepaymentIds : rows[r].paid > 0 =>
        /\ rows[r].review <=> (rows[r].reference # None /\ rows[r].matched = None)
        /\ rows[r].matched = None <=> rows[r].confidence = ""
        /\ rows[r].matched # None =>
            /\ rows[r].confidence = "high" <=> rows[r].reference \in Mentions[rows[r].matched]
            /\ Amount[rows[r].matched] <= rows[r].paid
            /\ \E i \in 1 .. Len(trail[Account[rows[r].matched]]) :
                    trail[Account[rows[r].matched]][i].to = "linked"
=============================================================================
