-------------------------- MODULE LoanRequestsProofs --------------------------
(***************************************************************************)
(* Theorems about LoanRequests, for any users, loans, keys, terms, reasons *)
(* and workers and any set of calls.                                       *)
(***************************************************************************)
EXTENDS LoanRequests, TLAPS

(***************************************************************************)
(* The inductive invariant.                                                *)
(***************************************************************************)

\* A row, or the draft of one, has the parties and the terms of creation call c.
OfRequest(row, c) == row.lender = c.by /\ row.borrower = c.to /\ row.terms = c.terms

\* Loan l is what a successful answer to call c may name.
Fits(c, l) ==
    /\ Exists(loans[l])
    /\ IF c.op = "create"
       THEN OfRequest(loans[l], c)
       ELSE l = c.loan /\ c.by = Party(c, loans[l])

\* The steps at which a transaction has its row, not yet committed.
Writing == {"store", "enqueue", "commit"}

Creating(w) == pc[w] \in Writing /\ call[w].op = "create"
Deciding(w) == pc[w] \in Writing /\ call[w].op # "create"

\* A busy worker has a call, a creation its draft from the start, and whoever
\* writes a loan and a row.
ServesCall(w) ==
    /\ pc[w] # "idle" => call[w] \in Calls
    /\ pc[w] # "idle" /\ call[w].op = "create" =>
        /\ draft[w] \in Rows
        /\ draft[w].status \in Pending
        /\ OfRequest(draft[w], call[w])
    /\ pc[w] = "insert" => call[w].op = "create"
    /\ pc[w] = "lock" => call[w].op # "create"
    /\ pc[w] \in Writing \cup {"publish"} => loan[w] \in Loans /\ draft[w] \in Rows

\* The loan that a transaction creates has its primary key to itself and is seen
\* by nobody.
CreatesAlone(w) ==
    Creating(w) =>
        /\ loan[w] \in issued
        /\ loans[loan[w]] = NoRow
        /\ \A v \in Workers \ {w} : Creating(v) => loan[v] # loan[w]

\* The loan that a transaction decides on is locked by it, fits its call, and is
\* as it was when the decision was drafted.
DecidesAlone(w) ==
    Deciding(w) =>
        /\ lock[loan[w]] = w
        /\ Fits(call[w], loan[w])
        /\ \/ draft[w] = loans[loan[w]]
           \/ /\ loans[loan[w]].status \in Pending
              /\ draft[w] = Decided(call[w], loans[loan[w]])

\* After the commit the loan fits the call, and a decision stands.
PublishesCommitted(w) ==
    pc[w] = "publish" =>
        /\ Fits(call[w], loan[w])
        /\ draft[w].status \notin Pending => loans[loan[w]] = draft[w]

\* Before the commit the task of the change is on the broker.
ToldBeforeCommit(w) ==
    pc[w] = "commit" /\ Tells(w) => <<Telling[draft[w].status], loan[w]>> \in notices

WorkerInv(w) ==
    /\ ServesCall(w)
    /\ CreatesAlone(w)
    /\ DecidesAlone(w)
    /\ PublishesCommitted(w)
    /\ ToldBeforeCommit(w)

WorkersInv == \A w \in Workers : WorkerInv(w)

RowsHaveIssuedKeys == \A l \in Loans : Exists(loans[l]) => l \in issued

\* An idempotency record names a loan that fits its request.  That of a creation
\* may name a loan that does not exist, because the transaction is still under way
\* or was rolled back; nobody else will ever get that primary key.
RecordFits(r) ==
    IF r.fingerprint.op = "create"
    THEN /\ r.loan \in issued
         /\ Exists(loans[r.loan]) => OfRequest(loans[r.loan], r.fingerprint)
         /\ \A w \in Workers :
                Creating(w) /\ loan[w] = r.loan => OfRequest(draft[w], r.fingerprint)
    ELSE Fits(r.fingerprint, r.loan)

RecordsFit == \A s \in Slots : cache[s] # None => RecordFits(cache[s])

RequestsInv ==
    /\ TypeOK
    /\ WorkersInv
    /\ RowsHaveIssuedKeys
    /\ RecordsFit
    /\ AnswersFitCalls

(***************************************************************************)
(* Facts about the operators.                                              *)
(***************************************************************************)

\* The fingerprint of a call tells its request: everything but the key.
LEMMA FingerprintTellsRequest ==
    ASSUME NEW c \in Calls
    PROVE  /\ Fingerprint(c).op = c.op
           /\ Fingerprint(c).by = c.by
           /\ c.op = "create" => /\ Fingerprint(c).to = c.to
                                 /\ Fingerprint(c).terms = c.terms
           /\ c.op # "create" => Fingerprint(c).loan = c.loan
<1>1. CASE c \in CreateCalls
  BY <1>1 DEF CreateCalls, Fingerprint
<1>2. CASE c \in DecisionCalls
  BY <1>2 DEF DecisionCalls, Fingerprint
<1>3. CASE c \in RejectCalls
  BY <1>3 DEF RejectCalls, Fingerprint
<1> QED
  BY <1>1, <1>2, <1>3, CallsAssumption DEF AllCalls

\* So a loan fits a call if and only if it fits the fingerprint of the call.
LEMMA FitsFingerprint ==
    ASSUME NEW c \in Calls
    PROVE  /\ \A l : Fits(Fingerprint(c), l) <=> Fits(c, l)
           /\ \A row : c.op = "create" => (OfRequest(row, Fingerprint(c)) <=> OfRequest(row, c))
BY FingerprintTellsRequest DEF Fits, OfRequest, Party

\* What the fields of a call are.
LEMMA CallFields ==
    ASSUME NEW c \in Calls
    PROVE  /\ c.op \in Operations
           /\ c.key \in Keys
           /\ c.by \in Users
           /\ c.op = "create" => c.to \in Users /\ c.terms \in Terms
           /\ c.op # "create" => c.loan \in Loans
           /\ c.op = "reject" => c.reason \in Reasons
           /\ Slot(c) \in Slots
BY CallsAssumption DEF AllCalls, CreateCalls, DecisionCalls, RejectCalls, Operations, Slot, Slots

\* A decision on a row is a row, with the parties and terms of that row.
LEMMA DecidedRow ==
    ASSUME NEW c \in Calls, c.op # "create", NEW row \in Rows
    PROVE  /\ Decided(c, row) \in Rows
           /\ Decided(c, row).lender = row.lender
           /\ Decided(c, row).borrower = row.borrower
           /\ Decided(c, row).terms = row.terms
           /\ Decided(c, row).status \notin Pending
<1>1. c.op \in {"accept", "reject", "cancel"} /\ (c.op = "reject" => c.reason \in Reasons)
  BY CallFields DEF Operations
<1>2. CASE c.op = "accept"
  BY <1>2 DEF Decided, Rows, Status, Pending
<1>3. CASE c.op = "reject"
  BY <1>1, <1>3 DEF Decided, Rows, Status, Pending
<1>4. CASE c.op = "cancel"
  BY <1>4 DEF Decided, Rows, Status, Pending
<1> QED
  BY <1>1, <1>2, <1>3, <1>4

\* A row exists if and only if it is not NoRow.
LEMMA ExistingRows ==
    ASSUME TypeOK, NEW l \in Loans
    PROVE  /\ Exists(loans[l]) <=> loans[l] \in Rows
           /\ Exists(loans[l]) <=> loans[l] # NoRow
BY DEF TypeOK, Exists, NoRow, Rows, Status

\* A worker that leaves has no part in the invariant, and the others stay as
\* they are.
LEMMA LeavingWorker ==
    ASSUME TypeOK, NEW w \in Workers, Leave(w)
    PROVE  /\ pc' \in [Workers -> Steps]
           /\ call' \in [Workers -> Calls \cup {None}]
           /\ loan' \in [Workers -> Loans \cup {None}]
           /\ draft' \in [Workers -> Rows \cup {NoRow}]
           /\ invites' \in [Workers -> BOOLEAN]
           /\ pc'[w] = "idle"
           /\ \A v \in Workers \ {w} :
                /\ pc'[v] = pc[v]
                /\ call'[v] = call[v]
                /\ loan'[v] = loan[v]
                /\ draft'[v] = draft[v]
BY DEF TypeOK, Leave, Goto, Steps

\* Unlocking takes the locks of one worker only.
LEMMA UnlockedLoans ==
    ASSUME TypeOK, NEW w \in Workers, Unlock(w)
    PROVE  /\ lock' \in [Loans -> Workers \cup {None}]
           /\ \A v \in Workers \ {w}, l \in Loans : lock[l] = v => lock'[l] = v
BY DEF TypeOK, Unlock

(***************************************************************************)
(* Type correctness.                                                       *)
(***************************************************************************)

\* The types hold at first.
LEMMA TypeInit == Init => TypeOK
BY DEF Init, TypeOK, Steps

\* Steps keep the types; what a call writes is of the right kind at each of its steps.
LEMMA TypeNext == TypeOK /\ WorkersInv /\ [Next]_vars => TypeOK'
<1> SUFFICES ASSUME TypeOK, WorkersInv, [Next]_vars PROVE TypeOK'
  OBVIOUS
<1> USE DEF Goto, book, outside, local
<1>1. ASSUME NEW w \in Workers, NEW c \in Calls, Start(w, c) PROVE TypeOK'
  <2>1. draft' \in [Workers -> Rows \cup {NoRow}]
    <3>1. c.op = "create" => NewRow(c) \in Rows
      BY CallFields DEF NewRow, Rows, Status
    <3> QED
      BY <1>1, <3>1 DEF TypeOK, Start
  <2>2. invites' \in [Workers -> BOOLEAN]
    BY <1>1 DEF TypeOK, Start
  <2> QED
    BY <1>1, <2>1, <2>2 DEF TypeOK, Start, Steps
<1>2. ASSUME NEW w \in Workers, ResolveNew(w) PROVE TypeOK'
  BY <1>2 DEF TypeOK, ResolveNew, Steps
<1>3. ASSUME NEW w \in Workers, ResolveReplay(w) PROVE TypeOK'
  <2>1. Known(w) \in Records /\ call[w] \in Calls
    BY <1>3, CallFields DEF ResolveReplay, WorkersInv, WorkerInv, ServesCall, Known, TypeOK
  <2>2. answer' \in [Workers -> [call : Calls, loan : Loans] \cup {None}]
    BY <1>3, <2>1 DEF ResolveReplay, Answer, Records, TypeOK
  <2> QED
    BY <1>3, <2>2, LeavingWorker DEF TypeOK, ResolveReplay
<1>4. ASSUME NEW w \in Workers, ResolveError(w) PROVE TypeOK'
  BY <1>4, LeavingWorker DEF TypeOK, ResolveError
<1>5. ASSUME NEW w \in Workers, Insert(w) PROVE TypeOK'
  BY <1>5 DEF TypeOK, Insert, Steps
<1>6. ASSUME NEW w \in Workers, LockAndDecide(w) PROVE TypeOK'
  <2>1. call[w] \in Calls /\ call[w].op # "create" /\ call[w].loan \in Loans
    BY <1>6, CallFields DEF LockAndDecide, WorkersInv, WorkerInv, ServesCall
  <2>2. loans[call[w].loan] \in Rows
    BY <1>6, <2>1, ExistingRows DEF LockAndDecide
  <2>3. draft' \in [Workers -> Rows \cup {NoRow}]
    BY <1>6, <2>1, <2>2, DecidedRow DEF LockAndDecide, TypeOK
  <2> QED
    BY <1>6, <2>1, <2>3 DEF TypeOK, LockAndDecide, Steps
<1>7. ASSUME NEW w \in Workers, LockAndRefuse(w) PROVE TypeOK'
  BY <1>7, LeavingWorker DEF TypeOK, LockAndRefuse
<1>8. ASSUME NEW w \in Workers, Store(w) PROVE TypeOK'
  <2>1. loan[w] \in Loans /\ call[w] \in Calls
    BY <1>8 DEF Store, WorkersInv, WorkerInv, ServesCall, Writing
  <2>2. Record(loan[w], call[w]) \in Records
    BY <2>1 DEF Record, Records
  <2> QED
    BY <1>8, <2>2 DEF TypeOK, Store, Steps
<1>9. ASSUME NEW w \in Workers, Enqueue(w) PROVE TypeOK'
  <2>1. loan[w] \in Loans /\ draft[w] \in Rows
    BY <1>9 DEF Enqueue, WorkersInv, WorkerInv, ServesCall, Writing
  <2>2. Telling[draft[w].status] \in {"created", "accepted", "rejected", "cancelled"}
    BY <2>1 DEF Telling, Rows, Status
  <2> QED
    BY <1>9, <2>1, <2>2 DEF TypeOK, Enqueue, Steps
<1>10. ASSUME NEW w \in Workers, Commit(w) PROVE TypeOK'
  <2>1. loan[w] \in Loans /\ draft[w] \in Rows /\ call[w] \in Calls
    BY <1>10 DEF Commit, WorkersInv, WorkerInv, ServesCall, Writing
  <2>2. /\ users' \in [Users -> {"absent", "invited", "active"}]
        /\ loans' \in [Loans -> Rows \cup {NoRow}]
    BY <1>10, <2>1 DEF TypeOK, Commit
  <2>3. CASE Changes(w)
    BY <1>10, <2>2, <2>3, UnlockedLoans DEF TypeOK, Commit, Steps
  <2>4. CASE ~Changes(w)
    <3>1. answer' \in [Workers -> [call : Calls, loan : Loans] \cup {None}]
      BY <1>10, <2>1, <2>4 DEF Commit, Answer, TypeOK
    <3>2. Leave(w)
      BY <1>10, <2>4 DEF Commit
    <3> QED
      BY <1>10, <2>2, <3>1, <3>2, UnlockedLoans, LeavingWorker DEF TypeOK, Commit
  <2> QED
    BY <2>3, <2>4
<1>11. ASSUME NEW w \in Workers, Publish(w) PROVE TypeOK'
  <2>1. loan[w] \in Loans /\ draft[w] \in Rows /\ call[w] \in Calls
    BY <1>11 DEF Publish, WorkersInv, WorkerInv, ServesCall, Writing
  <2>2. Telling[draft[w].status] \in {"created", "accepted", "rejected", "cancelled"}
    BY <2>1 DEF Telling, Rows, Status
  <2>3. answer' \in [Workers -> [call : Calls, loan : Loans] \cup {None}]
    BY <1>11, <2>1 DEF Publish, Answer, TypeOK
  <2> QED
    BY <1>11, <2>1, <2>2, <2>3, LeavingWorker DEF TypeOK, Publish
<1>12. ASSUME NEW w \in Workers, Fail(w) PROVE TypeOK'
  BY <1>12, LeavingWorker, UnlockedLoans DEF TypeOK, Fail
<1>13. ASSUME NEW s \in Slots, Expire(s) PROVE TypeOK'
  BY <1>13 DEF TypeOK, Expire
<1>14. ASSUME NEW u \in Users, Register(u) PROVE TypeOK'
  BY <1>14 DEF TypeOK, Register
<1>15. CASE UNCHANGED vars
  BY <1>15 DEF TypeOK, vars
<1> QED
  BY <1>1, <1>2, <1>3, <1>4, <1>5, <1>6, <1>7, <1>8, <1>9, <1>10, <1>11, <1>12, <1>13,
     <1>14, <1>15 DEF Next

(***************************************************************************)
(* Loans keep their parties, and decisions stand.                          *)
(***************************************************************************)

\* From one state to the next an existing loan keeps its parties and terms, and
\* its row if it is decided.
RowsKept ==
    \A l \in Loans : Exists(loans[l]) =>
        /\ Exists(loans[l])'
        /\ loans'[l].lender = loans[l].lender
        /\ loans'[l].borrower = loans[l].borrower
        /\ loans'[l].terms = loans[l].terms
        /\ loans[l].status \notin Pending => loans'[l] = loans[l]

\* A commit writes the draft of its worker, which is a row of the worker's own.
LEMMA CommittedRow ==
    ASSUME RequestsInv, NEW w \in Workers, Commit(w)
    PROVE  /\ call[w] \in Calls
           /\ loan[w] \in Loans
           /\ draft[w] \in Rows
           /\ loans'[loan[w]] = draft[w]
           /\ \A l \in Loans \ {loan[w]} : loans'[l] = loans[l]
           /\ RowsKept
<1>1. pc[w] = "commit" /\ call[w] \in Calls /\ loan[w] \in Loans /\ draft[w] \in Rows
  BY DEF Commit, RequestsInv, WorkersInv, WorkerInv, ServesCall, Writing
<1>2. loans'[loan[w]] = draft[w] /\ \A l \in Loans \ {loan[w]} : loans'[l] = loans[l]
  BY <1>1 DEF Commit, RequestsInv, TypeOK
<1>3. Exists(draft[w])
  BY <1>1 DEF Exists, Rows, Status
<1>4. CASE Creating(w)
  <2>1. loans[loan[w]] = NoRow
    BY <1>4 DEF RequestsInv, WorkersInv, WorkerInv, CreatesAlone
  <2> QED
    BY <1>1, <1>2, <2>1 DEF RowsKept, Exists, NoRow
<1>5. CASE Deciding(w)
  <2> DEFINE row == loans[loan[w]]
  <2>1. /\ row \in Rows
        /\ \/ draft[w] = row
           \/ row.status \in Pending /\ draft[w] = Decided(call[w], row)
    BY <1>1, <1>5, ExistingRows DEF RequestsInv, WorkersInv, WorkerInv, DecidesAlone, Fits
  <2>2. /\ draft[w].lender = row.lender
        /\ draft[w].borrower = row.borrower
        /\ draft[w].terms = row.terms
        /\ row.status \notin Pending => draft[w] = row
    BY <1>1, <1>5, <2>1, DecidedRow DEF Deciding
  <2> QED
    BY <1>1, <1>2, <1>3, <2>2 DEF RowsKept, Exists
<1> QED
  BY <1>1, <1>2, <1>4, <1>5 DEF Creating, Deciding, Writing

\* Nothing but a commit writes loans.
LEMMA RowsKeptNext == RequestsInv /\ [Next]_vars => RowsKept
<1> SUFFICES ASSUME RequestsInv, [Next]_vars PROVE RowsKept
  OBVIOUS
<1>1. ASSUME NEW w \in Workers, Commit(w) PROVE RowsKept
  BY <1>1, CommittedRow
<1>2. CASE loans' = loans
  BY <1>2 DEF RowsKept, Exists
<1> QED
  BY <1>1, <1>2 DEF Next, vars, book, Start, ResolveNew, ResolveReplay, ResolveError, Insert,
     LockAndDecide, LockAndRefuse, Store, Enqueue, Publish, Fail, Expire, Register

\* What fits a call goes on to fit it.
LEMMA FitsKept ==
    ASSUME RowsKept, NEW c, NEW l \in Loans, Fits(c, l)
    PROVE  Fits(c, l)'
BY DEF RowsKept, Fits, OfRequest, Party

(***************************************************************************)
(* The steps of the inductive invariant.                                   *)
(***************************************************************************)

\* What the others do leaves a worker the part of the invariant that speaks of
\* it, as long as its own row, its lock and its primary key are left alone.
LEMMA Bystander ==
    ASSUME RequestsInv, RowsKept, NEW v \in Workers,
           pc'[v] = pc[v], call'[v] = call[v], loan'[v] = loan[v], draft'[v] = draft[v],
           issued \subseteq issued', notices \subseteq notices',
           Creating(v) \/ Deciding(v) => loans'[loan[v]] = loans[loan[v]],
           Deciding(v) => lock'[loan[v]] = v,
           Creating(v) => \A u \in Workers \ {v} : Creating(u)' => loan'[u] # loan[v]
    PROVE  WorkerInv(v)'
<1>1. WorkerInv(v)
  BY DEF RequestsInv, WorkersInv
<1>2. ServesCall(v)'
  BY <1>1 DEF WorkerInv, ServesCall, OfRequest
<1>3. CreatesAlone(v)'
  BY <1>1 DEF WorkerInv, CreatesAlone, Creating
<1>4. DecidesAlone(v)'
  BY <1>1 DEF WorkerInv, DecidesAlone, Deciding, Fits, OfRequest, Party, Decided
<1>5. PublishesCommitted(v)'
  <2> SUFFICES ASSUME pc[v] = "publish" PROVE PublishesCommitted(v)'
    BY DEF PublishesCommitted
  <2>1. loan[v] \in Loans /\ Fits(call[v], loan[v]) /\ Exists(loans[loan[v]])
    BY <1>1 DEF WorkerInv, ServesCall, PublishesCommitted, Fits
  <2>2. Fits(call[v], loan[v])'
    BY <2>1 DEF RowsKept, Fits, OfRequest, Party
  <2>3. draft[v].status \notin Pending => loans'[loan[v]] = draft[v]
    BY <1>1, <2>1 DEF WorkerInv, PublishesCommitted, RowsKept
  <2> QED
    BY <2>2, <2>3 DEF PublishesCommitted, Fits
<1>6. ToldBeforeCommit(v)'
  BY <1>1 DEF WorkerInv, ToldBeforeCommit, Tells, Changes, Creating, Deciding, Writing
<1> QED
  BY <1>2, <1>3, <1>4, <1>5, <1>6 DEF WorkerInv

\* A worker that has left asks nothing of the invariant.
LEMMA IdleWorker ==
    ASSUME NEW w \in Workers, pc'[w] = "idle"
    PROVE  WorkerInv(w)'
BY DEF WorkerInv, ServesCall, CreatesAlone, DecidesAlone, PublishesCommitted, ToldBeforeCommit,
   Creating, Deciding, Writing

\* A step of w that leaves the others' rows, locks and keys alone keeps the
\* invariant of every worker if it keeps that of w.
LEMMA OneWorkerSteps ==
    ASSUME RequestsInv, RowsKept, NEW w \in Workers, WorkerInv(w)',
           issued \subseteq issued', notices \subseteq notices',
           \A v \in Workers \ {w} :
                /\ pc'[v] = pc[v] /\ call'[v] = call[v]
                /\ loan'[v] = loan[v] /\ draft'[v] = draft[v]
                /\ Creating(v) \/ Deciding(v) => loans'[loan[v]] = loans[loan[v]]
                /\ Deciding(v) => lock'[loan[v]] = v,
           Creating(w)' => \/ Creating(w) /\ loan'[w] = loan[w]
                           \/ loan'[w] \notin issued
    PROVE  WorkersInv'
<1>1. ASSUME NEW v \in Workers \ {w} PROVE WorkerInv(v)'
  <2>1. WorkerInv(v) /\ WorkerInv(w)
    BY DEF RequestsInv, WorkersInv
  <2>2. ASSUME Creating(v), NEW u \in Workers \ {v}, Creating(u)' PROVE loan'[u] # loan[v]
    <3>1. loan[v] \in issued /\ \A t \in Workers \ {v} : Creating(t) => loan[t] # loan[v]
      BY <2>1, <2>2 DEF WorkerInv, CreatesAlone
    <3>2. CASE u = w
      BY <2>2, <3>1, <3>2
    <3>3. CASE u # w
      BY <2>2, <3>1, <3>3 DEF Creating
    <3> QED
      BY <3>2, <3>3
  <2> QED
    BY <2>2, Bystander
<1> QED
  BY <1>1 DEF WorkersInv

\* The lock of another worker, and the row it is on, are out of w's reach.
LEMMA OthersRows ==
    ASSUME RequestsInv, NEW w \in Workers, NEW v \in Workers \ {w},
           Creating(w) \/ Deciding(w), Creating(v) \/ Deciding(v)
    PROVE  loan[v] # loan[w]
<1>1. WorkerInv(w) /\ WorkerInv(v)
  BY DEF RequestsInv, WorkersInv
<1>2. ~Exists(NoRow)
  BY DEF Exists, NoRow
<1> QED
  BY <1>1, <1>2 DEF WorkerInv, CreatesAlone, DecidesAlone, Fits

\* A step keeps what each call relies on, its own step and that of another.
LEMMA WorkersNext == RequestsInv /\ [Next]_vars => WorkersInv'
<1> SUFFICES ASSUME RequestsInv, [Next]_vars PROVE WorkersInv'
  OBVIOUS
<1>0. RowsKept /\ TypeOK /\ WorkersInv
  BY RowsKeptNext DEF RequestsInv
<1>a. \A v \in Workers : Deciding(v) => lock[loan[v]] = v /\ loan[v] \in Loans
  BY <1>0 DEF WorkersInv, WorkerInv, DecidesAlone, ServesCall, Deciding
<1> USE DEF Goto, book, outside, local
<1>1. ASSUME NEW w \in Workers, NEW c \in Calls, Start(w, c) PROVE WorkersInv'
  <2>1. c.op = "create" => NewRow(c) \in Rows /\ NewRow(c).status \in Pending /\ OfRequest(NewRow(c), c)
    BY CallFields DEF NewRow, Rows, Status, Pending, OfRequest
  <2>2. pc'[w] = "resolve" /\ call'[w] = c /\ (c.op = "create" => draft'[w] = NewRow(c))
    BY <1>0, <1>1 DEF Start, TypeOK
  <2>3. WorkerInv(w)'
    BY <2>1, <2>2 DEF WorkerInv, ServesCall, CreatesAlone, DecidesAlone, PublishesCommitted,
       ToldBeforeCommit, Creating, Deciding, Writing, OfRequest
  <2>4. ~Creating(w)'
    BY <2>2 DEF Creating, Writing
  <2>5. \A v \in Workers \ {w} : /\ pc'[v] = pc[v] /\ call'[v] = call[v]
                                 /\ loan'[v] = loan[v] /\ draft'[v] = draft[v]
    BY <1>0, <1>1 DEF Start, TypeOK
  <2> QED
    BY <1>0, <1>a, <1>1, <2>3, <2>4, <2>5, OneWorkerSteps DEF Start
<1>2. ASSUME NEW w \in Workers, ResolveNew(w) PROVE WorkersInv'
  <2>1. WorkerInv(w)
    BY <1>0 DEF WorkersInv
  <2>2. pc'[w] = IF call[w].op = "create" THEN "insert" ELSE "lock"
    BY <1>0, <1>2 DEF ResolveNew, TypeOK
  <2>3. WorkerInv(w)'
    BY <1>2, <2>1, <2>2 DEF ResolveNew, WorkerInv, ServesCall, CreatesAlone, DecidesAlone,
       PublishesCommitted, ToldBeforeCommit, Creating, Deciding, Writing, OfRequest
  <2>4. ~Creating(w)'
    BY <2>2 DEF Creating, Writing
  <2> QED
    BY <1>0, <1>a, <1>2, <2>3, <2>4, OneWorkerSteps DEF ResolveNew, TypeOK
<1>3. ASSUME NEW w \in Workers, ResolveReplay(w) \/ ResolveError(w) \/ LockAndRefuse(w)
      PROVE  WorkersInv'
  <2>1. Leave(w) /\ UNCHANGED <<book, outside, lock>>
    BY <1>3 DEF ResolveReplay, ResolveError, LockAndRefuse
  <2>2. WorkerInv(w)' /\ ~Creating(w)'
    BY <1>0, <2>1, LeavingWorker, IdleWorker DEF Creating, Writing
  <2> QED
    BY <1>0, <1>a, <2>1, <2>2, LeavingWorker, OneWorkerSteps
<1>4. ASSUME NEW w \in Workers, Insert(w) PROVE WorkersInv'
  <2>1. PICK l \in Loans \ issued :
            issued' = issued \cup {l} /\ loan' = [loan EXCEPT ![w] = l]
    BY <1>4 DEF Insert
  <2>2. pc'[w] = "store" /\ loan'[w] = l
    BY <1>0, <1>4, <2>1 DEF Insert, TypeOK
  <2>3. /\ pc[w] = "insert" /\ ServesCall(w)
        /\ UNCHANGED <<users, loans, outside, answer, call, draft, invites, lock>>
    BY <1>0, <1>4 DEF Insert, WorkersInv, WorkerInv
  <2>4. loans[l] = NoRow
    BY <2>1, ExistingRows DEF RequestsInv, RowsHaveIssuedKeys
  <2>5. \A v \in Workers \ {w} : Creating(v)' => loan'[v] \in issued
    <3> TAKE v \in Workers \ {w}
    <3>1. pc'[v] = pc[v] /\ loan'[v] = loan[v] /\ call'[v] = call[v]
      BY <1>0, <1>4, <2>1 DEF Insert, TypeOK
    <3> QED
      BY <1>0, <3>1 DEF WorkersInv, WorkerInv, CreatesAlone, Creating
  <2>6. WorkerInv(w)'
    BY <2>1, <2>2, <2>3, <2>4, <2>5 DEF WorkerInv, ServesCall, CreatesAlone, DecidesAlone,
       PublishesCommitted, ToldBeforeCommit, Creating, Deciding, Writing, OfRequest
  <2> QED
    BY <1>0, <1>a, <1>4, <2>1, <2>2, <2>6, OneWorkerSteps DEF Insert, TypeOK
<1>5. ASSUME NEW w \in Workers, LockAndDecide(w) PROVE WorkersInv'
  <2> DEFINE c == call[w]
             row == loans[c.loan]
  <2>1. c \in Calls /\ c.op # "create" /\ c.loan \in Loans
    BY <1>0, <1>5, CallFields DEF LockAndDecide, WorkersInv, WorkerInv, ServesCall
  <2>2. /\ row \in Rows /\ Exists(row) /\ c.by = Party(c, row)
        /\ Done(c, row) \/ row.status \in Decidable(c)
        /\ lock[c.loan] = None
    BY <1>5, <1>0, <2>1, ExistingRows DEF LockAndDecide
  <2>3. /\ pc'[w] = "store" /\ loan'[w] = c.loan /\ call' = call
        /\ lock'[c.loan] = w
        /\ draft'[w] = IF Done(c, row) THEN row ELSE Decided(c, row)
        /\ UNCHANGED <<loans, issued, notices>>
    BY <1>0, <1>5, <2>1 DEF LockAndDecide, TypeOK
  <2>4. row.status \in Decidable(c) => row.status \in Pending
    BY DEF Decidable, Pending
  <2>5. Fits(c, c.loan)
    BY <2>1, <2>2 DEF Fits
  <2>6. Decided(c, row) \in Rows
    BY <2>1, <2>2, DecidedRow
  <2>7. WorkerInv(w)'
    <3>1. ServesCall(w)'
      BY <2>1, <2>2, <2>3, <2>6 DEF ServesCall, Writing
    <3>2. DecidesAlone(w)'
      BY <2>2, <2>3, <2>4, <2>5 DEF DecidesAlone, Fits, OfRequest, Party, Decided
    <3>3. CreatesAlone(w)' /\ PublishesCommitted(w)' /\ ToldBeforeCommit(w)'
      BY <2>1, <2>3 DEF CreatesAlone, PublishesCommitted, ToldBeforeCommit, Creating, Writing
    <3> QED
      BY <3>1, <3>2, <3>3 DEF WorkerInv
  <2>8. ~Creating(w)'
    BY <2>1, <2>3 DEF Creating
  <2>9. \A v \in Workers \ {w} : Deciding(v) => lock'[loan[v]] = v
    BY <1>0, <1>a, <1>5, <2>2, NoneAssumption DEF LockAndDecide, TypeOK
  <2>10. \A v \in Workers \ {w} : /\ pc'[v] = pc[v] /\ call'[v] = call[v]
                                  /\ loan'[v] = loan[v] /\ draft'[v] = draft[v]
    BY <1>0, <1>5 DEF LockAndDecide, TypeOK
  <2> QED
    BY <1>0, <2>3, <2>7, <2>8, <2>9, <2>10, OneWorkerSteps
<1>6. ASSUME NEW w \in Workers, Store(w) PROVE WorkersInv'
  <2>1. WorkerInv(w) /\ pc[w] = "store"
    BY <1>0, <1>6 DEF WorkersInv, Store
  <2>2. pc'[w] = IF Tells(w) THEN "enqueue" ELSE "commit"
    BY <1>0, <1>6 DEF Store, TypeOK
  <2>3. UNCHANGED <<book, notices, events, answer, call, loan, draft, invites, lock>>
    BY <1>6 DEF Store
  <2>4. \A v \in Workers \ {w} : pc'[v] = pc[v]
    BY <1>0, <1>6 DEF Store, TypeOK
  <2>5. WorkerInv(w)'
    BY <2>1, <2>2, <2>3, <2>4 DEF WorkerInv, ServesCall, CreatesAlone, DecidesAlone,
       PublishesCommitted, ToldBeforeCommit, Creating, Deciding, Writing, OfRequest, Tells,
       Changes, Fits, Decided, Party
  <2>6. Creating(w)' => Creating(w)
    BY <2>1, <2>3 DEF Creating, Writing
  <2> QED
    BY <1>0, <1>a, <2>3, <2>4, <2>5, <2>6, OneWorkerSteps
<1>7. ASSUME NEW w \in Workers, Enqueue(w) PROVE WorkersInv'
  <2>1. WorkerInv(w) /\ pc[w] = "enqueue" /\ pc'[w] = "commit"
    BY <1>0, <1>7 DEF WorkersInv, Enqueue, TypeOK
  <2>2. notices' = notices \cup {<<Telling[draft[w].status], loan[w]>>}
    BY <1>7 DEF Enqueue
  <2>3. UNCHANGED <<book, cache, events, answer, call, loan, draft, invites, lock>>
    BY <1>7 DEF Enqueue
  <2>4. \A v \in Workers \ {w} : pc'[v] = pc[v]
    BY <1>0, <1>7 DEF Enqueue, TypeOK
  <2>5. WorkerInv(w)'
    BY <2>1, <2>2, <2>3, <2>4 DEF WorkerInv, ServesCall, CreatesAlone, DecidesAlone,
       PublishesCommitted, ToldBeforeCommit, Creating, Deciding, Writing, OfRequest, Tells,
       Changes, Fits, Decided, Party
  <2>6. Creating(w)' => Creating(w)
    BY <2>1, <2>3 DEF Creating, Writing
  <2> QED
    BY <1>0, <1>a, <2>2, <2>3, <2>4, <2>5, <2>6, OneWorkerSteps
<1>8. ASSUME NEW w \in Workers, Commit(w) PROVE WorkersInv'
  <2>1. WorkerInv(w) /\ pc[w] = "commit"
    BY <1>0, <1>8 DEF WorkersInv, Commit
  <2>2. /\ loan[w] \in Loans
        /\ draft[w] \in Rows
        /\ loans'[loan[w]] = draft[w]
        /\ \A l \in Loans \ {loan[w]} : loans'[l] = loans[l]
    BY <1>8, CommittedRow
  <2>3. Unlock(w) /\ issued' = issued /\ notices' = notices
    BY <1>8 DEF Commit
  <2>4. \A v \in Workers \ {w} : /\ pc'[v] = pc[v] /\ call'[v] = call[v]
                                 /\ loan'[v] = loan[v] /\ draft'[v] = draft[v]
    BY <1>0, <1>8, LeavingWorker DEF Commit, TypeOK
  <2>5. \A v \in Workers \ {w} :
            /\ Creating(v) \/ Deciding(v) => loans'[loan[v]] = loans[loan[v]]
            /\ Deciding(v) => lock'[loan[v]] = v
    <3> TAKE v \in Workers \ {w}
    <3>1. Creating(v) \/ Deciding(v) => loan[v] \in Loans /\ loan[v] # loan[w]
      BY <1>0, <2>1, OthersRows DEF WorkersInv, WorkerInv, ServesCall, Creating, Deciding, Writing
    <3> QED
      BY <1>0, <1>a, <2>2, <2>3, <3>1, UnlockedLoans
  <2>6. WorkerInv(w)' /\ ~Creating(w)'
    <3>1. CASE Changes(w)
      <4>1. pc'[w] = "publish" /\ UNCHANGED <<call, loan, draft>>
        BY <1>0, <1>8, <3>1 DEF Commit, TypeOK
      <4>2. Fits(call[w], loan[w])'
        <5>1. CASE Creating(w)
          BY <2>1, <2>2, <4>1, <5>1 DEF WorkerInv, ServesCall, Creating, Fits, Exists, OfRequest,
             Rows, Status
        <5>2. CASE Deciding(w)
          BY <1>0, <2>1, <2>2, <4>1, <5>2 DEF WorkerInv, DecidesAlone, RowsKept, Fits, OfRequest,
             Party, Deciding
        <5> QED
          BY <2>1, <5>1, <5>2 DEF Creating, Deciding, Writing
      <4> QED
        BY <2>1, <2>2, <4>1, <4>2 DEF WorkerInv, ServesCall, CreatesAlone, DecidesAlone,
           PublishesCommitted, ToldBeforeCommit, Creating, Deciding, Writing, OfRequest
    <3>2. CASE ~Changes(w)
      BY <1>0, <1>8, <3>2, LeavingWorker, IdleWorker DEF Commit, Creating, Writing
    <3> QED
      BY <3>1, <3>2
  <2> QED
    BY <1>0, <2>3, <2>4, <2>5, <2>6, OneWorkerSteps
<1>9. ASSUME NEW w \in Workers, Publish(w) \/ Fail(w) PROVE WorkersInv'
  <2>1. Leave(w) /\ UNCHANGED <<loans, issued, notices>> /\ (Unlock(w) \/ UNCHANGED lock)
    BY <1>9 DEF Publish, Fail
  <2>2. WorkerInv(w)' /\ ~Creating(w)'
    BY <1>0, <2>1, LeavingWorker, IdleWorker DEF Creating, Writing
  <2>3. \A v \in Workers \ {w} : Deciding(v) => lock'[loan[v]] = v
    BY <1>0, <1>a, <2>1, UnlockedLoans
  <2> QED
    BY <1>0, <2>1, <2>2, <2>3, LeavingWorker, OneWorkerSteps
<1>10. CASE UNCHANGED <<loans, issued, notices, local, lock>>
  <2>1. ASSUME NEW v \in Workers PROVE WorkerInv(v)'
    <3>1. Creating(v) => \A u \in Workers \ {v} : Creating(u)' => loan'[u] # loan[v]
      BY <1>0, <1>10 DEF WorkersInv, WorkerInv, CreatesAlone, Creating
    <3> QED
      BY <1>0, <1>a, <1>10, <3>1, Bystander
  <2> QED
    BY <2>1 DEF WorkersInv
<1> QED
  BY <1>1, <1>2, <1>3, <1>4, <1>5, <1>6, <1>7, <1>8, <1>9, <1>10 DEF Next, vars, Expire, Register

\* A row has a key that was handed out, and keys are not taken back.
LEMMA IssuedNext == RequestsInv /\ [Next]_vars => RowsHaveIssuedKeys' /\ issued \subseteq issued'
<1> SUFFICES ASSUME RequestsInv, [Next]_vars
             PROVE  RowsHaveIssuedKeys' /\ issued \subseteq issued'
  OBVIOUS
<1>1. ASSUME NEW w \in Workers, Commit(w) PROVE RowsHaveIssuedKeys' /\ issued' = issued
  <2>1. /\ loan[w] \in Loans /\ issued' = issued
        /\ \A l \in Loans \ {loan[w]} : loans'[l] = loans[l]
    BY <1>1, CommittedRow DEF Commit
  <2>2. loan[w] \in issued
    <3>1. CASE Creating(w)
      BY <3>1 DEF RequestsInv, WorkersInv, WorkerInv, CreatesAlone
    <3>2. CASE Deciding(w)
      BY <2>1, <3>2 DEF RequestsInv, RowsHaveIssuedKeys, WorkersInv, WorkerInv, DecidesAlone, Fits
    <3> QED
      BY <1>1, <3>1, <3>2 DEF Commit, Creating, Deciding, Writing
  <2> QED
    BY <2>1, <2>2 DEF RequestsInv, RowsHaveIssuedKeys, Exists
<1>2. CASE loans' = loans /\ issued \subseteq issued'
  BY <1>2 DEF RequestsInv, RowsHaveIssuedKeys, Exists
<1>3. ASSUME NEW w \in Workers, Insert(w) PROVE loans' = loans /\ issued \subseteq issued'
  BY <1>3 DEF Insert
<1> QED
  BY <1>1, <1>2, <1>3 DEF Next, vars, book, Start, ResolveNew, ResolveReplay, ResolveError,
     LockAndDecide, LockAndRefuse, Store, Enqueue, Publish, Fail, Expire, Register

\* What a record says stays true whatever workers do.
LEMMA RecordKept ==
    ASSUME RequestsInv, RowsKept, issued \subseteq issued', NEW r \in Records, RecordFits(r),
           \A w \in Workers : Creating(w)' =>
                \/ Creating(w) /\ loan'[w] = loan[w] /\ draft'[w] = draft[w]
                \/ loan'[w] \notin issued,
           \A l \in Loans : ~Exists(loans[l]) /\ Exists(loans[l])' =>
                \E w \in Workers : Creating(w) /\ loan[w] = l /\ loans'[l] = draft[w]
    PROVE  RecordFits(r)'
<1>1. r.loan \in Loans
  BY DEF Records
<1>2. CASE r.fingerprint.op = "create"
  <2>1. r.loan \in issued /\ r.loan \in issued'
    BY <1>2 DEF RecordFits
  <2>2. Exists(loans[r.loan])' => OfRequest(loans'[r.loan], r.fingerprint)
    <3>1. CASE Exists(loans[r.loan])
      BY <1>1, <1>2, <3>1 DEF RecordFits, RowsKept, OfRequest
    <3>2. CASE ~Exists(loans[r.loan])
      BY <1>1, <1>2, <3>2 DEF RecordFits
    <3> QED
      BY <3>1, <3>2
  <2>3. \A w \in Workers : Creating(w)' /\ loan'[w] = r.loan => OfRequest(draft'[w], r.fingerprint)
    BY <1>2, <2>1 DEF RecordFits
  <2> QED
    BY <1>2, <2>1, <2>2, <2>3 DEF RecordFits, OfRequest, Exists
<1>3. CASE r.fingerprint.op # "create"
  BY <1>1, <1>3 DEF RecordFits, RowsKept, Fits, Party
<1> QED
  BY <1>2, <1>3

\* A transaction with a new row had it before the step or has just been issued
\* its primary key, and a loan that appears is the draft of such a transaction.
LEMMA NewLoans ==
    ASSUME RequestsInv, [Next]_vars
    PROVE  /\ \A w \in Workers : Creating(w)' =>
                \/ Creating(w) /\ loan'[w] = loan[w] /\ draft'[w] = draft[w]
                \/ loan'[w] \notin issued
           /\ \A l \in Loans : ~Exists(loans[l]) /\ Exists(loans[l])' =>
                \E w \in Workers : Creating(w) /\ loan[w] = l /\ loans'[l] = draft[w]
<1> DEFINE Goal1(v) == Creating(v)' => \/ Creating(v) /\ loan'[v] = loan[v] /\ draft'[v] = draft[v]
                                       \/ loan'[v] \notin issued
           Goal2 == \A l \in Loans : ~Exists(loans[l]) /\ Exists(loans[l])' =>
                \E w \in Workers : Creating(w) /\ loan[w] = l /\ loans'[l] = draft[w]
<1>0. TypeOK /\ WorkersInv
  BY DEF RequestsInv
<1>1. Goal2
  <2>1. ASSUME NEW w \in Workers, Commit(w) PROVE Goal2
    <3>1. /\ loan[w] \in Loans
          /\ loans'[loan[w]] = draft[w]
          /\ \A l \in Loans \ {loan[w]} : loans'[l] = loans[l]
      BY <2>1, CommittedRow
    <3>2. Creating(w) \/ Exists(loans[loan[w]])
      BY <1>0, <2>1 DEF Commit, WorkersInv, WorkerInv, DecidesAlone, Fits, Creating, Deciding, Writing
    <3> QED
      BY <3>1, <3>2 DEF Exists
  <2>2. CASE loans' = loans
    BY <2>2 DEF Exists
  <2> QED
    BY <2>1, <2>2 DEF Next, vars, book, Start, ResolveNew, ResolveReplay, ResolveError, Insert,
       LockAndDecide, LockAndRefuse, Store, Enqueue, Publish, Fail, Expire, Register
<1>2. ASSUME NEW v \in Workers PROVE Goal1(v)
  <2> USE <1>0 DEF Creating, Goto
  <2>1. ASSUME NEW w \in Workers, NEW c \in Calls, Start(w, c) PROVE Goal1(v)
    BY <2>1 DEF Start, TypeOK, Writing
  <2>2. ASSUME NEW w \in Workers, ResolveNew(w) PROVE Goal1(v)
    BY <2>2 DEF ResolveNew, TypeOK, Writing
  <2>3. ASSUME NEW w \in Workers, Leave(w) PROVE Goal1(v)
    BY <2>3, LeavingWorker DEF Writing
  <2>4. ASSUME NEW w \in Workers, Insert(w) PROVE Goal1(v)
    <3>1. PICK l \in Loans \ issued : loan' = [loan EXCEPT ![w] = l]
      BY <2>4 DEF Insert
    <3> QED
      BY <2>4, <3>1 DEF Insert, TypeOK, Writing
  <2>5. ASSUME NEW w \in Workers, LockAndDecide(w) PROVE Goal1(v)
    <3>1. call[w].op # "create"
      BY <2>5 DEF LockAndDecide, WorkersInv, WorkerInv, ServesCall
    <3> QED
      BY <2>5, <3>1 DEF LockAndDecide, TypeOK, Writing
  <2>6. ASSUME NEW w \in Workers, Store(w) \/ Enqueue(w) PROVE Goal1(v)
    BY <2>6 DEF Store, Enqueue, TypeOK, Writing
  <2>7. ASSUME NEW w \in Workers, Commit(w), Changes(w) PROVE Goal1(v)
    BY <2>7 DEF Commit, TypeOK, Writing
  <2>8. CASE UNCHANGED local
    BY <2>8 DEF local
  <2> QED
    BY <2>1, <2>2, <2>3, <2>4, <2>5, <2>6, <2>7, <2>8 DEF Next, vars, ResolveReplay, ResolveError,
       LockAndRefuse, Commit, Publish, Fail, Expire, Register
<1> QED
  BY <1>1, <1>2

\* A record fits the loan it names, if there is one, whoever writes or expires it.
LEMMA RecordsNext == RequestsInv /\ [Next]_vars => RecordsFit'
<1> SUFFICES ASSUME RequestsInv, [Next]_vars PROVE RecordsFit'
  OBVIOUS
<1>1. ASSUME NEW r \in Records, RecordFits(r) PROVE RecordFits(r)'
  BY <1>1, RowsKeptNext, IssuedNext, NewLoans, RecordKept
<1>2. TypeOK /\ WorkersInv /\ RecordsFit
  BY DEF RequestsInv
<1>a. ASSUME \A s \in Slots, r \in Records : cache'[s] = r /\ r # None => RecordFits(r)'
      PROVE  RecordsFit'
  <2>1. TypeOK'
    BY <1>2, TypeNext
  <2>2. \A s \in Slots : cache'[s] # None => cache'[s] \in Records
    BY <2>1 DEF TypeOK
  <2> QED
    BY <1>a, <2>2 DEF RecordsFit, RecordFits, Fits, OfRequest
<1>3. ASSUME NEW w \in Workers, Store(w) PROVE RecordsFit'
  <2>1. pc[w] = "store" /\ call[w] \in Calls /\ loan[w] \in Loans /\ Slot(call[w]) \in Slots
    BY <1>2, <1>3, CallFields DEF Store, WorkersInv, WorkerInv, ServesCall, Writing
  <2>2. PICK r \in Records : /\ r = Record(loan[w], call[w])
                             /\ r.loan = loan[w]
                             /\ r.fingerprint = Fingerprint(call[w])
    <3>1. /\ Record(loan[w], call[w]) \in Records
          /\ Record(loan[w], call[w]).loan = loan[w]
          /\ Record(loan[w], call[w]).fingerprint = Fingerprint(call[w])
      BY <2>1 DEF Record, Records
    <3> QED
      BY <3>1
  <2>3. RecordFits(r)
    <3>1. CASE call[w].op = "create"
      <4>1. Creating(w) /\ CreatesAlone(w) /\ OfRequest(draft[w], call[w])
        BY <1>2, <2>1, <3>1 DEF Creating, Writing, WorkersInv, WorkerInv, ServesCall
      <4>2. loan[w] \in issued /\ ~Exists(loans[loan[w]])
        BY <4>1 DEF CreatesAlone, Exists, NoRow
      <4>3. \A v \in Workers : Creating(v) /\ loan[v] = loan[w] => v = w
        BY <4>1 DEF CreatesAlone
      <4> QED
        BY <2>1, <2>2, <3>1, <4>1, <4>2, <4>3, FitsFingerprint, FingerprintTellsRequest
        DEF RecordFits
    <3>2. CASE call[w].op # "create"
      <4>1. Fits(call[w], loan[w])
        BY <1>2, <2>1, <3>2 DEF Deciding, Writing, WorkersInv, WorkerInv, DecidesAlone
      <4> QED
        BY <2>1, <2>2, <3>2, <4>1, FitsFingerprint, FingerprintTellsRequest DEF RecordFits
    <3> QED
      BY <3>1, <3>2
  <2>4. RecordFits(r)'
    BY <1>1, <2>2, <2>3
  <2>5. cache' = [cache EXCEPT ![Slot(call[w])] = r]
    BY <1>3, <2>2 DEF Store
  <2>6. \A s \in Slots : cache'[s] = IF s = Slot(call[w]) THEN r ELSE cache[s]
    BY <1>2, <2>5 DEF TypeOK
  <2>7. ASSUME NEW s \in Slots, NEW q \in Records, cache'[s] = q, q # None PROVE RecordFits(q)'
    <3>1. CASE s = Slot(call[w])
      BY <2>4, <2>6, <2>7, <3>1
    <3>2. CASE s # Slot(call[w])
      <4>1. cache[s] = q /\ cache[s] # None
        BY <2>6, <2>7, <3>2
      <4>2. RecordFits(cache[s])
        BY <1>2, <4>1 DEF RecordsFit
      <4> QED
        BY <1>1, <4>1, <4>2
    <3> QED
      BY <3>1, <3>2
  <2> QED
    BY <1>a, <2>7
<1>4. ASSUME \A s \in Slots : cache'[s] \in {cache[s], None} PROVE RecordsFit'
  <2>1. ASSUME NEW s \in Slots, NEW q \in Records, cache'[s] = q, q # None PROVE RecordFits(q)'
    <3>1. cache[s] = q /\ cache[s] # None
      BY <1>4, <2>1
    <3>2. RecordFits(cache[s])
      BY <1>2, <3>1 DEF RecordsFit
    <3> QED
      BY <1>1, <3>1, <3>2
  <2> QED
    BY <1>a, <2>1
<1>5. ASSUME NEW s \in Slots, Expire(s) PROVE RecordsFit'
  BY <1>2, <1>4, <1>5 DEF Expire, TypeOK
<1>6. CASE UNCHANGED cache
  BY <1>4, <1>6
<1> QED
  BY <1>3, <1>5, <1>6 DEF Next, vars, outside, Start, ResolveNew, ResolveReplay, ResolveError,
     Insert, LockAndDecide, LockAndRefuse, Enqueue, Commit, Publish, Fail, Register

\* What is answered is about the loan that was asked for.
LEMMA AnswersNext == RequestsInv /\ [Next]_vars => AnswersFitCalls'
<1> SUFFICES ASSUME RequestsInv, [Next]_vars PROVE AnswersFitCalls'
  OBVIOUS
<1>0. TypeOK /\ WorkersInv /\ RecordsFit /\ AnswersFitCalls /\ RowsKept
  BY RowsKeptNext DEF RequestsInv
<1>a. ASSUME \A w \in Workers, c \in Calls, l \in Loans :
                 answer'[w] = [call |-> c, loan |-> l] /\ answer'[w] # None => Fits(c, l)'
      PROVE  AnswersFitCalls'
  <2>1. \A w \in Workers : answer'[w] # None =>
            \E c \in Calls, l \in Loans : answer'[w] = [call |-> c, loan |-> l]
    BY <1>0, TypeNext DEF TypeOK
  <2>2. ASSUME NEW w \in Workers, answer'[w] # None
        PROVE  LET a == answer'[w]
                   row == loans'[a.loan]
               IN  /\ Exists(row)
                   /\ IF a.call.op = "create"
                      THEN OfRequest(row, a.call)
                      ELSE a.loan = a.call.loan /\ a.call.by = Party(a.call, row)
    <3>1. PICK c \in Calls, l \in Loans : answer'[w] = [call |-> c, loan |-> l]
      BY <2>1, <2>2
    <3>2. Fits(c, l)'
      BY <1>a, <2>2, <3>1
    <3> QED
      BY <3>1, <3>2 DEF Fits, OfRequest, Party, Exists
  <2> QED
    BY <2>2 DEF AnswersFitCalls, Answers, OfRequest, Party, Exists
<1>b. \A w \in Workers, c \in Calls, l \in Loans :
          answer[w] = [call |-> c, loan |-> l] /\ answer[w] # None => Fits(c, l)
  BY <1>0 DEF AnswersFitCalls, Answers, Fits, OfRequest
<1>c. ASSUME NEW w \in Workers, NEW l \in Loans, Answer(w, l),
             \A c \in Calls : c = call[w] => Fits(c, l)'
      PROVE  AnswersFitCalls'
  <2>1. \A v \in Workers : answer'[v] = IF v = w THEN [call |-> call[w], loan |-> l] ELSE answer[v]
    BY <1>0, <1>c DEF Answer, TypeOK
  <2>2. ASSUME NEW v \in Workers, NEW c \in Calls, NEW k \in Loans,
               answer'[v] = [call |-> c, loan |-> k], answer'[v] # None
        PROVE  Fits(c, k)'
    <3>1. CASE v = w
      BY <1>c, <2>1, <2>2, <3>1
    <3>2. CASE v # w
      BY <1>0, <1>b, <2>1, <2>2, <3>2, FitsKept
    <3> QED
      BY <3>1, <3>2
  <2> QED
    BY <1>a, <2>2
<1>1. ASSUME NEW w \in Workers, ResolveReplay(w) PROVE AnswersFitCalls'
  <2>1. call[w] \in Calls /\ Slot(call[w]) \in Slots
    BY <1>0, <1>1, CallFields DEF ResolveReplay, WorkersInv, WorkerInv, ServesCall
  <2>2. /\ Known(w) \in Records /\ RecordFits(Known(w))
        /\ Known(w).fingerprint = Fingerprint(call[w])
        /\ Exists(loans[Known(w).loan])
        /\ Answer(w, Known(w).loan)
    BY <1>0, <1>1, <2>1 DEF ResolveReplay, Replayable, Known, RecordsFit, TypeOK
  <2>3. Known(w).loan \in Loans /\ Fits(call[w], Known(w).loan)
    BY <2>1, <2>2, FitsFingerprint, FingerprintTellsRequest DEF Records, RecordFits, Fits
  <2>4. PICK l \in Loans : l = Known(w).loan /\ Answer(w, l) /\ Fits(call[w], l)
    BY <2>2, <2>3
  <2> QED
    BY <1>0, <1>c, <2>4, FitsKept
<1>2. ASSUME NEW w \in Workers, Commit(w), ~Changes(w) PROVE AnswersFitCalls'
  <2>1. pc[w] = "commit" /\ call[w] \in Calls /\ loan[w] \in Loans /\ draft[w] = loans[loan[w]]
    BY <1>2, CommittedRow DEF Commit, Changes
  <2>2. ~Creating(w)
    BY <1>0, <1>2, <2>1, CommittedRow DEF WorkersInv, WorkerInv, CreatesAlone, NoRow, Rows, Status
  <2>3. Fits(call[w], loan[w])
    BY <1>0, <2>1, <2>2 DEF WorkersInv, WorkerInv, DecidesAlone, Deciding, Creating, Writing
  <2>4. PICK l \in Loans : l = loan[w] /\ Answer(w, l) /\ Fits(call[w], l)
    <3>1. Answer(w, loan[w])
      BY <1>2 DEF Commit
    <3> QED
      BY <2>1, <2>3, <3>1
  <2> QED
    BY <1>0, <1>c, <2>4, FitsKept
<1>3. ASSUME NEW w \in Workers, Publish(w) PROVE AnswersFitCalls'
  <2>1. call[w] \in Calls /\ loan[w] \in Loans /\ Fits(call[w], loan[w])
    BY <1>0, <1>3 DEF Publish, WorkersInv, WorkerInv, ServesCall, PublishesCommitted
  <2>2. PICK l \in Loans : l = loan[w] /\ Answer(w, l) /\ Fits(call[w], l)
    BY <1>3, <2>1 DEF Publish
  <2> QED
    BY <1>0, <1>c, <2>2, FitsKept
<1>4. ASSUME \A w \in Workers : answer'[w] \in {answer[w], None} PROVE AnswersFitCalls'
  BY <1>0, <1>a, <1>b, <1>4, FitsKept
<1>5. ASSUME NEW w \in Workers, NEW c \in Calls, Start(w, c) PROVE AnswersFitCalls'
  BY <1>0, <1>4, <1>5 DEF Start, TypeOK
<1>6. CASE UNCHANGED answer
  BY <1>4, <1>6
<1>7. ASSUME NEW w \in Workers, Commit(w), Changes(w) PROVE UNCHANGED answer
  BY <1>7 DEF Commit
<1> QED
  BY <1>1, <1>2, <1>3, <1>5, <1>6, <1>7 DEF Next, vars, ResolveNew, ResolveError,
     Insert, LockAndDecide, LockAndRefuse, Store, Enqueue, Fail, Register, Expire

(***************************************************************************)
(* The theorems.                                                           *)
(***************************************************************************)

\* The invariant holds when nothing has been asked.
LEMMA RequestsInvInit == Init => RequestsInv
<1> SUFFICES ASSUME Init PROVE RequestsInv
  OBVIOUS
<1>1. WorkersInv
  BY DEF Init, WorkersInv, WorkerInv, ServesCall, CreatesAlone, DecidesAlone, PublishesCommitted,
     ToldBeforeCommit, Creating, Deciding, Writing
<1>2. RowsHaveIssuedKeys /\ RecordsFit /\ AnswersFitCalls
  BY DEF Init, RowsHaveIssuedKeys, RecordsFit, AnswersFitCalls, Answers, Exists, NoRow
<1> QED
  BY <1>1, <1>2, TypeInit DEF RequestsInv

\* Every step keeps the invariant.
LEMMA RequestsInvNext == RequestsInv /\ [Next]_vars => RequestsInv'
BY TypeNext, WorkersNext, IssuedNext, RecordsNext, AnswersNext DEF RequestsInv

\* The invariant holds in every reachable state.
LEMMA RequestsInvHolds == Spec => []RequestsInv
BY RequestsInvInit, RequestsInvNext, PTL DEF Spec

\* The variables keep their types, whatever calls race, fail and are repeated.
THEOREM TypeCorrect == Spec => []TypeOK
<1>1. RequestsInv => TypeOK
  BY DEF RequestsInv
<1> QED
  BY <1>1, RequestsInvHolds, PTL

\* A successful answer is about the loan its call asked for: _resolve_idempotent_result
\* replays only records of the same request, and a record names either the loan of
\* that request or one that will never exist.
THEOREM AnswersCorrect == Spec => []AnswersFitCalls
<1>1. RequestsInv => AnswersFitCalls
  BY DEF RequestsInv
<1> QED
  BY <1>1, RequestsInvHolds, PTL

\* The row lock of accept, reject and cancel, held from their look at the status to
\* the commit, makes the first decision the only one.
THEOREM OneDecisionStands == Spec => OneDecision
<1>1. RequestsInv /\ [Next]_vars =>
          [\A l \in Loans : Exists(loans[l]) /\ loans[l].status \notin Pending
              => loans'[l] = loans[l]]_vars
  BY RowsKeptNext DEF RowsKept
<1> QED
  BY <1>1, RequestsInvHolds, PTL DEF Spec, OneDecision

\* A step that commits a change finds its task queued; a step that publishes, its
\* change committed.
LEMMA ToldStep ==
    ASSUME RequestsInv, [Next]_vars
    PROVE  \/ UNCHANGED vars
           \/ /\ \A l \in Loans :
                    loans'[l].status \notin {loans[l].status, "pending_invite"}
                        => <<Telling[loans'[l].status], l>> \in notices
              /\ \A e \in events' \ events :
                    /\ Exists(loans[e[2]])
                    /\ e[1] # "created" => Telling[loans[e[2]].status] = e[1]
<1> DEFINE Told == \A l \in Loans :
                       loans'[l].status \notin {loans[l].status, "pending_invite"}
                           => <<Telling[loans'[l].status], l>> \in notices
           Published == \A e \in events' \ events :
                            /\ Exists(loans[e[2]])
                            /\ e[1] # "created" => Telling[loans[e[2]].status] = e[1]
<1>0. TypeOK /\ WorkersInv
  BY DEF RequestsInv
<1>1. Told
  <2>1. ASSUME NEW w \in Workers, Commit(w) PROVE Told
    <3>1. /\ loan[w] \in Loans
          /\ loans'[loan[w]] = draft[w]
          /\ \A l \in Loans \ {loan[w]} : loans'[l] = loans[l]
      BY <2>1, CommittedRow
    <3>2. Tells(w) => <<Telling[draft[w].status], loan[w]>> \in notices
      BY <1>0, <2>1 DEF Commit, WorkersInv, WorkerInv, ToldBeforeCommit
    <3> QED
      BY <3>1, <3>2 DEF Tells, Changes
  <2>2. CASE loans' = loans
    BY <2>2
  <2> QED
    BY <2>1, <2>2 DEF Next, vars, book, Start, ResolveNew, ResolveReplay, ResolveError, Insert,
       LockAndDecide, LockAndRefuse, Store, Enqueue, Publish, Fail, Expire, Register
<1>2. Published
  <2>1. ASSUME NEW w \in Workers, Publish(w) PROVE Published
    <3>1. /\ draft[w] \in Rows
          /\ Exists(loans[loan[w]])
          /\ draft[w].status \notin Pending => loans[loan[w]] = draft[w]
      BY <1>0, <2>1 DEF Publish, WorkersInv, WorkerInv, ServesCall, PublishesCommitted, Fits
    <3>2. draft[w].status \in Pending => Telling[draft[w].status] = "created"
      BY DEF Pending, Telling
    <3> QED
      BY <2>1, <3>1, <3>2 DEF Publish
  <2>2. CASE events' = events
    BY <2>2
  <2> QED
    BY <2>1, <2>2 DEF Next, vars, outside, Start, ResolveNew, ResolveReplay, ResolveError, Insert,
       LockAndDecide, LockAndRefuse, Store, Enqueue, Commit, Fail, Expire, Register
<1> QED
  BY <1>1, <1>2

\* Every committed change was queued for the borrower or lender before it was
\* committed (_queue_notification_on_commit does not wait for the commit), and every
\* websocket event is of a committed change (_emit_event_on_commit does).
THEOREM ChangesTold == Spec => ChangesAreTold
<1>1. RequestsInv /\ [Next]_vars =>
          [/\ \A l \in Loans :
                loans'[l].status \notin {loans[l].status, "pending_invite"}
                    => <<Telling[loans'[l].status], l>> \in notices
           /\ \A e \in events' \ events :
                /\ Exists(loans[e[2]])
                /\ e[1] # "created" => Telling[loans[e[2]].status] = e[1]]_vars
  BY ToldStep
<1> QED
  BY <1>1, RequestsInvHolds, PTL DEF Spec, ChangesAreTold
=============================================================================
