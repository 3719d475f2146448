---------------------------- MODULE LoanRequests ----------------------------
(***************************************************************************)
(* The calls create, accept, reject and cancel of LoanService, with what   *)
(* they touch outside the database.  A call is one transaction on the loan *)
(* table, but on its way it writes an idempotency record to Redis and puts *)
(* a notification task on the Celery broker, and neither is undone when    *)
(* the transaction rolls back.  Only the websocket event waits for the     *)
(* commit.  Clients repeat calls, with the same key, as they please.       *)
(***************************************************************************)
EXTENDS Integers, FiniteSets

CONSTANTS
    Users,
    Loans,      \* primary keys of the loan table; a sequence never reissues one
    Keys,       \* idempotency keys
    Terms,      \* principal, interest, dates and purpose of a request
    Reasons,    \* rejection reasons
    Calls,      \* the calls clients make
    Workers,    \* the processes that serve them
    MayExpire,  \* idempotency records may expire while calls are repeated
    None        \* nobody, nothing

CreateCalls == [op : {"create"}, key : Keys, by : Users, to : Users, terms : Terms]
DecisionCalls == [op : {"accept", "cancel"}, key : Keys, by : Users, loan : Loans]
RejectCalls == [op : {"reject"}, key : Keys, by : Users, loan : Loans, reason : Reasons]
AllCalls == CreateCalls \cup DecisionCalls \cup RejectCalls

ASSUME CallsAssumption == Calls \subseteq AllCalls
ASSUME MayExpireAssumption == MayExpire \in BOOLEAN
ASSUME NoneAssumption == None \notin Workers

VARIABLES
    users,      \* per user: "absent", "invited" or "active"
    loans,      \* per loan: the committed row, or NoRow
    issued,     \* the primary keys the sequence has issued
    cache,      \* Redis: per operation and key, an idempotency record or None
    notices,    \* the notification tasks ever put on the broker
    events,     \* the websocket events ever published
    answer,     \* per worker: its last success answer, the call and its loan, or None
    pc,         \* per worker: what it does next
    call,       \* per worker: the call it serves, or None
    loan,       \* per worker: the loan it works on, or None
    draft,      \* per worker: the row its transaction will commit, or NoRow
    invites,    \* per worker: its transaction creates the borrower's inactive row
    lock        \* per loan: the worker that holds its row lock, or None

book == <<users, loans, issued>>
outside == <<cache, notices, events>>
local == <<pc, call, loan, draft, invites>>
vars == <<book, outside, answer, local, lock>>
-----------------------------------------------------------------------------
Status == {"pending_invite", "pending_review", "active", "rejected", "cancelled"}
Pending == {"pending_invite", "pending_review"}

NoRow == [status |-> "none"]

Rows == [status : Status, lender : Users, borrower : Users, terms : Terms,
         reason : Reasons \cup {None}]

Exists(row) == row.status # "none"

Operations == {"create", "accept", "reject", "cancel"}

Slots == Operations \X Keys

\* _fingerprint: everything of the call but its key.
Fingerprint(c) == [c EXCEPT !.key = None]

Record(l, c) == [loan |-> l, fingerprint |-> Fingerprint(c)]

\* _cache_key: records are kept per operation and key.
Slot(c) == <<c.op, c.key>>

\* What is told about a row that reaches a status, to the broker and to the
\* websocket groups.
Telling == [pending_review |-> "created", pending_invite |-> "created",
            active |-> "accepted", rejected |-> "rejected", cancelled |-> "cancelled"]

Steps == {"idle", "resolve", "insert", "lock", "store", "enqueue", "commit", "publish"}
-----------------------------------------------------------------------------
Init ==
    /\ users = [u \in Users |-> "absent"]
    /\ loans = [l \in Loans |-> NoRow]
    /\ issued = {}
    /\ cache = [s \in Slots |-> None]
    /\ notices = {}
    /\ events = {}
    /\ answer = [w \in Workers |-> None]
    /\ pc = [w \in Workers |-> "idle"]
    /\ call = [w \in Workers |-> None]
    /\ loan = [w \in Workers |-> None]
    /\ draft = [w \in Workers |-> NoRow]
    /\ invites = [w \in Workers |-> FALSE]
    /\ lock = [l \in Loans |-> None]

Goto(w, step) == pc' = [pc EXCEPT ![w] = step]

\* Worker w is done with its call.
Leave(w) ==
    /\ Goto(w, "idle")
    /\ call' = [call EXCEPT ![w] = None]
    /\ loan' = [loan EXCEPT ![w] = None]
    /\ draft' = [draft EXCEPT ![w] = NoRow]
    /\ invites' = [invites EXCEPT ![w] = FALSE]

Unlock(w) == lock' = [l \in Loans |-> IF lock[l] = w THEN None ELSE lock[l]]

Answer(w, l) == answer' = [answer EXCEPT ![w] = [call |-> call[w], loan |-> l]]

\* The workers whose open transaction has inserted a row for the number of u.
Inviting(u) == {w \in Workers : invites[w] /\ call[w].to = u}

\* Faulty: the status is left to the default of the column.
NewRowDefault(c) ==
    [status |-> "draft", lender |-> c.by, borrower |-> c.to, terms |-> c.terms, reason |-> None]

\* The row create_loan will insert, with the status _resolve_borrower chose.
NewRow(c) ==
    [status |-> IF users[c.to] = "active" THEN "pending_review" ELSE "pending_invite",
     lender |-> c.by, borrower |-> c.to, terms |-> c.terms, reason |-> None]

\* A registered user calls.  create_loan first of all resolves its borrower: a
\* number without a row gets an inactive one, which waits for any other
\* transaction that inserts the number (it is unique), and fails if that commits.
Start(w, c) ==
    /\ pc[w] = "idle"
    /\ users[c.by] = "active"
    /\ call' = [call EXCEPT ![w] = c]
    /\ answer' = [answer EXCEPT ![w] = None]
    /\ \/ /\ c.op = "create"
          /\ c.by # c.to
          /\ users[c.to] = "absent" => Inviting(c.to) = {}
          /\ draft' = [draft EXCEPT ![w] = NewRow(c)]
          /\ invites' = [invites EXCEPT ![w] = users[c.to] = "absent"]
       \/ /\ c.op # "create"
          /\ UNCHANGED <<draft, invites>>
    /\ Goto(w, "resolve")
    /\ UNCHANGED <<book, outside, loan, lock>>

\* The idempotency record of the call, or None.
Known(w) == cache[Slot(call[w])]

\* _resolve_idempotent_result finds nothing: the call is taken for a new one.
ResolveNew(w) ==
    /\ pc[w] = "resolve"
    /\ Known(w) = None
    /\ Goto(w, IF call[w].op = "create" THEN "insert" ELSE "lock")
    /\ UNCHANGED <<book, outside, answer, call, loan, draft, invites, lock>>

\* Faulty: the fingerprints are not compared.
ReplayableByKey(w) == Exists(loans[Known(w).loan])

\* The record is of the same request: the call is answered with the loan the
\* record names, as it is now.
Replayable(w) ==
    /\ Known(w).fingerprint = Fingerprint(call[w])
    /\ Exists(loans[Known(w).loan])

ResolveReplay(w) ==
    /\ pc[w] = "resolve"
    /\ Known(w) # None
    /\ Replayable(w)
    /\ Answer(w, Known(w).loan)
    /\ Leave(w)
    /\ UNCHANGED <<book, outside, lock>>

\* The key was used for another request, or the loan of the record is not
\* there: the call ends with an error.
ResolveError(w) ==
    /\ pc[w] = "resolve"
    /\ Known(w) # None
    /\ ~Replayable(w)
    /\ Leave(w)
    /\ UNCHANGED <<book, outside, answer, lock>>

\* Loan.objects.create, inside the transaction: the sequence issues a key.
Insert(w) ==
    /\ pc[w] = "insert"
    /\ \E l \in Loans \ issued :
        /\ issued' = issued \cup {l}
        /\ loan' = [loan EXCEPT ![w] = l]
    /\ Goto(w, "store")
    /\ UNCHANGED <<users, loans, outside, answer, call, draft, invites, lock>>

\* The party that may make decision c on a row.
Party(c, row) == IF c.op = "cancel" THEN row.lender ELSE row.borrower

\* The row already says what decision c would make of it.
Done(c, row) ==
    \/ c.op = "accept" /\ row.status = "active"
    \/ c.op = "reject" /\ row.status = "rejected" /\ row.reason = c.reason
    \/ c.op = "cancel" /\ row.status = "cancelled"

\* Faulty: an accepted loan can still be rejected.
DecidableLater(c) ==
    IF c.op = "cancel" THEN {"pending_review"} ELSE Pending \cup {"active"}

\* The statuses decision c may find.
Decidable(c) == IF c.op = "cancel" THEN {"pending_review"} ELSE Pending

\* The row decision c makes of row.
Decided(c, row) ==
    CASE c.op = "accept" -> [row EXCEPT !.status = "active", !.reason = None]
      [] c.op = "reject" -> [row EXCEPT !.status = "rejected", !.reason = c.reason]
      [] c.op = "cancel" -> [row EXCEPT !.status = "cancelled"]

\* select_for_update on the loan, and the guards that follow it.  The draft is
\* the row as found when the decision was made before, and a decided one if not.
LockAndDecide(w) ==
    LET c == call[w]
        row == loans[c.loan]
    IN  /\ pc[w] = "lock"
        /\ lock[c.loan] = None
        /\ Exists(row)
        /\ c.by = Party(c, row)
        /\ Done(c, row) \/ row.status \in Decidable(c)
        /\ lock' = [lock EXCEPT ![c.loan] = w]
        /\ loan' = [loan EXCEPT ![w] = c.loan]
        /\ draft' = [draft EXCEPT ![w] = IF Done(c, row) THEN row ELSE Decided(c, row)]
        /\ Goto(w, "store")
        /\ UNCHANGED <<book, outside, answer, call, invites>>

LockAndRefuse(w) ==
    LET c == call[w]
        row == loans[c.loan]
    IN  /\ pc[w] = "lock"
        /\ lock[c.loan] = None
        /\ ~( /\ Exists(row)
              /\ c.by = Party(c, row)
              /\ Done(c, row) \/ row.status \in Decidable(c))
        /\ Leave(w)
        /\ UNCHANGED <<book, outside, answer, lock>>

\* The transaction of w changes the row of its loan.
Changes(w) == draft[w] # loans[loan[w]]

\* Faulty: only the borrower is told.
TellsBorrower(w) == Changes(w) /\ draft[w].status \in {"pending_review", "cancelled"}

\* The task is put on the broker for every change, except that a borrower who
\* is not registered is not told of a new request.
Tells(w) == Changes(w) /\ draft[w].status # "pending_invite"

\* _store_idempotent_result: Redis is written at once, before the commit.
Store(w) ==
    /\ pc[w] = "store"
    /\ cache' = [cache EXCEPT ![Slot(call[w])] = Record(loan[w], call[w])]
    /\ Goto(w, IF Tells(w) THEN "enqueue" ELSE "commit")
    /\ UNCHANGED <<book, notices, events, answer, call, loan, draft, invites, lock>>

\* _queue_notification_on_commit: in spite of its name it calls delay() at once.
Enqueue(w) ==
    /\ pc[w] = "enqueue"
    /\ notices' = notices \cup {<<Telling[draft[w].status], loan[w]>>}
    /\ Goto(w, "commit")
    /\ UNCHANGED <<book, cache, events, answer, call, loan, draft, invites, lock>>

\* The commit: the rows of the transaction are in the tables, its lock is free.
Commit(w) ==
    /\ pc[w] = "commit"
    /\ users' = IF invites[w] THEN [users EXCEPT ![call[w].to] = "invited"] ELSE users
    /\ loans' = [loans EXCEPT ![loan[w]] = draft[w]]
    /\ Unlock(w)
    /\ IF Changes(w)
       THEN /\ Goto(w, "publish")
            /\ UNCHANGED <<answer, call, loan, draft, invites>>
       ELSE /\ Answer(w, loan[w])
            /\ Leave(w)
    /\ UNCHANGED <<issued, outside>>

\* _emit_event_on_commit, and the answer to the client.
Publish(w) ==
    /\ pc[w] = "publish"
    /\ events' = events \cup {<<Telling[draft[w].status], loan[w]>>}
    /\ Answer(w, loan[w])
    /\ Leave(w)
    /\ UNCHANGED <<book, cache, notices, lock>>

\* The process dies, the broker or the database refuses, or the commit fails:
\* what the transaction did to the database is undone, the rest is not.
Fail(w) ==
    /\ pc[w] # "idle"
    /\ Leave(w)
    /\ Unlock(w)
    /\ UNCHANGED <<book, outside, answer>>

\* An idempotency record lives IDEMPOTENCY_TTL_SECONDS, or less when Redis evicts it.
Expire(s) ==
    /\ MayExpire
    /\ cache[s] # None
    /\ cache' = [cache EXCEPT ![s] = None]
    /\ UNCHANGED <<book, notices, events, answer, local, lock>>

\* register_user activates or creates the row of u; creating waits for the
\* transactions that insert the same number.
Register(u) ==
    /\ users[u] # "active"
    /\ users[u] = "absent" => Inviting(u) = {}
    /\ users' = [users EXCEPT ![u] = "active"]
    /\ UNCHANGED <<loans, issued, outside, answer, local, lock>>

Next ==
    \/ \E w \in Workers :
        \/ \E c \in Calls : Start(w, c)
        \/ ResolveNew(w) \/ ResolveReplay(w) \/ ResolveError(w)
        \/ Insert(w) \/ LockAndDecide(w) \/ LockAndRefuse(w)
        \/ Store(w) \/ Enqueue(w) \/ Commit(w) \/ Publish(w) \/ Fail(w)
    \/ \E s \in Slots : Expire(s)
    \/ \E u \in Users : Register(u)

Spec == Init /\ [][Next]_vars
-----------------------------------------------------------------------------
\* The latest answers.
Answers == {answer[w] : w \in Workers} \ {None}

Records == [loan : Loans, fingerprint : {Fingerprint(c) : c \in Calls}]

TypeOK ==
    /\ users \in [Users -> {"absent", "invited", "active"}]
    /\ loans \in [Loans -> Rows \cup {NoRow}]
    /\ issued \subseteq Loans
    /\ cache \in [Slots -> Records \cup {None}]
    /\ notices \subseteq {"created", "accepted", "rejected", "cancelled"} \X Loans
    /\ events \subseteq {"created", "accepted", "rejected", "cancelled"} \X Loans
    /\ answer \in [Workers -> [call : Calls, loan : Loans] \cup {None}]
    /\ pc \in [Workers -> Steps]
    /\ call \in [Workers -> Calls \cup {None}]
    /\ loan \in [Workers -> Loans \cup {None}]
    /\ draft \in [Workers -> Rows \cup {NoRow}]
    /\ invites \in [Workers -> BOOLEAN]
    /\ lock \in [Loans -> Workers \cup {None}]

\* Whatever is replayed, retried or rolled back, a successful answer is about
\* the loan the call asked for: a created loan has the parties and terms of the
\* call, and a decision is on the loan it names, by the party that may make it.
AnswersFitCalls ==
    \A a \in Answers :
        LET row == loans[a.loan]
        IN  /\ Exists(row)
            /\ IF a.call.op = "create"
               THEN /\ row.lender = a.call.by
                    /\ row.borrower = a.call.to
                    /\ row.terms = a.call.terms
               ELSE /\ a.loan = a.call.loan
                    /\ a.call.by = Party(a.call, row)

\* However many accepts, rejects and cancels race on a loan, one of them decides
\* and the decision stands.
OneDecision ==
    [][\A l \in Loans : Exists(loans[l]) /\ loans[l].status \notin Pending
          => loans'[l] = loans[l]]_vars

\* No committed change goes untold: by the time a loan reaches a status its
\* notification task is on the broker, unless it waits for an unregistered
\* borrower.  A failure after the commit can lose the websocket event only, and
\* no event is published of a change that is not committed.
ChangesAreTold ==
    [][/\ \A l \in Loans :
            loans'[l].status \notin {loans[l].status, "pending_invite"}
                => <<Telling[loans'[l].status], l>> \in notices
       /\ \A e \in events' \ events :
            /\ Exists(loans[e[2]])
            /\ e[1] # "created" => Telling[loans[e[2]].status] = e[1]]_vars
-----------------------------------------------------------------------------
\* What the documents and names of the code promise and it does not keep; each
\* is refuted by a run.

\* SECURITY.md: "Loan create/accept/reject/cancel flows support idempotency keys":
\* calls that carry one key and one request create one loan.
OneLoanPerKey ==
    \A a, b \in Answers :
        a.call = b.call /\ a.call.op = "create" => a.loan = b.loan

Quiet == \A w \in Workers : pc[w] = "idle"

\* ... and a success answer to a decision means that the decision was made.
AnsweredMeansDecided ==
    Quiet => \A a \in Answers :
        a.call.op = "accept" => loans[a.loan].status = "active"
=============================================================================
