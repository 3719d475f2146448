--------------------------- MODULE GmailIngestion ---------------------------
(***************************************************************************)
(* The two Gmail paths of the system over one mailbox that is connected to *)
(* both: the sync of the accounts app and the sync of the integrations     *)
(* app, the latter as an API request or as a Celery task.  Each lists      *)
(* messages, keeps a row per message in a table of its own, and hands what *)
(* is new to GmailIngestionService, which makes bank transactions,         *)
(* discovers bank accounts and records how the message ended.              *)
(***************************************************************************)
EXTENDS Integers, FiniteSets

CONSTANTS
    Emails,      \* the messages of the mailbox, numbered as Gmail lists them
    Kind,        \* per message: "payment", "noise" or "poison"
    Accounts,    \* bank accounts
    Account,     \* per message: the bank account it is about, or None
    Listings,    \* the sets of messages Gmail may list, after query and max_results
    Workers,     \* web and Celery workers
    None,        \* nobody, nothing
    MaxCrashes   \* bound on the deaths of Celery workers

ASSUME EmailsAssumption == Emails \subseteq Nat /\ IsFiniteSet(Emails)
ASSUME KindAssumption == Kind \in [Emails -> {"payment", "noise", "poison"}]
ASSUME AccountAssumption ==
    /\ Account \in [Emails -> Accounts \cup {None}]
    /\ \A m \in Emails : Kind[m] = "payment" => Account[m] # None
ASSUME ListingsAssumption == Listings \subseteq SUBSET Emails
ASSUME CrashesAssumption == MaxCrashes \in Nat
ASSUME NamesAssumption == None \notin Emails \cup Accounts
ASSUME WorkersAssumption == IsFiniteSet(Workers)

VARIABLES
    marks,        \* per path and message: the row the path keeps of it
    transactions, \* per message: how many bank transactions refer to it
    support,      \* per bank account: supporting_email_count, 0 when undiscovered
    outcomes,     \* per message: the outcomes its audit events tell
    crashes,      \* how many Celery workers have died in a task so far
    call,         \* per worker: the sync it runs, or None
    todo,         \* per worker: the listed messages still to come
    at,           \* per worker: the message in hand, or None
    pc,           \* per worker: what it does next
    own           \* per worker: what its open transaction has written, and so holds locked

tables == <<marks, transactions, support, outcomes>>
vars == <<marks, transactions, support, outcomes, crashes, call, todo, at, pc, own>>
-----------------------------------------------------------------------------
Paths == {"accounts", "integrations"}

\* "accounts" is sync_emails, one transaction; "integrations" is sync_messages
\* within a request, one transaction; "task" is sync_messages within the Celery
\* task, where every statement commits.
Calls == Paths \cup {"task"}

Path(c) == IF c = "accounts" THEN "accounts" ELSE "integrations"

\* The row of a message: none, not processed yet, or processed.  A row of the
\* accounts app has no processed column; it is done once it is there.
MarkValues == {"none", "new", "done"}

Outcomes == {"filtered", "parsed", "duplicate"}

\* The integrations path saves the GmailAccount row with a new token.
Renewal == [what |-> "renewed", email |-> None]

\* What a transaction may write about a message: the row of its path, the row's
\* processed flag, a bank transaction, one more supporting email, an audit event.
Facts ==
    [what : {"synced", "processed", "made", "counted"} \cup Outcomes, email : Emails]
        \cup {Renewal}

Steps == {"idle", "begin", "renew", "list", "parse", "create", "discover", "tell", "mark"}

Wrote(w, what, m) == [what |-> what, email |-> m] \in own[w]

\* A sync within a request is one transaction.
Atomic(c) == c # "task"
-----------------------------------------------------------------------------
\* update_or_create locks the row of message m, or waits for whoever inserts it,
\* within the table of the path.
EmailFree(w, m) ==
    \A v \in Workers \ {w} : Path(call[v]) = Path(call[w]) => ~Wrote(v, "synced", m)

\* The accounts path locks its GmailAccount row first.
MailboxFree(w) ==
    \A v \in Workers \ {w} : call[v] = "accounts" => pc[v] = "begin"

\* The integrations path locks its GmailAccount row only when it saves it: a request
\* that has renewed the token holds the row to the end of its transaction.
TokenFree(w) == \A v \in Workers \ {w} : Renewal \notin own[v]

\* Whoever inserts or increments a discovered account holds it to the end of its
\* transaction.
AccountFree(w, a) ==
    \A v \in Workers \ {w}, m \in Emails : Wrote(v, "counted", m) => Account[m] # a

\* Faulty: messages are taken in any order.
NextInAnyOrder(list) == list

\* The loop over the messages, as Gmail listed them.
NextMessage(list) == {m \in list : \A other \in list : m <= other}

\* The accounts path ingests a message for which it made a row, the integrations
\* path one that is not processed.
Fresh(c, m) ==
    IF c = "accounts" THEN marks["accounts"][m] = "none" ELSE marks["integrations"][m] # "done"

\* Faulty: nobody looks for a transaction of the message.
IngestedNever(w, m) == FALSE

\* The look-up of ingest_message: a transaction that is committed or its own.
Ingested(w, m) == transactions[m] > 0 \/ Wrote(w, "made", m)
-----------------------------------------------------------------------------
Init ==
    /\ marks = [p \in Paths |-> [m \in Emails |-> "none"]]
    /\ transactions = [m \in Emails |-> 0]
    /\ support = [a \in Accounts |-> 0]
    /\ outcomes = [m \in Emails |-> {}]
    /\ crashes = 0
    /\ call = [w \in Workers |-> None]
    /\ todo = [w \in Workers |-> {}]
    /\ at = [w \in Workers |-> None]
    /\ pc = [w \in Workers |-> "idle"]
    /\ own = [w \in Workers |-> {}]

Goto(w, step) == pc' = [pc EXCEPT ![w] = step]

\* Faulty: the row of a message counts as processed as soon as it is there.
MarkedAtOnce(c, facts, m) ==
    IF \E f \in facts : f.email = m THEN "done" ELSE marks[Path(c)][m]

\* Faulty: a processed row is given the outcome instead.
MarkedByOutcome(c, facts, m) ==
    IF [what |-> "processed", email |-> m] \in facts THEN "parsed" ELSE marks[Path(c)][m]

\* The row of message m in the table of call c once the facts are written.
Marked(c, facts, m) ==
    IF [what |-> "processed", email |-> m] \in facts THEN "done"
    ELSE IF [what |-> "synced", email |-> m] \in facts /\ marks[Path(c)][m] = "none"
         THEN IF c = "accounts" THEN "done" ELSE "new"
    ELSE marks[Path(c)][m]

\* Faulty: the count of an account that was discovered before is not incremented.
SupportOfFirst(a, facts) ==
    IF support[a] = 0 /\ \E f \in facts : f.what = "counted" /\ Account[f.email] = a
    THEN 1 ELSE support[a]

\* The count of an account: an insert starts it at 1, every further email adds 1.
Support(a, facts) ==
    support[a] + Cardinality({f \in facts : f.what = "counted" /\ Account[f.email] = a})

\* The facts are committed.
Store(c, facts) ==
    /\ marks' = [marks EXCEPT ![Path(c)] = [m \in Emails |-> Marked(c, facts, m)]]
    /\ transactions' = [m \in Emails |->
            transactions[m] + (IF [what |-> "made", email |-> m] \in facts THEN 1 ELSE 0)]
    /\ support' = [a \in Accounts |-> Support(a, facts)]
    /\ outcomes' = [m \in Emails |->
            outcomes[m] \cup {o \in Outcomes : [what |-> o, email |-> m] \in facts}]

\* A statement of worker w: kept in its transaction, or committed where there is none.
Write(w, what) ==
    LET fact == [what |-> what, email |-> at[w]]
    IN  IF Atomic(call[w])
        THEN own' = [own EXCEPT ![w] = @ \cup {fact}] /\ UNCHANGED tables
        ELSE Store(call[w], {fact}) /\ UNCHANGED own
-----------------------------------------------------------------------------
\* A sync is called; the listing depends on the query and on max_results.  The
\* integrations path reads, without a lock, whether its token has run out.
Start(w, c, list) ==
    /\ pc[w] = "idle"
    /\ call' = [call EXCEPT ![w] = c]
    /\ todo' = [todo EXCEPT ![w] = list]
    /\ \E step \in (IF c = "accounts" THEN {"begin"} ELSE {"renew", "list"}) : Goto(w, step)
    /\ UNCHANGED <<tables, crashes, at, own>>

\* sync_emails locks the GmailAccount row.
Begin(w) ==
    /\ pc[w] = "begin"
    /\ MailboxFree(w)
    /\ Goto(w, "list")
    /\ UNCHANGED <<tables, crashes, call, todo, at, own>>

\* ensure_access_token saves the GmailAccount row with the new token; in a request
\* the row stays locked.
Renew(w) ==
    /\ pc[w] = "renew"
    /\ TokenFree(w)
    /\ own' = [own EXCEPT ![w] = @ \cup {r \in {Renewal} : Atomic(call[w])}]
    /\ Goto(w, "list")
    /\ UNCHANGED <<tables, crashes, call, todo, at>>

\* The next message is fetched and its row inserted or updated.
Upsert(w) ==
    /\ pc[w] = "list"
    /\ \E m \in NextMessage(todo[w]) :
        /\ EmailFree(w, m)
        /\ todo' = [todo EXCEPT ![w] = @ \ {m}]
        /\ IF Fresh(call[w], m)
           THEN at' = [at EXCEPT ![w] = m] /\ Goto(w, "parse")
           ELSE UNCHANGED <<at, pc>>
        /\ IF Atomic(call[w])
           THEN own' = [own EXCEPT ![w] = @ \cup {[what |-> "synced", email |-> m]}] /\ UNCHANGED tables
           ELSE Store(call[w], {[what |-> "synced", email |-> m]}) /\ UNCHANGED own
    /\ UNCHANGED <<crashes, call>>

\* On to the next message.
Continue(w) == Goto(w, "list") /\ at' = [at EXCEPT ![w] = None]

\* Back in the sync: the integrations path marks the row processed.
Return(w) ==
    IF call[w] = "accounts" THEN Continue(w) ELSE Goto(w, "mark") /\ UNCHANGED at

\* ingest_message filters and parses ("filtered" stands for sender_filtered,
\* ignored and unparsed); a payment that has its transaction already
\* is a duplicate.  A poison message raises and so has no step here.
Parse(w) ==
    /\ pc[w] = "parse"
    /\ \/ /\ Kind[at[w]] = "noise"
          /\ Write(w, "filtered")
          /\ Return(w)
       \/ /\ Kind[at[w]] = "payment"
          /\ Ingested(w, at[w])
          /\ Write(w, "duplicate")
          /\ Return(w)
       \/ /\ Kind[at[w]] = "payment"
          /\ ~Ingested(w, at[w])
          /\ Goto(w, "create")
          /\ UNCHANGED <<tables, at, own>>
    /\ UNCHANGED <<crashes, call, todo>>

\* create_transaction.
Create(w) ==
    /\ pc[w] = "create"
    /\ Write(w, "made")
    /\ Goto(w, "discover")
    /\ UNCHANGED <<crashes, call, todo, at>>

\* discover_account inserts the account, or increments its count.
Discover(w) ==
    /\ pc[w] = "discover"
    /\ AccountFree(w, Account[at[w]])
    /\ Write(w, "counted")
    /\ Goto(w, "tell")
    /\ UNCHANGED <<crashes, call, todo, at>>

\* The audit event of a parsed message.
Tell(w) ==
    /\ pc[w] = "tell"
    /\ Write(w, "parsed")
    /\ Return(w)
    /\ UNCHANGED <<crashes, call, todo>>

\* The integrations path marks the message processed, whatever came of it.
Mark(w) ==
    /\ pc[w] = "mark"
    /\ EmailFree(w, at[w])
    /\ Write(w, "processed")
    /\ Continue(w)
    /\ UNCHANGED <<crashes, call, todo>>

\* Nothing is left to do but to save last_sync_at.
Ends(w) == pc[w] = "list" /\ todo[w] = {}

\* The worker is free again.
Leave(w) ==
    /\ call' = [call EXCEPT ![w] = None]
    /\ todo' = [todo EXCEPT ![w] = {}]
    /\ at' = [at EXCEPT ![w] = None]
    /\ own' = [own EXCEPT ![w] = {}]
    /\ Goto(w, "idle")

\* All messages are done: last_sync_at is saved in the GmailAccount row, which the
\* accounts path has locked from the start, and a request commits.
Finish(w) ==
    /\ Ends(w)
    /\ Path(call[w]) = "integrations" => TokenFree(w)
    /\ Store(call[w], own[w])
    /\ Leave(w)
    /\ UNCHANGED crashes

\* Gmail does not answer, a message raises, the validation of a new account finds
\* that another call has just inserted it, the database breaks a deadlock or the
\* worker dies: a request is rolled back, a task stops where it is.
Fail(w) ==
    /\ pc[w] # "idle"
    /\ IF Atomic(call[w]) \/ (pc[w] = "parse" /\ Kind[at[w]] = "poison")
       THEN UNCHANGED crashes
       ELSE crashes < MaxCrashes /\ crashes' = crashes + 1
    /\ Leave(w)
    /\ UNCHANGED tables

\* The user adds a bank account by hand; one that is there is left as it is.
DiscoverByHand(a) ==
    /\ support[a] = 0
    /\ \A w \in Workers, m \in Emails : Wrote(w, "counted", m) => Account[m] # a
    /\ support' = [support EXCEPT ![a] = 1]
    /\ UNCHANGED <<marks, transactions, outcomes, crashes, call, todo, at, pc, own>>

Next ==
    \/ \E w \in Workers :
        \/ \E c \in Calls, list \in Listings : Start(w, c, list)
        \/ Begin(w) \/ Renew(w) \/ Upsert(w) \/ Parse(w) \/ Create(w) \/ Discover(w)
        \/ Tell(w) \/ Mark(w) \/ Finish(w) \/ Fail(w)
    \/ \E a \in Accounts : DiscoverByHand(a)

Spec == Init /\ [][Next]_vars
-----------------------------------------------------------------------------
TypeOK ==
    /\ marks \in [Paths -> [Emails -> MarkValues]]
    /\ transactions \in [Emails -> Nat]
    /\ support \in [Accounts -> Nat]
    /\ outcomes \in [Emails -> SUBSET Outcomes]
    /\ crashes \in 0 .. MaxCrashes
    /\ call \in [Workers -> Calls \cup {None}]
    /\ todo \in [Workers -> SUBSET Emails]
    /\ at \in [Workers -> Emails \cup {None}]
    /\ pc \in [Workers -> Steps]
    /\ own \in [Workers -> SUBSET Facts]

\* A message that a path will not look at again was really dealt with: what came
\* of it is on record, and a payment has its transaction, although transactions
\* are rolled back, tasks die and another path may do the work.
MarkedMeansIngested ==
    \A p \in Paths, m \in Emails : marks[p][m] = "done" =>
        /\ outcomes[m] # {}
        /\ Kind[m] # "poison"
        /\ Kind[m] = "payment" => transactions[m] > 0

\* However often a mailbox is synced by either path, and whatever dies, a message
\* has at most as many transactions as workers can race between look-up and insert.
DuplicatesAreBounded == \A m \in Emails : transactions[m] <= Cardinality(Workers)

\* The committed transactions of a bank account, numbered per message.
Made(a) == UNION {{m} \X (1 .. transactions[m]) : m \in {e \in Emails : Account[e] = a}}

\* The tasks that have made a transaction of the account and still have to count it.
Open(a) == {w \in Workers : call[w] = "task" /\ pc[w] = "discover" /\ Account[at[w]] = a}

\* supporting_email_count tells the transactions of a bank account: it is ahead by
\* one at most, for an account added by hand, and behind by the tasks that still
\* have to count theirs or died before.
SupportTellsTransactions ==
    \A a \in Accounts :
        /\ support[a] <= Cardinality(Made(a)) + 1
        /\ Cardinality(Made(a)) <= support[a] + Cardinality(Open(a)) + crashes

\* Worker v needs a row next that w has locked.
WaitsFor(v, w) ==
    \/ pc[v] = "begin" /\ call[w] = "accounts" /\ pc[w] # "begin"
    \/ /\ pc[v] \in {"list", "mark"}
       /\ Path(call[v]) = Path(call[w])
       /\ \E m \in Emails :
            /\ m \in (IF pc[v] = "mark" THEN {at[v]} ELSE NextMessage(todo[v]))
            /\ Wrote(w, "synced", m)
    \/ /\ pc[v] = "discover"
       /\ \E m \in Emails : Wrote(w, "counted", m) /\ Account[m] = Account[at[v]]
    \/ /\ pc[v] = "renew" \/ (Ends(v) /\ Path(call[v]) = "integrations")
       /\ Renewal \in own[w]

\* The order of the listing keeps syncs from deadlock over the rows of messages:
\* two that wait for each other meet on a bank account, or one has renewed the token
\* of the mailbox and the other has all its messages and only last_sync_at to save.
OnlyAccountsDeadlock ==
    \A v, w \in Workers : v # w /\ WaitsFor(v, w) /\ WaitsFor(w, v) =>
        \/ "discover" \in {pc[v], pc[w]}
        \/ Ends(v) /\ Renewal \in own[w]
        \/ Ends(w) /\ Renewal \in own[v]
=============================================================================
