--------------------------- MODULE Notifications ---------------------------
(***************************************************************************)
(* NotificationService and its Celery tasks.  Creation tasks put rows into *)
(* the notification table, once per dedupe key as far as a look-up before  *)
(* the insert can see to it; dispatch tasks read the pending rows that are *)
(* due and mark them sent one transaction at a time; the API marks rows    *)
(* sent or failed.  Workers do this side by side and may die.              *)
(***************************************************************************)
EXTENDS Integers, FiniteSets

CONSTANTS
    Keys,       \* dedupe keys, each with its recipient
    NoKey,      \* the blank dedupe key
    Asked,      \* the notifications asked for, each a [key, due]
    Workers,    \* Celery and web workers
    None,       \* nobody, nothing
    Limit,      \* dispatch_pending_notifications(limit)
    MaxRows,    \* bound on the rows of the table
    MaxTasks,   \* bound on the dispatch tasks that wait on the broker
    MaxCrashes, \* bound on the deaths of workers
    LastMinute  \* bound on the clock

ASSUME BoundsAssumption == {Limit, MaxRows, MaxTasks} \subseteq Nat \ {0}
ASSUME ClockAssumption == {MaxCrashes, LastMinute} \subseteq Nat
ASSUME AskedAssumption == Asked \subseteq [key : Keys \cup {NoKey}, due : 0 .. LastMinute]
ASSUME NamesAssumption == NoKey \notin Keys /\ None \notin Workers
ASSUME WorkersAssumption == IsFiniteSet(Workers)

VARIABLES
    now,        \* timezone.now(), in minutes
    rows,       \* per primary key: the committed row, or NoRow
    audit,      \* per primary key: what its audit events tell of its status
    tasks,      \* how many dispatch tasks wait on the broker
    crashes,    \* how many workers have died so far
    pc,         \* per worker: what it does next
    draft,      \* per worker: the row its creation task is to insert, or NoRow
    batch,      \* per worker: the rows it still has to mark
    job,        \* per worker: what marks them, "dispatch", "mark_sent", "mark_failed", or None
    view,       \* per worker: the row it locked and its status as read, or None
    lock        \* per primary key: the worker that holds its row lock, or None

vars == <<now, rows, audit, tasks, crashes, pc, draft, batch, job, view, lock>>
-----------------------------------------------------------------------------
Ids == 1 .. MaxRows
Minutes == 0 .. LastMinute

Status == {"pending", "sent", "failed"}

NoRow == [status |-> "none"]

\* A row; a notification without scheduled_for is due at 0.
Rows == [status : Status, key : Keys \cup {NoKey}, due : Minutes]

Exists(row) == row.status # "none"

Steps == {"idle", "insert", "tell", "send", "mark"}

\* Faulty: a notification that was sent counts as done and may be created anew.
FoundUnsent(key) ==
    key # NoKey /\ \E n \in Ids : rows[n].status = "pending" /\ rows[n].key = key

\* The look-up by dedupe key; a blank key is not looked up.
Found(key) == key # NoKey /\ \E n \in Ids : Exists(rows[n]) /\ rows[n].key = key

\* The primary keys not issued yet; they are issued in the order of creation.
Free == {n \in Ids : ~Exists(rows[n])}

\* Faulty: only what has no schedule is picked up.
DueUnscheduled(n) == rows[n].status = "pending" /\ rows[n].due = 0

\* A pending row whose time has come.
Due(n) == rows[n].status = "pending" /\ rows[n].due <= now

\* The query of dispatch_pending_notifications: the oldest rows that are due.
Oldest(limit) == {n \in Ids : Due(n) /\ Cardinality({m \in Ids : Due(m) /\ m < n}) < limit}

Goto(w, step) == pc' = [pc EXCEPT ![w] = step]

\* Another dispatch task on the broker, up to the bound.
OneMoreTask == tasks' = IF tasks < MaxTasks THEN tasks + 1 ELSE tasks
\* The audit events of a row after one more: the status the last one ended at,
\* and whether each one started where the one before it ended.
Told(events, from, to) ==
    [status |-> to, unbroken |-> events.unbroken /\ events.status = from]
-----------------------------------------------------------------------------
Init ==
    /\ now = 0
    /\ rows = [n \in Ids |-> NoRow]
    /\ audit = [n \in Ids |-> [status |-> "none", unbroken |-> TRUE]]
    /\ tasks = 0
    /\ crashes = 0
    /\ pc = [w \in Workers |-> "idle"]
    /\ draft = [w \in Workers |-> NoRow]
    /\ batch = [w \in Workers |-> {}]
    /\ job = [w \in Workers |-> None]
    /\ view = [w \in Workers |-> None]
    /\ lock = [n \in Ids |-> None]

Tick ==
    /\ now < LastMinute
    /\ now' = now + 1
    /\ UNCHANGED <<rows, audit, tasks, crashes, pc, draft, batch, job, view, lock>>

\* Celery beat, every minute.
Beat ==
    /\ OneMoreTask
    /\ UNCHANGED <<now, rows, audit, crashes, pc, draft, batch, job, view, lock>>

\* The creations under way, each of which still needs a primary key.
Creating == {w \in Workers : pc[w] = "insert"}

\* Services may have put a creation task for anything asked on the broker, any
\* number of times, or a client calls the API.  create_notification looks the key up: it
\* returns the row that has it, or goes on to insert one.
StartCreate(w, asked) ==
    /\ pc[w] = "idle"
    /\ ~Found(asked.key)
    /\ Cardinality(Creating) < Cardinality(Free)
    /\ draft' = [draft EXCEPT ![w] = [status |-> "pending", key |-> asked.key, due |-> asked.due]]
    /\ Goto(w, "insert")
    /\ UNCHANGED <<now, rows, audit, tasks, crashes, batch, job, view, lock>>

\* The insert, its audit event and the commit.
Insert(w) ==
    /\ pc[w] = "insert"
    /\ \E n \in Free :
        /\ \A m \in Free : n <= m
        /\ rows' = [rows EXCEPT ![n] = draft[w]]
        /\ audit' = [audit EXCEPT ![n] = Told(@, "none", "pending")]
    /\ draft' = [draft EXCEPT ![w] = NoRow]
    /\ Goto(w, "tell")
    /\ UNCHANGED <<now, tasks, crashes, batch, job, view, lock>>

\* The on_commit callbacks of a creation: the websocket event, and a dispatch
\* task of its own.
Tell(w) ==
    /\ pc[w] = "tell"
    /\ OneMoreTask
    /\ Goto(w, "idle")
    /\ UNCHANGED <<now, rows, audit, crashes, draft, batch, job, view, lock>>

\* A worker takes a dispatch task off the broker and reads the rows it will mark.
StartDispatch(w) ==
    /\ pc[w] = "idle"
    /\ tasks > 0
    /\ tasks' = tasks - 1
    /\ IF Oldest(Limit) = {}
       THEN UNCHANGED <<batch, job, pc>>
       ELSE /\ batch' = [batch EXCEPT ![w] = Oldest(Limit)]
            /\ job' = [job EXCEPT ![w] = "dispatch"]
            /\ Goto(w, "send")
    /\ UNCHANGED <<now, rows, audit, crashes, draft, view, lock>>

\* Faulty: the row is read without FOR UPDATE.
MayLockUnguarded(w, n) == TRUE

\* A row lock is free when nobody else holds it.
MayLock(w, n) == lock[n] \in {None, w}

\* mark_sent and mark_failed lock row n and read its status.
LockAndRead(w, n) ==
    /\ MayLock(w, n)
    /\ lock' = [lock EXCEPT ![n] = w]
    /\ view' = [view EXCEPT ![w] = <<n, rows[n].status>>]
    /\ Goto(w, "mark")

\* The dispatch task goes on to its next row.
LockNext(w) ==
    /\ pc[w] = "send"
    /\ \E n \in batch[w] :
        /\ \A m \in batch[w] : n <= m
        /\ LockAndRead(w, n)
        /\ batch' = [batch EXCEPT ![w] = @ \ {n}]
    /\ UNCHANGED <<now, rows, audit, tasks, crashes, draft, job>>

\* The API call that marks row n sent or failed.
StartMark(w, n, call) ==
    /\ pc[w] = "idle"
    /\ Exists(rows[n])
    /\ LockAndRead(w, n)
    /\ job' = [job EXCEPT ![w] = call]
    /\ UNCHANGED <<now, rows, audit, tasks, crashes, draft, batch>>

\* Faulty: the rows are given a status of their own kind.
MarkingDelivered == [dispatch |-> "delivered", mark_sent |-> "sent", mark_failed |-> "failed"]

\* The status each job marks rows with.
Marking == [dispatch |-> "sent", mark_sent |-> "sent", mark_failed |-> "failed"]

\* The write, its audit event when the status changed, the commit, and the
\* websocket event.  Whatever the row was, it is marked.
Mark(w) ==
    LET n == view[w][1]
        old == view[w][2]
        new == Marking[job[w]]
    IN  /\ pc[w] = "mark"
        /\ rows' = [rows EXCEPT ![n].status = new]
        /\ audit' = [audit EXCEPT ![n] = IF old = new THEN @ ELSE Told(@, old, new)]
        /\ lock' = [lock EXCEPT ![n] = None]
        /\ view' = [view EXCEPT ![w] = None]
        /\ IF batch[w] = {}
           THEN Goto(w, "idle") /\ job' = [job EXCEPT ![w] = None]
           ELSE Goto(w, "send") /\ UNCHANGED job
        /\ UNCHANGED <<now, tasks, crashes, draft, batch>>

\* A worker dies.  Its transaction is rolled back; its task is lost, because
\* Celery acknowledges a task before it runs.
Crash(w) ==
    /\ pc[w] # "idle"
    /\ crashes < MaxCrashes
    /\ crashes' = crashes + 1
    /\ Goto(w, "idle")
    /\ draft' = [draft EXCEPT ![w] = NoRow]
    /\ batch' = [batch EXCEPT ![w] = {}]
    /\ job' = [job EXCEPT ![w] = None]
    /\ view' = [view EXCEPT ![w] = None]
    /\ lock' = [n \in Ids |-> IF lock[n] = w THEN None ELSE lock[n]]
    /\ UNCHANGED <<now, rows, audit, tasks>>

\* The next step of what a worker has begun.
Proceed(w) ==
    \/ Insert(w) \/ Tell(w) \/ Mark(w)

Dispatch == \E w \in Workers : StartDispatch(w)

Next ==
    \/ Tick
    \/ Beat
    \/ Dispatch
    \/ \E w \in Workers :
        \/ \E asked \in Asked : StartCreate(w, asked)
        \/ \E n \in Ids, call \in {"mark_sent", "mark_failed"} : StartMark(w, n, call)
        \/ LockNext(w)
        \/ Proceed(w)
        \/ Crash(w)

Spec == Init /\ [][Next]_vars

\* The clock and the beat go on, workers take their next step, the broker
\* delivers a waiting task to a worker that is idle again and again, and a row
\* lock that is free again and again is granted.
FairSpec ==
    /\ Spec
    /\ WF_vars(Tick)
    /\ WF_vars(Beat)
    /\ SF_vars(Dispatch)
    /\ \A w \in Workers : WF_vars(Proceed(w)) /\ SF_vars(LockNext(w))
-----------------------------------------------------------------------------
TypeOK ==
    /\ now \in Minutes
    /\ rows \in [Ids -> Rows \cup {NoRow}]
    /\ audit \in [Ids -> [status : Status \cup {"none"}, unbroken : BOOLEAN]]
    /\ tasks \in 0 .. MaxTasks
    /\ crashes \in 0 .. MaxCrashes
    /\ pc \in [Workers -> Steps]
    /\ draft \in [Workers -> Rows \cup {NoRow}]
    /\ batch \in [Workers -> SUBSET Ids]
    /\ job \in [Workers -> DOMAIN Marking \cup {None}]
    /\ view \in [Workers -> (Ids \X Status) \cup {None}]
    /\ lock \in [Ids -> Workers \cup {None}]

\* However many dispatch tasks and API calls meet on a row, its audit trail
\* accounts for its status.
TrailsAccountForStatus ==
    \A n \in Ids : audit[n].unbroken /\ audit[n].status = rows[n].status

\* The reminder job and retried calls queue a notification again and again; the
\* look-up lets a key have at most as many rows as there are workers to race.
DuplicatesAreBounded ==
    \A key \in Keys :
        Cardinality({n \in Ids : Exists(rows[n]) /\ rows[n].key = key}) <= Cardinality(Workers)

\* A pending notification does not stay pending, though every creation may lose
\* its dispatch task and workers die (not for ever): beat sends what is left.
PendingIsSent == \A n \in Ids : rows[n].status = "pending" ~> rows[n].status # "pending"
=============================================================================
