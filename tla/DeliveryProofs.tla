---------------------------- MODULE DeliveryProofs ---------------------------
(***************************************************************************)
(* Theorems about what reaches a user: about Notifications, for any keys,  *)
(* any notifications asked for, any finite set of workers and any bounds,  *)
(* and about Realtime, for any number of pages, any set of decisions and   *)
(* any number of faults.  The two modules are independent of each other.   *)
(***************************************************************************)
EXTENDS Notifications, Realtime, FiniteSetTheorems, TLAPS

(***************************************************************************)
(* Notifications: the inductive invariant.                                 *)
(***************************************************************************)

\* What a worker in the middle of a task relies on: a creation has its row drafted,
\* the rows of a batch are there, and a row that was locked and read is still
\* locked and still has the status that was read.
Relies(w) ==
    /\ pc[w] = "insert" => draft[w] \in Rows /\ draft[w].status = "pending"
    /\ \A n \in batch[w] : Exists(rows[n])
    /\ pc[w] \in {"send", "mark"} => job[w] \in DOMAIN Marking
    /\ pc[w] = "mark" =>
        /\ view[w] \in Ids \X Status
        /\ lock[view[w][1]] = w
        /\ rows[view[w][1]].status = view[w][2]

WorkersRely == \A w \in Workers : Relies(w)

NotificationsInv ==
    /\ TypeOK
    /\ WorkersRely
    /\ TrailsAccountForStatus

(***************************************************************************)
(* Facts about the operators.                                              *)
(***************************************************************************)

\* A row exists if and only if it has a status of its own.
LEMMA ExistingRows ==
    ASSUME TypeOK, NEW n \in Ids
    PROVE  /\ Exists(rows[n]) <=> rows[n] \in Rows
           /\ Exists(rows[n]) <=> rows[n].status \in Status
BY DEF TypeOK, Exists, NoRow, Rows, Status

\* An audit event that starts where the last one ended keeps a trail unbroken.
LEMMA ToldOnce ==
    ASSUME NEW n \in Ids, TypeOK, TrailsAccountForStatus, NEW to \in Status
    PROVE  /\ Told(audit[n], rows[n].status, to) \in
                  [status : Status \cup {"none"}, unbroken : BOOLEAN]
           /\ Told(audit[n], rows[n].status, to).unbroken
           /\ Told(audit[n], rows[n].status, to).status = to
BY DEF Told, TypeOK, TrailsAccountForStatus

\* What a mark changes: the status of one row that exists, and its trail with it.
LEMMA MarkedRow ==
    ASSUME NotificationsInv, NEW w \in Workers, Mark(w)
    PROVE  \E n \in Ids, new \in Status :
              /\ lock[n] = w
              /\ rows[n] \in Rows
              /\ rows' = [rows EXCEPT ![n].status = new]
              /\ audit' = [audit EXCEPT ![n] = IF rows[n].status = new THEN @
                                                ELSE Told(@, rows[n].status, new)]
              /\ lock' = [lock EXCEPT ![n] = None]
<1> DEFINE n == view[w][1]
           new == Marking[job[w]]
<1>1. pc[w] = "mark" /\ Relies(w)
  BY DEF Mark, NotificationsInv, WorkersRely
<1>2. n \in Ids /\ lock[n] = w /\ rows[n].status = view[w][2] /\ view[w][2] \in Status
  BY <1>1 DEF Relies
<1>3. new \in Status
  BY <1>1 DEF Relies, Marking, Status
<1>4. rows[n] \in Rows
  BY <1>2, ExistingRows DEF NotificationsInv
<1>5. /\ rows' = [rows EXCEPT ![n].status = new]
      /\ audit' = [audit EXCEPT ![n] = IF rows[n].status = new THEN @
                                        ELSE Told(@, rows[n].status, new)]
      /\ lock' = [lock EXCEPT ![n] = None]
  BY <1>2 DEF Mark
<1> QED
  BY <1>2, <1>3, <1>4, <1>5

\* The task count stays within its bound.
LEMMA TasksBounded == TypeOK /\ OneMoreTask => tasks' \in 0 .. MaxTasks
BY BoundsAssumption DEF TypeOK, OneMoreTask

(***************************************************************************)
(* The steps of the inductive invariant.                                   *)
(***************************************************************************)

\* The invariant holds of the empty tables.
LEMMA NotificationsInit == Init => NotificationsInv
<1> SUFFICES ASSUME Init PROVE NotificationsInv
  OBVIOUS
<1>1. TypeOK
  BY BoundsAssumption, ClockAssumption DEF Init, TypeOK, Minutes, Steps
<1>2. WorkersRely
  BY DEF Init, WorkersRely, Relies
<1>3. TrailsAccountForStatus
  BY DEF Init, TrailsAccountForStatus, NoRow
<1> QED
  BY <1>1, <1>2, <1>3 DEF NotificationsInv

\* Steps keep the types; what workers rely on says that the rows they write exist.
LEMMA TypeNext == NotificationsInv /\ [Next]_vars => TypeOK'
<1> SUFFICES ASSUME NotificationsInv, [Next]_vars PROVE TypeOK'
  OBVIOUS
<1>0. TypeOK /\ WorkersRely
  BY DEF NotificationsInv
<1> USE DEF Goto
<1>1. CASE Tick
  BY <1>0, <1>1, ClockAssumption DEF TypeOK, Tick, Minutes
<1>2. CASE Beat
  BY <1>0, <1>2, TasksBounded DEF TypeOK, Beat
<1>3. ASSUME NEW w \in Workers, StartDispatch(w) PROVE TypeOK'
  <2>1. Oldest(Limit) \in SUBSET Ids
    BY DEF Oldest
  <2>2. tasks' \in 0 .. MaxTasks
    BY <1>0, <1>3, BoundsAssumption DEF TypeOK, StartDispatch
  <2>3. "dispatch" \in DOMAIN Marking
    BY DEF Marking
  <2> QED
    BY <1>0, <1>3, <2>1, <2>2, <2>3 DEF TypeOK, StartDispatch, Steps
<1>4. ASSUME NEW w \in Workers, NEW request \in Asked, StartCreate(w, request) PROVE TypeOK'
  <2>1. [status |-> "pending", key |-> request.key, due |-> request.due] \in Rows
    BY AskedAssumption DEF Rows, Status, Minutes
  <2> QED
    BY <1>0, <1>4, <2>1 DEF TypeOK, StartCreate, Steps
<1>5. ASSUME NEW w \in Workers, NEW n \in Ids, NEW mark \in {"mark_sent", "mark_failed"},
             StartMark(w, n, mark)
      PROVE  TypeOK'
  <2>1. rows[n].status \in Status
    BY <1>0, <1>5, ExistingRows DEF StartMark
  <2>2. mark \in DOMAIN Marking
    BY DEF Marking
  <2> QED
    BY <1>0, <1>5, <2>1, <2>2 DEF TypeOK, StartMark, LockAndRead, Steps
<1>6. ASSUME NEW w \in Workers, LockNext(w) PROVE TypeOK'
  <2>1. PICK n \in batch[w] : LockAndRead(w, n) /\ batch' = [batch EXCEPT ![w] = @ \ {n}]
    BY <1>6 DEF LockNext
  <2>2. n \in Ids /\ rows[n].status \in Status
    BY <1>0, ExistingRows DEF TypeOK, WorkersRely, Relies
  <2> QED
    BY <1>0, <1>6, <2>1, <2>2 DEF TypeOK, LockNext, LockAndRead, Steps
<1>7. ASSUME NEW w \in Workers, Insert(w) PROVE TypeOK'
  <2>1. PICK n \in Free : /\ rows' = [rows EXCEPT ![n] = draft[w]]
                          /\ audit' = [audit EXCEPT ![n] = Told(@, "none", "pending")]
    BY <1>7 DEF Insert
  <2>2. Told(audit[n], "none", "pending") \in [status : Status \cup {"none"}, unbroken : BOOLEAN]
    BY <1>0, <2>1 DEF Told, Status, TypeOK, Free
  <2> QED
    BY <1>0, <1>7, <2>1, <2>2 DEF TypeOK, Insert, Steps, Free
<1>8. ASSUME NEW w \in Workers, Tell(w) PROVE TypeOK'
  BY <1>0, <1>8, TasksBounded DEF TypeOK, Tell, Steps
<1>9. ASSUME NEW w \in Workers, Mark(w) PROVE TypeOK'
  <2>1. PICK n \in Ids, new \in Status :
              /\ rows[n] \in Rows
              /\ rows' = [rows EXCEPT ![n].status = new]
              /\ audit' = [audit EXCEPT ![n] = IF rows[n].status = new THEN @
                                                ELSE Told(@, rows[n].status, new)]
              /\ lock' = [lock EXCEPT ![n] = None]
    BY <1>9, MarkedRow
  <2>2. rows' \in [Ids -> Rows \cup {NoRow}]
    <3>1. [rows[n] EXCEPT !.status = new] \in Rows
      BY <2>1 DEF Rows
    <3> QED
      BY <1>0, <2>1, <3>1 DEF TypeOK
  <2>3. audit' \in [Ids -> [status : Status \cup {"none"}, unbroken : BOOLEAN]]
    BY <1>0, <2>1, ToldOnce DEF TypeOK, NotificationsInv
  <2>4. /\ view' \in [Workers -> (Ids \X Status) \cup {None}]
        /\ lock' \in [Ids -> Workers \cup {None}]
        /\ pc' \in [Workers -> Steps]
        /\ job' \in [Workers -> DOMAIN Marking \cup {None}]
    BY <1>0, <1>9, <2>1 DEF TypeOK, Mark, Steps
  <2> QED
    BY <1>0, <1>9, <2>2, <2>3, <2>4 DEF TypeOK, Mark
<1>10. ASSUME NEW w \in Workers, Crash(w) PROVE TypeOK'
  BY <1>0, <1>10, ClockAssumption DEF TypeOK, Crash, Steps
<1>11. CASE UNCHANGED vars
  BY <1>0, <1>11 DEF TypeOK, vars
<1> QED
  BY <1>1, <1>2, <1>3, <1>4, <1>5, <1>6, <1>7, <1>8, <1>9, <1>10, <1>11 DEF Next, Dispatch, Proceed

\* A step that leaves a worker's own state alone leaves it what it relies on, if
\* rows stay in the table and a row the worker has locked keeps lock and status.
LEMMA Bystander ==
    ASSUME NotificationsInv, NEW v \in Workers,
           pc'[v] = pc[v], draft'[v] = draft[v], batch'[v] = batch[v], job'[v] = job[v],
           view'[v] = view[v],
           \A n \in Ids : Exists(rows[n]) => Exists(rows[n])',
           \A n \in Ids : lock[n] = v => lock'[n] = v /\ rows'[n].status = rows[n].status
    PROVE  Relies(v)'
<1>1. Relies(v) /\ batch[v] \in SUBSET Ids
  BY DEF NotificationsInv, WorkersRely, TypeOK
<1> QED
  BY <1>1 DEF Relies, Exists

\* A step keeps what each worker relies on, its own step and that of another.
LEMMA RelyNext == NotificationsInv /\ [Next]_vars => WorkersRely'
<1> SUFFICES ASSUME NotificationsInv, [Next]_vars, NEW v \in Workers PROVE Relies(v)'
  BY DEF WorkersRely
<1>0. TypeOK /\ Relies(v) /\ WorkersRely /\ batch[v] \in SUBSET Ids
  BY DEF NotificationsInv, WorkersRely, TypeOK
<1>a. None \notin Workers
  BY NamesAssumption
<1> USE DEF Goto
<1>1. ASSUME NEW w \in Workers, StartDispatch(w) PROVE Relies(v)'
  <2>1. CASE v = w /\ Oldest(Limit) # {}
    <3>1. \A n \in Oldest(Limit) : n \in Ids /\ Exists(rows[n])
      BY DEF Oldest, Due, Exists
    <3>2. "dispatch" \in DOMAIN Marking
      BY DEF Marking
    <3>3. pc'[v] = "send" /\ batch'[v] = Oldest(Limit) /\ job'[v] = "dispatch" /\ rows' = rows
      BY <1>0, <1>1, <2>1 DEF StartDispatch, TypeOK
    <3> QED
      BY <3>1, <3>2, <3>3 DEF Relies, Exists
  <2>2. CASE v # w \/ Oldest(Limit) = {}
    <3>1. /\ pc'[v] = pc[v] /\ batch'[v] = batch[v] /\ job'[v] = job[v]
          /\ UNCHANGED <<rows, draft, view, lock>>
      BY <1>0, <1>1, <2>2 DEF StartDispatch, TypeOK
    <3> QED
      BY <3>1, Bystander DEF Exists
  <2> QED
    BY <2>1, <2>2
<1>2. ASSUME NEW w \in Workers, NEW request \in Asked, StartCreate(w, request) PROVE Relies(v)'
  <2>1. CASE v = w
    <3>1. [status |-> "pending", key |-> request.key, due |-> request.due] \in Rows
      BY AskedAssumption DEF Rows, Status, Minutes
    <3>2. /\ pc'[v] = "insert"
          /\ draft'[v] = [status |-> "pending", key |-> request.key, due |-> request.due]
          /\ UNCHANGED <<rows, batch>>
      BY <1>0, <1>2, <2>1 DEF StartCreate, TypeOK
    <3> QED
      BY <1>0, <3>1, <3>2 DEF Relies, Exists
  <2>2. CASE v # w
    <3>1. pc'[v] = pc[v] /\ draft'[v] = draft[v] /\ UNCHANGED <<rows, batch, job, view, lock>>
      BY <1>0, <1>2, <2>2 DEF StartCreate, TypeOK
    <3> QED
      BY <3>1, Bystander DEF Exists
  <2> QED
    BY <2>1, <2>2
<1>3. ASSUME NEW w \in Workers, NEW n \in Ids, LockAndRead(w, n), Exists(rows[n]),
             batch'[w] \in SUBSET batch[w], job'[w] \in DOMAIN Marking,
             \A u \in Workers \ {w} : batch'[u] = batch[u] /\ job'[u] = job[u],
             UNCHANGED <<rows, draft>>
      PROVE  Relies(v)'
  <2>1. rows[n].status \in Status
    BY <1>0, <1>3, ExistingRows
  <2>2. CASE v = w
    <3>1. pc'[v] = "mark" /\ view'[v] = <<n, rows[n].status>> /\ lock'[n] = v
      BY <1>0, <1>3, <2>2 DEF LockAndRead, TypeOK
    <3> QED
      BY <1>0, <1>3, <2>1, <2>2, <3>1 DEF Relies, Exists
  <2>3. CASE v # w
    <3>1. pc'[v] = pc[v] /\ view'[v] = view[v] /\ \A m \in Ids : lock[m] = v => lock'[m] = v
      BY <1>0, <1>a, <1>3, <2>3 DEF LockAndRead, MayLock, TypeOK
    <3> QED
      BY <1>3, <2>3, <3>1, Bystander DEF Exists
  <2> QED
    BY <2>2, <2>3
<1>4. ASSUME NEW w \in Workers, NEW n \in Ids, NEW mark \in {"mark_sent", "mark_failed"},
             StartMark(w, n, mark)
      PROVE  Relies(v)'
  <2>1. mark \in DOMAIN Marking
    BY DEF Marking
  <2> QED
    BY <1>0, <1>3, <1>4, <2>1 DEF StartMark, TypeOK
<1>5. ASSUME NEW w \in Workers, LockNext(w) PROVE Relies(v)'
  <2>1. PICK n \in batch[w] : LockAndRead(w, n) /\ batch' = [batch EXCEPT ![w] = @ \ {n}]
    BY <1>5 DEF LockNext
  <2>2. n \in Ids /\ Exists(rows[n]) /\ pc[w] = "send" /\ job[w] \in DOMAIN Marking
    BY <1>0, <1>5 DEF LockNext, WorkersRely, Relies, TypeOK
  <2> QED
    BY <1>0, <1>3, <1>5, <2>1, <2>2 DEF LockNext, TypeOK
<1>6. ASSUME NEW w \in Workers, Insert(w) PROVE Relies(v)'
  <2>1. PICK n \in Free : rows' = [rows EXCEPT ![n] = draft[w]]
    BY <1>6 DEF Insert
  <2>2. draft[w] \in Rows /\ Exists(draft[w]) /\ n \in Ids /\ ~Exists(rows[n])
    BY <1>0, <1>6, <2>1 DEF Insert, WorkersRely, Relies, Exists, Free
  <2>3. /\ \A m \in Ids \ {n} : rows'[m] = rows[m]
        /\ Exists(rows[n])'
    BY <1>0, <2>1, <2>2 DEF TypeOK, Exists
  <2>4. /\ pc'[v] = IF v = w THEN "tell" ELSE pc[v]
        /\ v # w => draft'[v] = draft[v]
        /\ UNCHANGED <<batch, job, view, lock>>
    BY <1>0, <1>6 DEF Insert, TypeOK
  <2>5. ~Exists(rows[n]) => rows[n].status \notin Status
    BY DEF Exists, Status
  <2> QED
    BY <1>0, <2>2, <2>3, <2>4, <2>5 DEF Relies, Exists
<1>7. ASSUME NEW w \in Workers, Tell(w) PROVE Relies(v)'
  BY <1>0, <1>7 DEF Tell, Relies, Exists, TypeOK
<1>8. ASSUME NEW w \in Workers, Mark(w) PROVE Relies(v)'
  <2>1. PICK n \in Ids, new \in Status :
              /\ lock[n] = w
              /\ rows[n] \in Rows
              /\ rows' = [rows EXCEPT ![n].status = new]
              /\ lock' = [lock EXCEPT ![n] = None]
    BY <1>8, MarkedRow
  <2>2. /\ \A m \in Ids \ {n} : rows'[m] = rows[m] /\ lock'[m] = lock[m]
        /\ rows'[n].status = new
    BY <1>0, <2>1 DEF TypeOK, Rows
  <2>3. \A m \in Ids : Exists(rows[m]) => Exists(rows[m])'
    BY <2>2 DEF Exists, Status
  <2>4. CASE v = w
    <3>1. pc'[v] \in {"idle", "send"} /\ batch' = batch /\ (pc'[v] = "send" => job' = job)
      BY <1>0, <1>8, <2>4 DEF Mark, TypeOK
    <3>2. job[v] \in DOMAIN Marking
      BY <1>0, <1>8, <2>4 DEF Mark, Relies
    <3> QED
      BY <1>0, <2>3, <3>1, <3>2 DEF Relies
  <2>5. CASE v # w
    <3>1. /\ pc'[v] = pc[v] /\ job'[v] = job[v] /\ view'[v] = view[v]
          /\ UNCHANGED <<batch, draft>>
      BY <1>0, <1>8, <2>5 DEF Mark, TypeOK
    <3> QED
      BY <2>1, <2>2, <2>3, <2>5, <3>1, Bystander
  <2> QED
    BY <2>4, <2>5
<1>9. ASSUME NEW w \in Workers, Crash(w) PROVE Relies(v)'
  <2>1. CASE v = w
    BY <1>0, <1>9, <2>1 DEF Crash, Relies, TypeOK
  <2>2. CASE v # w
    <3>1. /\ pc'[v] = pc[v] /\ draft'[v] = draft[v] /\ batch'[v] = batch[v]
          /\ job'[v] = job[v] /\ view'[v] = view[v]
          /\ \A n \in Ids : lock[n] = v => lock'[n] = v
          /\ rows' = rows
      BY <1>0, <1>9, <2>2 DEF Crash, TypeOK
    <3> QED
      BY <3>1, Bystander DEF Exists
  <2> QED
    BY <2>1, <2>2
<1>10. CASE UNCHANGED <<rows, pc, draft, batch, job, view, lock>>
  BY <1>10, Bystander DEF Exists
<1> QED
  BY <1>1, <1>2, <1>4, <1>5, <1>6, <1>7, <1>8, <1>9, <1>10
  DEF Next, Dispatch, Proceed, Tick, Beat, vars

\* Each event that is written starts from the status the row has then.
LEMMA TrailsNext == NotificationsInv /\ [Next]_vars => TrailsAccountForStatus'
<1> SUFFICES ASSUME NotificationsInv, [Next]_vars PROVE TrailsAccountForStatus'
  OBVIOUS
<1>0. TypeOK /\ WorkersRely /\ TrailsAccountForStatus
  BY DEF NotificationsInv
<1>1. ASSUME NEW w \in Workers, Insert(w) PROVE TrailsAccountForStatus'
  <2>1. PICK n \in Free : /\ rows' = [rows EXCEPT ![n] = draft[w]]
                          /\ audit' = [audit EXCEPT ![n] = Told(@, "none", "pending")]
    BY <1>1 DEF Insert
  <2>2. n \in Ids /\ rows[n].status = "none" /\ draft[w].status = "pending"
    BY <1>0, <1>1, <2>1 DEF Insert, WorkersRely, Relies, Free, Exists
  <2>3. Told(audit[n], "none", "pending").unbroken /\ Told(audit[n], "none", "pending").status = "pending"
    BY <1>0, <2>2, ToldOnce DEF Status
  <2> QED
    BY <1>0, <2>1, <2>2, <2>3 DEF TypeOK, TrailsAccountForStatus
<1>2. ASSUME NEW w \in Workers, Mark(w) PROVE TrailsAccountForStatus'
  <2>1. PICK n \in Ids, new \in Status :
              /\ rows[n] \in Rows
              /\ rows' = [rows EXCEPT ![n].status = new]
              /\ audit' = [audit EXCEPT ![n] = IF rows[n].status = new THEN @
                                                ELSE Told(@, rows[n].status, new)]
    BY <1>2, MarkedRow
  <2>2. rows'[n].status = new /\ \A m \in Ids \ {n} : rows'[m] = rows[m] /\ audit'[m] = audit[m]
    BY <1>0, <2>1 DEF TypeOK, Rows
  <2>3. audit'[n].unbroken /\ audit'[n].status = new
    BY <1>0, <2>1, ToldOnce DEF TypeOK, TrailsAccountForStatus
  <2> QED
    BY <1>0, <2>2, <2>3 DEF TrailsAccountForStatus
<1>3. CASE UNCHANGED <<rows, audit>>
  BY <1>0, <1>3 DEF TrailsAccountForStatus
<1> QED
  BY <1>1, <1>2, <1>3 DEF Next, vars, Dispatch, Proceed, Tick, Beat, StartDispatch, StartCreate,
     StartMark, LockNext, Tell, Crash

(***************************************************************************)
(* Duplicates.  The rows of a key are counted together with the creations  *)
(* that have looked it up and are about to insert.                         *)
(***************************************************************************)

OfKey(key) == {n \in Ids : Exists(rows[n]) /\ rows[n].key = key}

Coming(key) == {w \in Workers : pc[w] = "insert" /\ draft[w].key = key}

RowsAndComingAreBounded ==
    \A key \in Keys : Cardinality(OfKey(key)) + Cardinality(Coming(key)) <= Cardinality(Workers)

\* The rows of a key, and the workers about to add one, can be counted.
LEMMA FiniteOfKey ==
    ASSUME NEW key
    PROVE  /\ IsFiniteSet(OfKey(key)) /\ Cardinality(OfKey(key)) \in Nat
           /\ IsFiniteSet(Coming(key)) /\ Cardinality(Coming(key)) \in Nat
           /\ Cardinality(Coming(key)) <= Cardinality(Workers)
           /\ Cardinality(Workers) \in Nat
<1>1. IsFiniteSet(Ids)
  BY BoundsAssumption, FS_Interval DEF Ids
<1>2. OfKey(key) \in SUBSET Ids /\ Coming(key) \in SUBSET Workers
  BY DEF OfKey, Coming
<1> QED
  BY <1>1, <1>2, WorkersAssumption, FS_Subset, FS_CardinalityType

\* A row that is inserted was counted before as one to come, and one comes only to
\* those that looked while there was none.
LEMMA ComingNext ==
    NotificationsInv /\ RowsAndComingAreBounded /\ [Next]_vars => RowsAndComingAreBounded'
<1> SUFFICES ASSUME NotificationsInv, RowsAndComingAreBounded, [Next]_vars, NEW key \in Keys
             PROVE  Cardinality(OfKey(key)') + Cardinality(Coming(key)') <= Cardinality(Workers)
  BY DEF RowsAndComingAreBounded
<1>0. TypeOK /\ WorkersRely /\ key # NoKey
  BY NamesAssumption DEF NotificationsInv
<1>a. Cardinality(OfKey(key)) + Cardinality(Coming(key)) <= Cardinality(Workers)
  BY DEF RowsAndComingAreBounded
<1> USE DEF Goto
\* The look-up found no row of the key, so only workers count.
<1>1. ASSUME NEW w \in Workers, NEW request \in Asked, StartCreate(w, request), request.key = key
      PROVE  Cardinality(OfKey(key)') + Cardinality(Coming(key)') <= Cardinality(Workers)
  <2>1. OfKey(key)' = {}
    BY <1>0, <1>1 DEF StartCreate, Found, OfKey, Exists
  <2>2. Coming(key)' \in SUBSET Workers
    BY DEF Coming
  <2>3. Cardinality(Coming(key)') <= Cardinality(Workers) /\ Cardinality(Coming(key)') \in Nat
    BY <2>2, WorkersAssumption, FS_Subset, FS_CardinalityType
  <2> QED
    BY <2>1, <2>3, FS_EmptySet, FiniteOfKey
\* A row more, and a worker less that is about to insert.
<1>2. ASSUME NEW w \in Workers, Insert(w), draft[w].key = key
      PROVE  Cardinality(OfKey(key)') + Cardinality(Coming(key)') <= Cardinality(Workers)
  <2>1. PICK n \in Free : rows' = [rows EXCEPT ![n] = draft[w]]
    BY <1>2 DEF Insert
  <2>2. n \in Ids /\ ~Exists(rows[n]) /\ Exists(draft[w])
    BY <1>0, <1>2, <2>1 DEF Insert, WorkersRely, Relies, Free, Exists
  <2>3. OfKey(key)' = OfKey(key) \cup {n} /\ n \notin OfKey(key)
    BY <1>0, <1>2, <2>1, <2>2 DEF OfKey, TypeOK, Exists
  <2>4. Coming(key)' = Coming(key) \ {w} /\ w \in Coming(key)
    BY <1>0, <1>2 DEF Insert, Coming, TypeOK
  <2>5. Cardinality(OfKey(key)') = Cardinality(OfKey(key)) + 1
    BY <2>3, FiniteOfKey, FS_AddElement
  <2>6. Cardinality(Coming(key)') = Cardinality(Coming(key)) - 1
    BY <2>4, FiniteOfKey, FS_RemoveElement
  <2> QED
    BY <1>a, <2>5, <2>6, FiniteOfKey
<1>3. ASSUME OfKey(key)' = OfKey(key), Coming(key)' \in SUBSET Coming(key)
      PROVE  Cardinality(OfKey(key)') + Cardinality(Coming(key)') <= Cardinality(Workers)
  <2>1. Cardinality(Coming(key)') <= Cardinality(Coming(key)) /\ Cardinality(Coming(key)') \in Nat
    BY <1>3, FiniteOfKey, FS_Subset, FS_CardinalityType
  <2> QED
    BY <1>a, <1>3, <2>1, FiniteOfKey
<1>4. ASSUME NEW w \in Workers, NEW request \in Asked, StartCreate(w, request), request.key # key
      PROVE  OfKey(key)' = OfKey(key) /\ Coming(key)' \in SUBSET Coming(key)
  BY <1>0, <1>4 DEF StartCreate, OfKey, Coming, TypeOK, Exists
<1>5. ASSUME NEW w \in Workers, Insert(w), draft[w].key # key
      PROVE  OfKey(key)' = OfKey(key) /\ Coming(key)' \in SUBSET Coming(key)
  <2>1. PICK n \in Free : rows' = [rows EXCEPT ![n] = draft[w]]
    BY <1>5 DEF Insert
  <2> QED
    BY <1>0, <1>5, <2>1 DEF Insert, OfKey, Coming, TypeOK, Exists, Free
<1>6. ASSUME NEW w \in Workers, Mark(w)
      PROVE  OfKey(key)' = OfKey(key) /\ Coming(key)' \in SUBSET Coming(key)
  <2>1. PICK n \in Ids, new \in Status :
            rows[n] \in Rows /\ rows' = [rows EXCEPT ![n].status = new]
    BY <1>6, MarkedRow
  <2>2. /\ \A m \in Ids \ {n} : rows'[m] = rows[m]
        /\ rows'[n].key = rows[n].key /\ Exists(rows[n]) /\ rows'[n].status # "none"
    BY <1>0, <2>1 DEF TypeOK, Rows, Exists, Status
  <2>3. OfKey(key)' = OfKey(key)
    BY <2>1, <2>2 DEF OfKey, Exists
  <2>4. draft' = draft /\ \A u \in Workers : pc'[u] = "insert" => pc[u] = "insert"
    BY <1>0, <1>6 DEF Mark, TypeOK
  <2> QED
    BY <2>3, <2>4 DEF Coming
<1>7. ASSUME UNCHANGED rows,
             \A w \in Workers : pc'[w] = "insert" => pc[w] = "insert" /\ draft'[w] = draft[w]
      PROVE  OfKey(key)' = OfKey(key) /\ Coming(key)' \in SUBSET Coming(key)
  BY <1>7 DEF OfKey, Coming, Exists
<1>8. ASSUME NEW w \in Workers, NEW n \in Ids, NEW mark \in {"mark_sent", "mark_failed"},
             StartMark(w, n, mark)
      PROVE  OfKey(key)' = OfKey(key) /\ Coming(key)' \in SUBSET Coming(key)
  BY <1>0, <1>7, <1>8 DEF StartMark, LockAndRead, TypeOK
<1>9. ASSUME NEW w \in Workers,
             StartDispatch(w) \/ LockNext(w) \/ Tell(w) \/ Crash(w)
      PROVE  OfKey(key)' = OfKey(key) /\ Coming(key)' \in SUBSET Coming(key)
  BY <1>0, <1>7, <1>9 DEF StartDispatch, LockNext, LockAndRead, Tell, Crash, TypeOK
<1>10. CASE UNCHANGED <<rows, pc, draft>>
  BY <1>3, <1>7, <1>10
<1> QED
  BY <1>1, <1>2, <1>3, <1>4, <1>5, <1>6, <1>8, <1>9, <1>10
  DEF Next, vars, Dispatch, Proceed, Tick, Beat

(***************************************************************************)
(* The theorems.                                                           *)
(***************************************************************************)

\* The invariant holds in every reachable state.
LEMMA NotificationsInvHolds == Spec => []NotificationsInv
<1>1. NotificationsInv /\ [Next]_vars => NotificationsInv'
  BY TypeNext, RelyNext, TrailsNext DEF NotificationsInv
<1> QED
  BY NotificationsInit, <1>1, PTL DEF Spec

\* The variables keep their types, whatever tasks and API calls meet and die.
THEOREM TypeCorrect == Spec => []TypeOK
<1>1. NotificationsInv => TypeOK
  BY DEF NotificationsInv
<1> QED
  BY <1>1, NotificationsInvHolds, PTL

\* mark_sent and mark_failed read the status they record under the row lock they
\* hold to the commit, so the audit trail of a notification accounts for its status.
THEOREM TrailsCorrect == Spec => []TrailsAccountForStatus
<1>1. NotificationsInv => TrailsAccountForStatus
  BY DEF NotificationsInv
<1> QED
  BY <1>1, NotificationsInvHolds, PTL

\* create_notification looks its dedupe key up before it inserts, without a lock: a
\* key gets at most one notification per worker.
THEOREM DuplicatesBounded == Spec => []DuplicatesAreBounded
<1>1. Init => RowsAndComingAreBounded
  <2> SUFFICES ASSUME Init, NEW key \in Keys
               PROVE  Cardinality(OfKey(key)) + Cardinality(Coming(key)) <= Cardinality(Workers)
    BY DEF RowsAndComingAreBounded
  <2>1. OfKey(key) = {} /\ Coming(key) = {}
    BY DEF Init, OfKey, Coming, Exists, NoRow
  <2> QED
    BY <2>1, FS_EmptySet, FiniteOfKey
<1>2. RowsAndComingAreBounded => DuplicatesAreBounded
  <2> SUFFICES ASSUME RowsAndComingAreBounded, NEW key \in Keys
               PROVE  Cardinality(OfKey(key)) <= Cardinality(Workers)
    BY DEF DuplicatesAreBounded, OfKey
  <2> QED
    BY FiniteOfKey DEF RowsAndComingAreBounded
<1> QED
  BY <1>1, <1>2, ComingNext, NotificationsInvHolds, PTL DEF Spec
-----------------------------------------------------------------------------
(***************************************************************************)
(* Realtime: the inductive invariant.                                      *)
(***************************************************************************)

\* Something is under way that will bring page p the status the loan has now.
News(p) ==
    \/ \E m \in unsent : m.group = "user"
    \/ inbox[p] > 0
    \/ asked[p] > 0
    \/ answers[p][status] > 0

WhatIsNotShownIsComing ==
    \A p \in watching \ doubt : shown[p] = status \/ News(p)

\* An answer tells the status the loan has, or one that it had before.
AnswersAreFromThePast ==
    \A p \in Pages, s \in LoanStatus : answers[p][s] > 0 => s = status \/ Rank(s) < Rank(status)

RealtimeInv ==
    /\ RTTypeOK
    /\ WhatIsNotShownIsComing
    /\ AnswersAreFromThePast

(***************************************************************************)
(* Type correctness.                                                       *)
(***************************************************************************)

\* The types hold at first.
LEMMA RTTypeInit == RTInit => RTTypeOK
BY FaultsAssumption DEF RTInit, RTTypeOK, LoanStatus, SocketStates

\* Steps keep the types.
LEMMA RTTypeNext == RTTypeOK /\ [RTNext]_rtVars => RTTypeOK'
<1> SUFFICES ASSUME RTTypeOK, [RTNext]_rtVars PROVE RTTypeOK'
  OBVIOUS
<1> USE DEF loan, tokens, socket, screen
<1>a. \A n \in Int : n < MaxFaults /\ n \in 0 .. MaxFaults => n + 1 \in 0 .. MaxFaults
  BY FaultsAssumption
<1>b. Fault => faults' \in 0 .. MaxFaults
  BY <1>a, FaultsAssumption DEF Fault, RTTypeOK
<1>1. CASE Create
  BY <1>1 DEF Create, RTTypeOK, LoanStatus
<1>2. ASSUME NEW s \in Decisions, Move(s)
      PROVE  status' \in LoanStatus /\ unsent' \subseteq Sends
  BY <1>2, DecisionsAssumption DEF Move, RTTypeOK, LoanStatus
<1>3. ASSUME NEW s \in Decisions, DecideElsewhere(s) PROVE RTTypeOK'
  BY <1>2, <1>3 DEF DecideElsewhere, RTTypeOK
<1>4. ASSUME NEW p \in Pages, NEW s \in Decisions, Decide(p, s) PROVE RTTypeOK'
  <2>1. s \in LoanStatus
    BY DecisionsAssumption DEF LoanStatus
  <2>2. answers' \in [Pages -> [LoanStatus -> Nat]]
    BY <1>4, <2>1 DEF Decide, RTTypeOK
  <2> QED
    BY <1>2, <1>4, <2>2 DEF Decide, RTTypeOK
<1>5. CASE Settle
  BY <1>5 DEF Settle, RTTypeOK, LoanStatus
<1>6. ASSUME NEW m \in Sends, Send(m) PROVE RTTypeOK'
  <2>1. inbox' \in [Pages -> Nat]
    BY <1>6 DEF Send, RTTypeOK
  <2> QED
    BY <1>6, <2>1 DEF Send, RTTypeOK
<1>7. ASSUME NEW change \in {"created", "decided"}, WorkerDies(change) PROVE RTTypeOK'
  BY <1>7, <1>b DEF WorkerDies, RTTypeOK
<1>8. CASE Expire \/ ExpireRefresh \/ Login
  BY <1>8, <1>b DEF Expire, ExpireRefresh, Login, RTTypeOK
<1>9. ASSUME NEW p \in Pages, NEW from, NEW to \in SocketStates, SocketGoes(p, from, to)
      PROVE  sock' \in [Pages -> SocketStates]
  BY <1>9 DEF SocketGoes, RTTypeOK
<1>10. ASSUME NEW p \in Pages, Connect(p) PROVE RTTypeOK'
  BY <1>9, <1>10 DEF Connect, RTTypeOK, SocketStates
<1>11. ASSUME NEW p \in Pages, Refresh(p) PROVE RTTypeOK'
  BY <1>9, <1>11 DEF Refresh, RTTypeOK, SocketStates
<1>12. ASSUME NEW p \in Pages, LoseRefresh(p) PROVE RTTypeOK'
  BY <1>9, <1>12, <1>b DEF LoseRefresh, RTTypeOK, SocketStates
<1>13. ASSUME NEW p \in Pages, Refuse(p) PROVE RTTypeOK'
  BY <1>9, <1>13 DEF Refuse, AfterRefusal, RTTypeOK, SocketStates
<1>14. ASSUME NEW p \in Pages, Accept(p) PROVE RTTypeOK'
  BY <1>9, <1>14 DEF Accept, RTTypeOK, SocketStates
<1>15. ASSUME NEW p \in Pages, Subscribe(p) PROVE RTTypeOK'
  BY <1>15 DEF Subscribe, RTTypeOK
<1>16. ASSUME NEW p \in Pages, Drop(p) PROVE RTTypeOK'
  <2>1. sock' \in [Pages -> SocketStates]
    BY <1>9, <1>16 DEF Drop, SocketStates
  <2> QED
    BY <1>16, <1>b, <2>1 DEF Drop, RTTypeOK
<1>17. ASSUME NEW p \in Pages, Load(p) PROVE asked' \in [Pages -> Nat] /\ doubt' \subseteq Pages
  BY <1>17 DEF Load, RTTypeOK
<1>18. ASSUME NEW p \in Pages, Handle(p) PROVE RTTypeOK'
  <2>1. inbox' \in [Pages -> Nat]
    BY <1>18 DEF Handle, RTTypeOK
  <2>2. asked' \in [Pages -> Nat] /\ doubt' \subseteq Pages
    BY <1>17, <1>18 DEF Handle, RTTypeOK
  <2> QED
    BY <1>18, <2>1, <2>2 DEF Handle, RTTypeOK
<1>19. ASSUME NEW p \in Pages, LoadByHand(p) PROVE RTTypeOK'
  BY <1>17, <1>19 DEF LoadByHand, RTTypeOK
<1>20. ASSUME NEW p \in Pages, Read(p) PROVE RTTypeOK'
  <2>1. asked' \in [Pages -> Nat] /\ answers' \in [Pages -> [LoanStatus -> Nat]]
    BY <1>20 DEF Read, RTTypeOK
  <2> QED
    BY <1>20, <2>1 DEF Read, RTTypeOK
<1>21. ASSUME NEW p \in Pages, LoseLoad(p) PROVE RTTypeOK'
  <2>1. asked' \in [Pages -> Nat]
    BY <1>21 DEF LoseLoad, RTTypeOK
  <2> QED
    BY <1>21, <1>b, <2>1 DEF LoseLoad, RTTypeOK
<1>22. ASSUME NEW p \in Pages, NEW s \in LoanStatus, Render(p, s) PROVE RTTypeOK'
  <2>1. answers' \in [Pages -> [LoanStatus -> Nat]]
    BY <1>22 DEF Render, RTTypeOK
  <2>2. /\ shown' \in [Pages -> LoanStatus \cup {"blank"}]
        /\ member' \in [Pages -> {"out", "sent", "joined"}]
        /\ doubt' \subseteq Pages
    BY <1>22 DEF Render, RTTypeOK
  <2> QED
    BY <1>22, <2>1, <2>2 DEF Render, RTTypeOK
<1>23. CASE UNCHANGED rtVars
  BY <1>23 DEF rtVars, RTTypeOK
<1> QED
  BY <1>1, <1>3, <1>4, <1>5, <1>6, <1>7, <1>8, <1>10, <1>11, <1>12, <1>13, <1>14, <1>15,
     <1>16, <1>18, <1>19, <1>20, <1>21, <1>22, <1>23 DEF RTNext

(***************************************************************************)
(* The steps of the inductive invariant.                                   *)
(***************************************************************************)

\* Answers that are under way stay from the past while the loan moves on.
LEMMA AnswersNext ==
    ASSUME RTTypeOK, AnswersAreFromThePast, [RTNext]_rtVars
    PROVE  AnswersAreFromThePast'
<1> USE DEF loan, tokens, socket, screen
<1>a. ASSUME status' = status,
             \A p \in Pages, s \in LoanStatus :
                answers'[p][s] > 0 => answers[p][s] > 0 \/ s = status
      PROVE  AnswersAreFromThePast'
  BY <1>a DEF AnswersAreFromThePast, RTTypeOK
<1>b. ASSUME Rank(status) < Rank(status'), status \in LoanStatus, status' \in LoanStatus,
             \A p \in Pages, s \in LoanStatus :
                answers'[p][s] > 0 => answers[p][s] > 0 \/ s = status'
      PROVE  AnswersAreFromThePast'
  <2> SUFFICES ASSUME NEW p \in Pages, NEW s \in LoanStatus, answers'[p][s] > 0, s # status'
               PROVE  Rank(s) < Rank(status')
    BY DEF AnswersAreFromThePast, Rank
  <2>1. s = status \/ Rank(s) < Rank(status)
    BY <1>b DEF AnswersAreFromThePast
  <2>2. Rank(s) \in Nat /\ Rank(status) \in Nat /\ Rank(status') \in Nat
    BY <1>b DEF Rank, LoanStatus
  <2> QED
    BY <1>b, <2>1, <2>2
<1>c. ASSUME NEW s \in Decisions, Move(s)
      PROVE  Rank(status) < Rank(status') /\ status \in LoanStatus /\ status' \in LoanStatus
  BY <1>c, DecisionsAssumption DEF Move, Rank, LoanStatus
<1>1. CASE Create
  <2>1. Rank(status) < Rank(status') /\ status \in LoanStatus /\ status' \in LoanStatus
    BY <1>1 DEF Create, Rank, LoanStatus
  <2> QED
    BY <1>1, <1>b, <2>1 DEF Create
<1>2. ASSUME NEW s \in Decisions, DecideElsewhere(s) PROVE AnswersAreFromThePast'
  BY <1>2, <1>b, <1>c DEF DecideElsewhere
<1>3. ASSUME NEW p \in Pages, NEW s \in Decisions, Decide(p, s) PROVE AnswersAreFromThePast'
  <2>1. \A q \in Pages, t \in LoanStatus : answers'[q][t] > 0 => answers[q][t] > 0 \/ t = s
    BY <1>3 DEF Decide, RTTypeOK
  <2>2. status' = s
    BY <1>3 DEF Decide, Move
  <2> QED
    BY <1>3, <1>b, <1>c, <2>1, <2>2 DEF Decide
<1>4. CASE Settle
  <2>1. Rank(status) < Rank(status') /\ status \in LoanStatus /\ status' \in LoanStatus
    BY <1>4 DEF Settle, Rank, LoanStatus
  <2> QED
    BY <1>4, <1>b, <2>1 DEF Settle
<1>5. CASE UNCHANGED <<status, answers>>
  BY <1>5, <1>a
<1>6. ASSUME NEW p \in Pages, Read(p) PROVE AnswersAreFromThePast'
  <2>1. \A q \in Pages, t \in LoanStatus : answers'[q][t] > 0 => answers[q][t] > 0 \/ t = status
    BY <1>6 DEF Read, RTTypeOK
  <2> QED
    BY <1>6, <1>a, <2>1 DEF Read
<1>7. ASSUME NEW p \in Pages, NEW s \in LoanStatus, Render(p, s) PROVE AnswersAreFromThePast'
  <2>1. \A q \in Pages, t \in LoanStatus : answers'[q][t] > 0 => answers[q][t] > 0
    BY <1>7 DEF Render, RTTypeOK
  <2> QED
    BY <1>7, <1>a, <2>1 DEF Render
<1>8. ASSUME NEW m \in Sends, Send(m) PROVE AnswersAreFromThePast'
  BY <1>5, <1>8 DEF Send
<1>9. ASSUME NEW change \in {"created", "decided"}, WorkerDies(change)
      PROVE  AnswersAreFromThePast'
  BY <1>5, <1>9 DEF WorkerDies
<1>10. ASSUME NEW p \in Pages,
              \/ Connect(p) \/ Refresh(p) \/ LoseRefresh(p) \/ Refuse(p) \/ Accept(p)
              \/ Subscribe(p) \/ Drop(p) \/ Handle(p) \/ LoadByHand(p) \/ LoseLoad(p)
       PROVE  AnswersAreFromThePast'
  BY <1>5, <1>10 DEF Connect, Refresh, LoseRefresh, Refuse, Accept, Subscribe, Drop, Handle,
                     LoadByHand, LoseLoad
<1>11. CASE Expire \/ ExpireRefresh \/ Login
  BY <1>5, <1>11 DEF Expire, ExpireRefresh, Login
<1>12. CASE UNCHANGED rtVars
  BY <1>5, <1>12 DEF rtVars
<1> QED
  BY <1>1, <1>2, <1>3, <1>4, <1>6, <1>7, <1>8, <1>9, <1>10, <1>11, <1>12 DEF RTNext

\* What a page does not show stays under way until it is shown or in doubt.
LEMMA NewsNext ==
    ASSUME RTTypeOK, RTTypeOK', WhatIsNotShownIsComing, AnswersAreFromThePast, [RTNext]_rtVars
    PROVE  WhatIsNotShownIsComing'
<1> USE DEF loan, tokens, socket, screen
\* A page with an event, a load or a send under way has one after a step that takes
\* none of them away.
<1>a. ASSUME UNCHANGED <<status, answers, shown>>,
             NEW p \in watching' \ doubt', p \in watching \ doubt,
             (\E m \in unsent : m.group = "user")
                => (\E m \in unsent' : m.group = "user") \/ inbox'[p] > 0,
             inbox[p] > 0 => inbox'[p] > 0 \/ asked'[p] > 0,
             asked[p] > 0 => asked'[p] > 0
      PROVE  shown'[p] = status' \/ News(p)'
  BY <1>a DEF WhatIsNotShownIsComing, News
<1>b. CASE UNCHANGED <<loan, inbox, screen>> /\ doubt \subseteq doubt'
  BY <1>b DEF WhatIsNotShownIsComing, News
<1>1. CASE Create
  <2>1. [change |-> "created", group |-> "user"] \in unsent'
    BY <1>1 DEF Create, Sends, Groups
  <2> QED
    BY <2>1 DEF WhatIsNotShownIsComing, News
<1>2. ASSUME NEW s \in Decisions, Move(s) PROVE WhatIsNotShownIsComing'
  <2>1. [change |-> "decided", group |-> "user"] \in unsent'
    BY <1>2 DEF Move, Sends, Groups
  <2> QED
    BY <2>1 DEF WhatIsNotShownIsComing, News
<1>3. CASE Settle
  BY <1>3 DEF Settle, WhatIsNotShownIsComing, RTTypeOK
<1>4. ASSUME NEW m \in Sends, Send(m) PROVE WhatIsNotShownIsComing'
  <2> SUFFICES ASSUME NEW p \in watching' \ doubt' PROVE shown'[p] = status' \/ News(p)'
    BY DEF WhatIsNotShownIsComing
  <2>1. p \in watching \ doubt /\ p \in Pages
    BY <1>4 DEF Send, RTTypeOK
  <2>2. inbox[p] \in Nat /\ inbox'[p] = inbox[p] + (IF InGroup(p, m.group) THEN 1 ELSE 0)
    BY <1>4, <2>1 DEF Send, RTTypeOK
  <2>3. m.group = "user" => inbox'[p] > 0
    <3>1. m.group = "user" => InGroup(p, m.group)
      BY <1>4, <2>1 DEF Send
    <3> QED
      BY <2>2, <3>1
  <2>4. inbox[p] > 0 => inbox'[p] > 0
    BY <2>2
  <2>5. unsent' = unsent \ {m} /\ UNCHANGED <<status, answers, shown, asked>>
    BY <1>4 DEF Send
  <2> QED
    BY <1>a, <2>1, <2>3, <2>4, <2>5
<1>5. ASSUME NEW change \in {"created", "decided"}, WorkerDies(change)
      PROVE  WhatIsNotShownIsComing'
  <2> DEFINE lost == {m \in unsent : m.change = change}
  <2>1. CASE \E m \in lost : m.group = "user"
    BY <1>5, <2>1 DEF WorkerDies, WhatIsNotShownIsComing, RTTypeOK
  <2>2. CASE ~\E m \in lost : m.group = "user"
    <3>1. (\E m \in unsent : m.group = "user") => (\E m \in unsent' : m.group = "user")
      BY <1>5, <2>2 DEF WorkerDies
    <3>2. UNCHANGED <<status, answers, shown, inbox, asked, watching, doubt>>
      BY <1>5, <2>2 DEF WorkerDies
    <3> QED
      BY <3>1, <3>2 DEF WhatIsNotShownIsComing, News
  <2> QED
    BY <2>1, <2>2
<1>6. ASSUME NEW q \in Pages, Drop(q) PROVE WhatIsNotShownIsComing'
  <2> SUFFICES ASSUME NEW p \in watching' \ doubt' PROVE shown'[p] = status' \/ News(p)'
    BY DEF WhatIsNotShownIsComing
  <2>1. p \in watching \ doubt /\ p \in Pages
    BY <1>6 DEF Drop, RTTypeOK
  <2>2. inbox[p] > 0 => inbox'[p] > 0
    BY <1>6, <2>1 DEF Drop, RTTypeOK
  <2> QED
    BY <1>6, <1>a, <2>1, <2>2 DEF Drop
\* A load either is under way or leaves the page in doubt.
<1>7. ASSUME NEW q \in Pages, Load(q)
      PROVE  /\ \A p \in Pages : asked[p] > 0 => asked'[p] > 0
             /\ asked'[q] > 0 \/ q \in doubt'
             /\ doubt \subseteq doubt'
  BY <1>7 DEF Load, RTTypeOK
<1>8. ASSUME NEW q \in Pages, Handle(q) PROVE WhatIsNotShownIsComing'
  <2> SUFFICES ASSUME NEW p \in watching' \ doubt' PROVE shown'[p] = status' \/ News(p)'
    BY DEF WhatIsNotShownIsComing
  <2>1. p \in watching /\ p \in Pages /\ (Load(q) \/ UNCHANGED <<asked, doubt>>)
    BY <1>8 DEF Handle, RTTypeOK
  <2>2. p \in watching \ doubt
    BY <1>7, <2>1
  <2>3. asked[p] > 0 => asked'[p] > 0
    BY <1>7, <2>1
  <2>4. inbox[p] > 0 => inbox'[p] > 0 \/ asked'[p] > 0
    <3>1. CASE p = q
      <4>1. Load(q)
        BY <1>8, <2>1, <3>1 DEF Handle, Refetches
      <4> QED
        BY <1>7, <3>1, <4>1
    <3>2. CASE p # q
      BY <1>8, <2>1, <3>2 DEF Handle, RTTypeOK
    <3> QED
      BY <3>1, <3>2
  <2> QED
    BY <1>8, <1>a, <2>2, <2>3, <2>4 DEF Handle
<1>9. ASSUME NEW q \in Pages, LoadByHand(q) PROVE WhatIsNotShownIsComing'
  <2> SUFFICES ASSUME NEW p \in watching' \ doubt' PROVE shown'[p] = status' \/ News(p)'
    BY DEF WhatIsNotShownIsComing
  <2>1. p \in watching \cup {q} /\ p \in Pages /\ Load(q)
    BY <1>9 DEF LoadByHand, RTTypeOK
  <2>2. CASE p = q
    BY <1>7, <2>1, <2>2 DEF News
  <2>3. CASE p # q
    <3>1. p \in watching \ doubt /\ (asked[p] > 0 => asked'[p] > 0)
      BY <1>7, <2>1, <2>3
    <3> QED
      BY <1>9, <1>a, <3>1 DEF LoadByHand
  <2> QED
    BY <2>2, <2>3
<1>10. ASSUME NEW q \in Pages, Read(q) PROVE WhatIsNotShownIsComing'
  <2> SUFFICES ASSUME NEW p \in watching' \ doubt' PROVE shown'[p] = status' \/ News(p)'
    BY DEF WhatIsNotShownIsComing
  <2>1. /\ p \in watching \ doubt /\ p \in Pages /\ status \in LoanStatus
        /\ UNCHANGED <<status, unsent, inbox, shown>>
    BY <1>10 DEF Read, RTTypeOK
  <2>2. CASE p = q
    <3>1. answers'[p][status] > 0
      BY <1>10, <2>1, <2>2 DEF Read, RTTypeOK
    <3> QED
      BY <2>1, <3>1 DEF News
  <2>3. CASE p # q
    <3>1. asked'[p] = asked[p] /\ answers'[p] = answers[p]
      BY <1>10, <2>1, <2>3 DEF Read, RTTypeOK
    <3> QED
      BY <2>1, <3>1 DEF WhatIsNotShownIsComing, News
  <2> QED
    BY <2>2, <2>3
<1>11. ASSUME NEW q \in Pages, LoseLoad(q) PROVE WhatIsNotShownIsComing'
  <2> SUFFICES ASSUME NEW p \in watching' \ doubt' PROVE shown'[p] = status' \/ News(p)'
    BY DEF WhatIsNotShownIsComing
  <2>1. p \in watching \ doubt /\ p \in Pages /\ p # q
    BY <1>11 DEF LoseLoad, RTTypeOK
  <2>2. asked'[p] = asked[p]
    BY <1>11, <2>1 DEF LoseLoad, RTTypeOK
  <2> QED
    BY <1>11, <1>a, <2>1, <2>2 DEF LoseLoad
\* An answer that shows the page something else than the loan as it is came late.
<1>12. ASSUME NEW q \in Pages, NEW s \in LoanStatus, Render(q, s) PROVE WhatIsNotShownIsComing'
  <2> SUFFICES ASSUME NEW p \in watching' \ doubt' PROVE shown'[p] = status' \/ News(p)'
    BY DEF WhatIsNotShownIsComing
  <2>1. /\ p \in watching /\ p \in Pages /\ status \in LoanStatus
        /\ UNCHANGED <<status, unsent, inbox, asked>>
    BY <1>12 DEF Render, RTTypeOK
  <2>2. CASE p # q
    <3>1. p \notin doubt /\ shown'[p] = shown[p] /\ answers'[p] = answers[p]
      BY <1>12, <2>1, <2>2 DEF Render, RTTypeOK
    <3> QED
      BY <2>1, <3>1 DEF WhatIsNotShownIsComing, News
  <2>3. CASE p = q /\ s = status
    BY <1>12, <2>1, <2>3 DEF Render, RTTypeOK
  <2>4. CASE p = q /\ s # status
    <3>1. p \notin doubt /\ ~(Rank(s) < Rank(shown[p])) /\ Rank(s) < Rank(status)
      BY <1>12, <2>1, <2>4 DEF Render, AnswersAreFromThePast
    <3>2. shown[p] # status
      BY <3>1
    <3>3. answers'[p][status] = answers[p][status]
      BY <1>12, <2>1, <2>4 DEF Render, RTTypeOK
    <3> QED
      BY <2>1, <3>1, <3>2, <3>3 DEF WhatIsNotShownIsComing, News
  <2> QED
    BY <2>2, <2>3, <2>4
<1>13. ASSUME NEW s \in Decisions, DecideElsewhere(s) PROVE WhatIsNotShownIsComing'
  BY <1>2, <1>13 DEF DecideElsewhere
<1>14. ASSUME NEW p \in Pages, NEW s \in Decisions, Decide(p, s) PROVE WhatIsNotShownIsComing'
  BY <1>2, <1>14 DEF Decide
<1>15. ASSUME NEW p \in Pages,
              \/ Connect(p) \/ Refresh(p) \/ LoseRefresh(p) \/ Refuse(p) \/ Accept(p)
              \/ Subscribe(p)
       PROVE  WhatIsNotShownIsComing'
  BY <1>15, <1>b DEF Connect, Refresh, LoseRefresh, Refuse, Accept, Subscribe
<1>16. CASE Expire \/ ExpireRefresh \/ Login
  BY <1>16, <1>b DEF Expire, ExpireRefresh, Login
<1>17. CASE UNCHANGED rtVars
  BY <1>17, <1>b DEF rtVars
<1> QED
  BY <1>1, <1>3, <1>4, <1>5, <1>6, <1>8, <1>9, <1>10, <1>11, <1>12, <1>13, <1>14, <1>15,
     <1>16, <1>17 DEF RTNext

\* At first there is no loan, and every page shows that.
LEMMA RTInvInit == RTInit => RealtimeInv
<1> SUFFICES ASSUME RTInit PROVE RealtimeInv
  OBVIOUS
<1>1. WhatIsNotShownIsComing
  BY DEF RTInit, WhatIsNotShownIsComing, News
<1>2. AnswersAreFromThePast
  BY DEF RTInit, AnswersAreFromThePast
<1> QED
  BY <1>1, <1>2, RTTypeInit DEF RealtimeInv

\* Every step keeps the invariant.
LEMMA RTInvNext == RealtimeInv /\ [RTNext]_rtVars => RealtimeInv'
BY RTTypeNext, AnswersNext, NewsNext DEF RealtimeInv

\* The invariant holds in every reachable state.
LEMMA RTInvAlways == RTSpec => []RealtimeInv
BY RTInvInit, RTInvNext, PTL DEF RTSpec

(***************************************************************************)
(* The theorems.                                                           *)
(***************************************************************************)

\* Every variable keeps its type: the loan, the websockets of app.js and their groups,
\* and the loads of each page stay well formed.
THEOREM RTTypeCorrect == RTSpec => []RTTypeOK
<1>1. RealtimeInv => RTTypeOK
  BY DEF RealtimeInv
<1> QED
  BY <1>1, RTInvAlways, PTL

\* A page at rest shows the loan as it is, in any crossing of events, refetches and
\* answers, unless for a reason the model names: handleRealtimeMessage refetches for
\* every event, and publish_loan_event tells the group of the user after the commit.
THEOREM QuietCorrect == RTSpec => []QuietMeansCurrent
<1>1. RealtimeInv => QuietMeansCurrent
  <2> SUFFICES ASSUME RealtimeInv, NEW p \in watching \ doubt, Quiet(p)
               PROVE  shown[p] = status
    BY DEF QuietMeansCurrent
  <2>1. p \in Pages /\ status \in LoanStatus
    BY DEF RealtimeInv, RTTypeOK
  <2>2. ~News(p)
    BY <2>1 DEF News, Quiet
  <2> QED
    BY <2>2 DEF RealtimeInv, WhatIsNotShownIsComing
<1> QED
  BY <1>1, RTInvAlways, PTL
=============================================================================
