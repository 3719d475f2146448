# Specifications of the peer lend/borrow platform

TLA+ modules, TLC runs and TLAPS proofs about the Django services under
`src/src/apps`. The services keep money, decisions, memberships and
notifications in PostgreSQL, put idempotency records in Redis and tasks on a
Celery broker, and run in several web and Celery workers at once. A module models
what the code does to that state; every definition that stands for code is listed
with its lines in `PROJECT.json` ("map").

## 1. The system

| Component | State | Operations | Interacts with |
|---|---|---|---|
| Loan service (`loans/services/loan_service.py`) | `Loan` rows | create, accept, reject, cancel | users (borrower resolution), audit, Redis, broker, websocket groups |
| Repayment service (`loans/services/repayment_service.py`) | `Repayment` rows, closes loans | create_repayment, apply_payment (+ settlement), send_overdue_reminders | loans, audit, reconciliation, broker |
| Idempotency (`loan_service.py`, private helpers) | Redis: operation and key to loan and fingerprint, 24 h | look up, store, replay or refuse | loan service |
| Registration (`accounts/services/auth_service.py`) | `User` rows, invited (inactive) or active | register_user | loans invite, registration activates |
| Audit events (`audit/services`) | append-only events | record_state_change | every service |
| Notifications (`notifications/`) | `Notification` rows, tasks on the broker | create, dispatch, mark sent, mark failed | Celery beat each minute, on_commit callbacks, API |
| Family (`family/services/family_service.py`) | `Family`, `FamilyMember`, `FamilyInvitation`, `FamilyLedgerEntry` rows | create, invite, accept, reject, remove, ledger view | broker, loans (ledger view) |
| Gmail ingestion and sync (`payments`, `integrations`) | synced emails, `BankTransaction`, `DiscoveredAccount` rows | list, parse, ingest | Gmail API, discovered accounts, audit |
| Discovered accounts | `DiscoveredAccount` rows | discover, link, dismiss, unlink | ingestion, reconciliation |
| Reconciliation | the match on a `Repayment` row | match a payment with a bank transaction | apply_payment, linked accounts, transactions |
| Gmail accounts (`accounts`, `integrations`) | tokens, the primary flag | connect, refresh, sync | Google over HTTP |
| Websocket consumers | groups per connection | subscribe, unsubscribe, forward | what the services publish |
| Browser client (`common/static/frontend/app.js`) | tokens in localStorage; per page a websocket and what it shows | connect, reconnect, load, decide | the API, the consumers |
| HTTP views, admin, seed data, empty apps | none of their own | validate and call a service | the services |

What is hard here: calls of several workers on the same rows at READ COMMITTED
with row locks taken in different orders; checks made before the lock or without
one; effects outside the database (Redis, the broker) that a rollback does not
undo; retried calls; tasks that are lost with their worker; jobs that must
eventually notice something; events, refetches and their answers that cross on the
way to a page. The `hazards` of `PROJECT.json` list each of these at
its line with the property that covers it, or why none does yet.

What makes each component right:

* loan book: a status tells what was decided and paid, a finished loan is frozen,
  money paid is never lost, the audit trail accounts for every status;
* transactions: what a call decides on is still true when it commits, calls end;
* idempotency: an answer is about the loan that was asked for, one key gives one
  loan, an answered decision was made;
* notices and events: committed changes are told, events tell only what is committed;
* notifications: nothing pending stays pending, keys bound duplicates;
* family: the ledger tells who is in a family, arrivals were invited; the debts it
  shows move only with acceptances and payments;
* Gmail ingestion: a message that is marked was dealt with, duplicates are bounded,
  the supporting counts tell the transactions;
* Gmail accounts: a user's accounts have a primary one, refresh tokens are not lost;
* reconciliation: the best candidate is matched, the match fits the row;
* realtime: a page at rest shows the loan as it is, a websocket comes back while the
  session lasts.

## 2. Modules

| Module | Models | How state and actions correspond |
|---|---|---|
| `AuditTrail` | the events of one audited field | a sequence of `[from, to]`; `Accounts(trail, status)` says that it is an unbroken chain from "none" to the status |
| `LoanBook` | users, loans, repayments, their trails and the calendar, as committed | one action per service call, its whole committed effect; `ApplyPayment` includes the settlement, `MarkOverdue` one run of the morning job |
| `LoanBookProofs` | theorems about `LoanBook` | section 5 |
| `LoanTransactions` | the same calls as transactions of concurrent workers | `book` are the committed rows; each worker has a program counter, the rows as it read them (`loanView`, `repaymentView`) and row locks; one action per statement that locks, reads or commits; `DeadlockAbort` is PostgreSQL's detector. Refines `LoanBook` (`KeepsTheBook`): `Book == INSTANCE LoanBook WITH` maps each of its variables to the committed rows, so a step is a commit of one call or a stutter |
| `LoanTransactionsProofs` | theorems about `LoanTransactions`, the refinement among them | section 5 |
| `FamilyLedger` | the netting of the members' loans in the ledger view | operators over the rows of `LoanBook`, for any set of members; `LoansAmong` is its query, `Owed` adds debts up, `TotalLent`, `TotalBorrowed` and `NetPosition` are the fields of a member. It adds no state, and is checked in the run of `LoanBook` |
| `LoanRequests` | create, accept, reject, cancel with Redis, the broker and the websocket groups | one action per effect, in the order of the code: resolve the key, insert or lock, store the record, queue the task, commit, publish; `Fail` may strike between any two |
| `LoanRequestsProofs` | theorems about `LoanRequests` | section 5 |
| `Notifications` | notification rows, dispatch tasks, workers that die | creation is look-up, insert and commit, callbacks; dispatch reads its batch once and marks row by row, each in a transaction of its own |
| `Family` | families, members, invitations, the membership ledger | a call locks its first row, looks, and commits; the lock a foreign key takes on the family row is part of `Accept` |
| `FamilyProofs` | theorems about `Family` | section 5 |
| `GmailIngestion` | the two sync paths over one mailbox and `ingest_message` | one action per statement: renewal of the token, row of the message, look-up, transaction, account, audit event, processed flag. `own` is what an open transaction has written, which is also what it has locked; a request commits it in `Finish`, which first needs the GmailAccount row for `last_sync_at`, or loses it in `Fail`; the Celery task commits every statement |
| `GmailIngestionProofs` | theorems about `GmailIngestion` | section 5 |
| `GmailAccounts` | connecting Gmail accounts and keeping their tokens, in either app | `app` says which app's code the workers run. A call exchanges its code, takes the row (locked in accounts, merely read in integrations) into `draft`, looks at the primary flags, and saves; `set_primary` is an UPDATE that visits the rows it found one by one |
| `GmailAccountsProofs` | theorems about `GmailAccounts` | section 5 |
| `Reconciliation` | accounts that are linked and unlinked, transactions that arrive, payments that are matched | a status action is a read and a write, with no lock between; a payment is a match under the lock of its repayment and a commit. `BestMatch` is the loop of `match_repayment_transaction` as a fold over the candidates, with `Latest` for the order of the query |
| `Realtime` | the way from a commit to an open page | `unsent` are the group sends still to be made, `inbox` the events delivered, `asked` and `answers` the loads under way, `shown` what the page shows. Of the five lists a lists page loads one after the other, `Read` is the request for the lent or borrowed loans, which has the loan in every status. `access` and `refresh` are the tokens that pages share; `doubt` collects the pages that may be out of date, each addition naming its reason |
| `DeliveryProofs` | theorems about `Notifications` and `Realtime` | section 5 |
| `LedgerProofs` | theorems about `FamilyLedger` and `Reconciliation` | section 5 |

`MC<Module>` gives each module a small instance. Definitions whose comment begins
with "Faulty" are not part of a model: each is a plausible bug that the matching
property must reject, listed under "mutants" in `PROJECT.json`. `Reconciliation` and
`Realtime` name their specifications and type invariants with a prefix (`RCSpec`,
`RCTypeOK`, `RTSpec`, `RTTypeOK`), since each shares a module of proofs with another
state machine.

Abstractions that all modules share: amounts are small naturals; names, texts,
metadata and currencies are left out; a refused call is a stuttering step unless
it holds locks. `timezone.localdate()` is `today`, in days. Primary keys are model
values or numbers handed out in order.

Places where the model follows the code against first impressions:

* `_queue_notification_on_commit` calls `delay()` at once, inside the transaction
  (`loan_service.py:342`), so `Enqueue` comes before `Commit`.
* `select_for_update().select_related("loan")` locks the repayment and then the loan
  (`repayment_service.py:134-139`).
* An invited borrower who registers keeps his `pending_invite` loans, and `Pending`
  holds both statuses; payments are not refused on loans nobody accepted.
* The FamilyMember insert of `accept_invitation` needs FOR KEY SHARE on the family
  row and so waits for `create_invitation`, which holds it FOR UPDATE. Only this
  keeps a member from being invited again (`MembersAreNotInvited`).
* Celery acknowledges tasks before it runs them: a task dies with its worker.
* The two Gmail paths keep separate tables of messages and share only
  `bank_transactions` and `discovered_accounts`; no constraint makes a message's
  transaction unique, so each path excludes itself by its rows and nothing excludes
  the other path. Nothing in the repository sends the Celery task of the second
  path; it is modelled because it is registered and callable.
* `ignored_count >= 0` always holds (`gmail_sync.py:73`), so a message is processed
  whatever came of it, unless the ingestion raises.
* A retry of a task that died between transaction and discovery takes the message
  for a duplicate, so `SupportTellsTransactions` allows one uncounted transaction
  per death.
* `ensure_access_token` saves the GmailAccount row when the token has run out
  (`gmail_oauth.py:116`), and within a request the row stays locked. A sync that has
  renewed the token and waits for the row of a message, while the one that holds it
  wants to save `last_sync_at` (`gmail_sync.py:78`), is in a deadlock, so
  `OnlyAccountsDeadlock` names this case beside that of the bank accounts.
* No code assigns the family role admin, so only owners manage members.
* A dedupe key outlives what it tells of. `remove_member` queues its task with one key
  for every removal of a user from a family (`family_service.py:275`), so a second
  removal is usually not notified, although EXPLAIN.md:604 lists member changes. The
  task may be lost, and may race another one on the look-up of the key: `Notifications`
  models what workers make of a repeated key, and `Family` has no notices.
* A notification task that was queued in a transaction that is rolled back stays on
  the broker (`loan_service.py:342`), although EXPLAIN.md:268 says "queued on commit";
  `ChangesAreTold` states the direction that holds.
* EXPLAIN.md:1119-1124 draws a state machine with an arrow from pending_invite to
  pending_review. The code has no such step: an invited borrower who has registered
  decides the loan where it stands, a request nobody accepted can be paid and closed,
  and an invited request cannot be cancelled.
* The family ledger leaves out pending, rejected and cancelled loans and derives the
  debt from the principal, not from the status: a closed loan whose installments do
  not cover the principal stays a debt, and a request that is closed by payments
  without having been accepted becomes one (`FamilyLedger!DebtMoves`).
* The page refetches after an event but not after a reconnect (`app.js:233-240`;
  EXPLAIN.md:881 has "UI rest refresh on reconnect"), settlement publishes no loan
  event (`repayment_service.py:226-247`), and `api()` does not renew the access token
  (`app.js:108`). These are three of the reasons in `doubt`.
* `RefreshTokenSerializer` only derives an access token (`accounts/api/serializers.py:101`);
  refresh tokens are neither rotated nor blacklisted by it, so pages that refresh at
  the same time do not invalidate each other. For the same reason the refresh token
  runs out seven days after the login (`base.py:155`), whatever the pages do: they then
  try every two seconds with the expired access token, until the user logs in again.
  `SocketComesBack` promises a websocket only up to there.
* The client waits two seconds before it reconnects (`app.js:272`), whatever backoff
  `connection_ack` announces.
* An audit event of a discovered account starts from the status that was read, and
  is left out when that is the new status already (`discovered_account_service.py:107`).
  With a call in between, the trail then misses a step, so `MatchesTellTheRow` claims
  only that some event tells of the account being linked.
* A score is at least 8 with the reference and at most 3 without, so the confidence
  medium, which the code and the model both have, is never given (`MatchesAreBest`).

## 3. Runs

| Run | Question | Bounds, and why they are enough |
|---|---|---|
| `LoanBook` | do status, payment, settlement, trails, freezing and the debts of the family ledger hold together; is an overdue repayment noticed | 2 people, 2 loans with principals of 2 and 3 (covered by one installment, by two, or by neither), 2 repayments, 2 installments, amounts 1 and 2, 2 days: partial and full payments, two loans that must not interfere, one day for a date to pass |
| `LoanTransactions` | is every concurrent commit one step of `LoanBook` on current rows | 3 workers, so that a circle of waits may have three; one loan with two repayments, since rows of different loans share no lock but in the overdue job; every kind of call |
| `LoanCallsEnd` | does every call end | 2 workers, payments in full, which keeps the liveness graph small and still closes circles of waits |
| `LoanRequests` | do answers, decisions, events and notification tasks fit what was asked and committed | 2 workers, one key for all calls, the same and other terms, one loan, records that expire at any time |
| `OneLoanPerKey`, `AnsweredMeansDecided` | what SECURITY.md promises of idempotency keys (refuted) | as above; two loans for the first |
| `Notifications` | do trails account for statuses, are duplicates bounded, is what is pending sent | 2 workers, 3 rows (one more than the workers can race to insert), one waiting task, one death, a batch of 2, 2 minutes so that one notification is scheduled ahead |
| `Family` | ledger, invitations and membership | 2 users, 2 workers, 3 families (one more than the workers can race to create), 4 invitations: join, leave, join again, with one in the race |
| `GmailIngestion` | is what is marked dealt with, are duplicates and counts bounded, over what can syncs deadlock | 2 workers (symmetric) with every pair of paths, 4 messages: two payments of one account, one that is no payment and one whose amount cannot be read; three overlapping listings; one death of a task, after which a retry races the other worker |
| `GmailAccounts` | who is primary, which refresh token survives, under calls that race | 2 users, 3 addresses, 2 workers, 2 refresh tokens (an older and a newer one), both apps |
| `Reconciliation` | is the best candidate matched, does the row fit its match | 2 accounts, 4 transactions (two of one day of which one has the reference, one close by on the other account, one credit), one repayment of 2 paid in one or two parts on 3 days, with and without the reference, on one of which a transaction without the reference is closer than the one with it; 3 and 2 audit events per account, so that one can be linked, unlinked and raced |
| `Realtime` | does a page at rest show the loan as it is, does the websocket come back while the session lasts | one page of either kind, since pages of one user share nothing but the access token; 2 faults, so that one may hit the recovery from another; 2 loads under way when the user asks for one |

Bounds that are no part of the system: `LastDay`, `LastMinute`, `MaxRows`,
`MaxTasks`, `MaxCrashes`, `MaxFamilies`, `MaxInvitations`, `MaxTokens`, `MaxEvents`, `MaxFaults`,
`MaxLoads` and the finite sets of keys, days and references. Runs whose actors may simply stop calling, or run out of primary keys, turn
the deadlock check off.

### Fairness

* `LoanBook!FairSpec`: the calendar and the daily job (`CELERY_BEAT_SCHEDULE`) go on,
  and a run of the job finds each row committed before it. No API call is fair.
* `LoanTransactions!FairSpec`: a running worker takes its next step (weak); a lock that
  is free again and again is granted (strong, PostgreSQL's lock queues are first
  come first served); the deadlock detector runs (weak). No call has to be made,
  and workers may fail at any time.
* `Notifications!FairSpec`: clock and beat go on, workers take their next step, a waiting
  task is delivered to a worker that is idle again and again, and row locks are
  granted (strong). Workers die finitely often (`MaxCrashes`).
* `Realtime!RTFairSpec`: timers run out, handshakes, requests and group sends are served,
  and a page handles what it received (weak: each stays possible until it is done).
  A refresh of the token ends, either way. Nothing is asked of users, who need not log in
  again, and faults (broken websockets, lost answers, dead workers, tokens that run out,
  the refresh token among them) are finitely many.

### What the refuted runs show

Each is quoted under "findings" with its document. In short: two concurrent creations
with one idempotency key create two loans; after a rollback a repeated accept is
answered with success although nothing was accepted. Two claims of SECURITY.md hold only up
to a bound, which passing runs check: a dedupe key has as many notifications, and a
message as many transactions, as workers can race between look-up and insert
(`DuplicatesAreBounded` of `Notifications` and `GmailIngestion`).

## 4. Assumptions about the environment

PostgreSQL at READ COMMITTED: a statement sees what is committed when it starts, a
FOR UPDATE query that waited re-reads the row, row locks last to the end of the
transaction, a circle of waits is broken by rolling one transaction back, unique
indexes make the second inserter wait. Every request is one transaction
(`ATOMIC_REQUESTS`). Redis and the broker are not transactional. These are the
"external" entries of the map.

## 5. Proofs

`LoanBookProofs` proves for every set of users, loans, repayments and installments,
every set of positive amounts and every calendar:

| Theorem | States |
|---|---|
| `TypeCorrect` | `TypeOK` |
| `ReferencesCorrect` | `RowsReferToRows` |
| `PaymentsCorrect` | `StatusTellsPayment` |
| `InstallmentsUnique` | `OneRowPerInstallment` |
| `SettlementCorrect` | `ClosedIffSettled` |
| `FinishedFrozen` | the action property `FinishedLoansAreFrozen` |
| `TrailsCorrect` | `TrailsAccountForStatus` |
| `MoneyKept` | the action property `PaymentsAreKept` |

They rest on `AmountsAssumption` and `LastDayAssumption`. The inductive invariant is
built in layers. Types and references are inductive together: that a repayment's
loan exists is needed to know that a payment reads a row of the right type.
`StatusTellsPayment` is inductive on top of them: the guard of a payment bounds it by
what remains. `ClosedIffSettled` is stated for the induction as
`ClosedIffSettledAlt`, without the set of a loan's repayments; it needs that a closed
loan gets no installment (the guard of `CreateRepayment`) and that a paid repayment
takes no payment. Freezing follows from these: `apply_payment` does not refuse a
closed loan, and only because all repayments of a closed loan are paid, and a paid
one is refused, does nothing change. Each invariant is a lemma that a step preserves
it, with a step per action, and a theorem that combines it with PTL.

`LoanTransactionsProofs` proves for any set of workers and of calls as well:

| Theorem | States |
|---|---|
| `TypeCorrect` | `TypeOK` |
| `CurrentRows` | `DecidesOnCurrentRows` |
| `DeadlocksNeedInstallmentsOrSweeps` | `OnlyInstallmentsAndSweepsDeadlock` |
| `Refinement` | `KeepsTheBook`: `Spec` implements `LoanBook` |
| `CommittedRowsAreRight` | every invariant of `LoanBookProofs`, of the committed rows |
| `CommittedRowsAreKept` | its two action properties, of the committed rows |

They rest on `AmountsAssumption`, `LastDayAssumption`, `RequestsAssumption` (the calls
are of the known kinds) and `NoneAssumption` (None is no worker, row or call). What is
invariant is not `DecidesOnCurrentRows` itself, which speaks of the moment of a commit,
but `TransactionInv`, which says at each step of a call what it may rely on:
`ViewsHold`, a row that a worker has read it has locked, and nobody has changed it
since; `LoanCall`, `PayCall` and `SweepCall`, what each kind of call has read and found
by the time it gets to a step; and `LockOrder`, which locks it may hold while it waits.
The case that needs thought is what is read without a lock: the other repayments of a
loan (`check`) and the installment that may be taken (`lookup`). Both are read under
the lock of the loan, and everything that could change them, another payment of the
loan or another installment, commits under that lock too. The steps of other workers are treated once, in a frame
lemma: a step leaves alone the rows that a worker has locked (`RowsKept`), and so what
it relies on (`RestingWorker`). With the invariant, each commit is the one step of
`LoanBook` that the call is for, every other step a stutter. What `LoanBookProofs` proves
of `LoanBook` then holds of the committed rows under any interleaving, which is a
theorem too: `Theory` is the instance of `LoanBookProofs` under the same mapping, its
specification is shown to be that of `Book`, and its theorems are cited. Deadlocks follow
from `LockOrder`: of two calls that are neither installments nor sweeps, one that waits for a loan
holds at most its repayment, and one that waits for a repayment holds nothing.

`FamilyProofs` proves for any users, any finite set of workers and any numbers of
families and invitations:

| Theorem | States |
|---|---|
| `TypeCorrect` | `TypeOK` |
| `NobodyInvitedTwice` | `MembersAreNotInvited` |
| `LedgerCorrect` | `LedgerTellsMembers` |
| `ArrivalsCorrect` | `ArrivalsWereInvited` |
| `OwnersBounded` | `OwnedFamiliesAreBounded` |

They rest on `BoundsAssumption` and `NamesAssumption`, and the last one on
`WorkersAssumption`. `FamilyInv` is the inductive invariant: what a worker between two
steps has locked and read still holds (`HeldRowsAreStable`), rows are of families that
exist (`RowsOfFamilies`), and a user has at most one pending invitation to a family
(`OnePendingInvitation`). The last is what makes `MembersAreNotInvited` inductive: when
an invitation is accepted it was the only pending one, and none can be under way,
because `invite` holds the family row that the foreign key waits for. For
`ArrivalsWereInvited` an acceptance adds one element to both sides of the equation, and
each other action changes neither. For `OwnedFamiliesAreBounded` the proof counts the
families a user owns together with the workers that have looked and are about to
insert for him (`OwnedAndComingAreBounded`): a worker that looks counts itself only when
there is no family yet.

`LoanRequestsProofs` proves for any workers, keys, loans, terms and calls:

| Theorem | States |
|---|---|
| `TypeCorrect` | `TypeOK` |
| `AnswersCorrect` | `AnswersFitCalls` |
| `OneDecisionStands` | the action property `OneDecision` |
| `ChangesTold` | the action property `ChangesAreTold` |

They rest on `CallsAssumption`, `MayExpireAssumption` and `NoneAssumption` (None is no
worker). Records in Redis survive a rollback, so a record may name a loan that does not
exist, and the invariant has to say so: `RecordsFit` fits a record to the loan it names
only where there is one, and `RowsHaveIssuedKeys` keeps a key that was handed out and
rolled back from being handed out again. With the two, a record never comes to fit
another loan. `WorkersInv` is what a call may rely on at each of its steps: the loan it
inserts is in nobody else's hands (`CreatesAlone`), the row it decides is locked and still
undecided (`DecidesAlone`), what it publishes is committed, and its task is queued before
it commits (`ToldBeforeCommit`), which is where `ChangesAreTold` comes from.

`DeliveryProofs` proves of `Notifications`, for any workers (finitely many for the last),
any number of rows and tasks, and any clock:

| Theorem | States |
|---|---|
| `TypeCorrect` | `TypeOK` |
| `TrailsCorrect` | `TrailsAccountForStatus` |
| `DuplicatesBounded` | `DuplicatesAreBounded` |

They rest on `BoundsAssumption`, `ClockAssumption`, `AskedAssumption`, `NamesAssumption`
and, for the last, `WorkersAssumption`. `WorkersRely` holds what keeps the trails unbroken:
the status from which a worker's event will start is that of the row, because it holds
the lock of the row. Duplicates are bounded as the owned families are: the rows of a key
are counted together with the creations that have looked in vain and are still to insert
(`RowsAndComingAreBounded`). The sum is at most the number of workers because a creation
that looks while there is a row is not one of them.

`GmailIngestionProofs` proves for any messages and listings and any number of deaths, and
for finitely many workers where it counts:

| Theorem | States |
|---|---|
| `TypeCorrect` | `TypeOK` |
| `MarkedCorrect` | `MarkedMeansIngested` |
| `DeadlocksCorrect` | `OnlyAccountsDeadlock` |
| `DuplicatesBounded` | `DuplicatesAreBounded` |
| `SupportCorrect` | `SupportTellsTransactions` |

The assumptions are those on `Emails`, kinds, accounts, listings, deaths and names, and
`WorkersAssumption`. `IngestionInv` says of each worker what it has written and not
committed (`OwnsWhatItWrote`), which message it handles, that it takes messages in the
order of their listing (`TakesInOrder`) and that a mark follows what it deals with
(`MarksWhatItDealtWith`). `MarkedMeansIngested` must survive a rollback: what one worker
saw as dealt with is committed or its own, so a worker that fails takes its mark away
together with its transaction. Deadlocks follow from the order: the rows of messages are locked in
one order by all, so it takes something else to close a circle, and there are two such
things. One is a bank account. The other is the GmailAccount row of the integrations
app: a sync that still has to renew the token has written nothing (`RenewalIsAlone`), so
whoever waits for that row and holds another one is at its end. `SupportTellsTransactions` is not
inductive as stated, since transaction and count are separate commits of the Celery
task; `CountsAreBetween` bounds the count of an account from below and from above by
what is made and what is made but still to be counted, death by death.

`DeliveryProofs` proves of `Realtime`, for any decisions and any bounds on faults and loads:

| Theorem | States |
|---|---|
| `RTTypeCorrect` | `RTTypeOK` |
| `QuietCorrect` | `QuietMeansCurrent` |

They rest on `DecisionsAssumption` and `FaultsAssumption`. That a page at rest is current
follows from a statement about pages that are not at rest: whatever a page does not
show is on its way to it, as a group send, an event, a load or an answer, or one of
the reasons in `doubt` stands (`WhatIsNotShownIsComing`). For a load that answers it
needs that an answer is from the past (`AnswersAreFromThePast`).

`GmailAccountsProofs` proves for any users, addresses and tokens and any finite,
non-empty set of workers:

| Theorem | States |
|---|---|
| `TypeCorrect` | `TypeOK` |
| `PrimariesCorrect` | `PrimariesAreBounded` |
| `RegressesCorrect` | `OnlyOverlapsRegress` |

They rest on `MaxTokensAssumption`, `NoneAssumption`, `WorkersAssumption` and
`CallsAssumption` (None is no call). Nothing but convention keeps an account primary: a
call looks for a primary one and saves its own flag later, and `set_primary` visits one
row after the other. The bound is proved by an assignment: each primary account of a
user is laid to a worker of its own, an injection (`PrimariesAreLaid`), and a worker that
makes an account primary first unmarks the one that is laid to it. A step of the
induction gives the injection after the step. That a user who has accounts has a primary
one (`UsersHavePrimaries`) is inductive beside it. `RegressesCorrect` rests on tokens being
issued in order (`TokensAreIssued`) and on what a call holds in its draft (`HasTokens`).
`OtherWorks` is the frame: what a worker relies on is left alone by a step elsewhere.

`LedgerProofs` proves what the services compute by going over rows. Of `Reconciliation`,
for any accounts, transactions, repayments, references and workers:

| Theorem | States |
|---|---|
| `RCTypeCorrect` | `RCTypeOK` |
| `MatchesCorrect` | `MatchesAreBest` |
| `RowsCorrect` | `MatchesTellTheRow` |

and of `FamilyLedger` over `LoanBook`, for any users, loans, repayments and principals:

| Theorem | States |
|---|---|
| `PositionsCorrect` | the action property `PositionsFollowPayments` |

The first three rest on `TransactionsAssumption` (transactions are numbered in the order of
their dates), `AttributesAssumption`, `PaymentsAssumption` and `NoneAssumption`; the last on
`PrincipalAssumption`, `AmountsAssumption` and `LastDayAssumption`. That the candidates, the
loans and the repayments a loop goes over are finitely many is assumed nowhere: rows are
added one at a time, so it is part of the invariants (`IsFiniteSet(arrived)`,
`RowsAreFinite`).

A loop is a fold over a finite set, and what a fold computes needs an induction. The
induction theorems of the library take a predicate as a parameter, which the provers cannot
instantiate, so the module has an induction with a set in its place: the inclusion of
finite sets is well-founded (`FS_StrictSubsetOrderingWellFounded`), so among the subsets of
a finite set that lack a property one is minimal (`MinimalSubset`), and taking an element
out of that one gives a contradiction. From it follow induction over the numbers
(`Induction`), that there is a function that folds (`FoldExists`: without it the CHOOSE
behind a fold says nothing), that a sum does not depend on the order it is taken in
(`AnyOrderSums`), and that a sum in which one term changes moves by that change, although
the set it is taken over may change as well (`SumMoves`).

For the match, `BestMatchIsBest` shows by such an induction that the loop ends with a
candidate that no other beats and no earlier one equals; `ScoreLevels` turns scores into
what they mean, that a reference outweighs the days and that medium is never given.
`ReconciliationInv` has beside the types what a worker between its two steps relies on: a
status action has read a status that is on record (`ActsOnAccount`), a payment has its
repayment to itself and its result fits it (`PaysAlone`). That the account of a match was
linked by some recorded event cannot be had from the account's status, which other calls
overwrite; it follows from `LinkedIsOnRecord`, that an account which is linked now has
such an event. Writing "linked" without an event is possible only for a call that has read
"linked", and so was on record then, and events are never taken away.

For the ledger, `DebtsStep` shows that a step changes the debt of at most one loan and in
which of the ways `DebtMoves` allows. It needs `RowsReferToRows` and `ClosedIffSettled`: a
closed loan takes no payment, as all its repayments are paid, so its debt stays. `PositionsStep`
then carries the change into the sums: the loans on each side of a member's position stay
the same but for that loan (`OwedMoves`), and as lender and borrower differ, the position
moves by the share of one of the two. `PositionsCorrect` speaks of `LoanBook`; as
`LoanTransactions` refines `LoanBook`, it is true of what concurrent workers commit as
well, which is not stated as a theorem of its own.

The inductive invariants were model-checked on small instances before they were proved.
The assumptions on workers, that they are finitely many and that None is none
of them, are true of every deployment.

With that, every invariant and every action property of a passing run is a theorem.
Only model-checked:

* the liveness properties `OverdueIsNoticed`, `CallsEnd`, `PendingIsSent` and
  `SocketComesBack`: fairness and ENABLED are out of the prover's reach;
* the two refuted properties, for which TLC shows the counterexample.

## 6. Plan

1. An abstract specification of ingestion, a message becomes at most one
   transaction, which one path by itself implements, and the proof that it does.
2. The notifications of repayments, composed with the overdue job; that calls on
   families end, as `LoanCallsEnd` shows for loans.

## 7. Not modelled

HTTP exchanges with Google, encryption of tokens and the signed OAuth state; MIME
decoding and the regular expressions of the parsers (pure functions of text, whose
outcome the models take from the kind of a message); views and their permissions,
whose calls are the actions of the modules; admin forms; passwords, logout and the
blacklist of refresh tokens (a login and the end of a refresh token are modelled as far
as `Realtime` needs them, and nobody logs out while a page is open); the pages of the client other than those of loans, and
notification events on the websocket; `unsubscribe_loan` and `ping`, which no client
sends; the bulk insert of transactions, which nothing calls; sums for summary views;
seed data and the empty apps.
