--------------------------- MODULE GmailAccounts ----------------------------
(***************************************************************************)
(* The Gmail accounts a user connects, and the tokens kept for them.  Two  *)
(* apps keep such rows in tables of their own and by different means: the  *)
(* accounts app locks the row it works on and marks one account of a user  *)
(* as primary, the integrations app reads rows without a lock and saves    *)
(* them whole.  A behaviour is of one app.                                 *)
(***************************************************************************)
EXTENDS Integers, FiniteSets

CONSTANTS
    Users,
    Addresses,  \* Gmail addresses
    Workers,    \* web and Celery workers
    None,       \* nobody, nothing
    MaxTokens   \* bound on the refresh tokens Google issues

ASSUME MaxTokensAssumption == MaxTokens \in Nat
ASSUME NoneAssumption == None \notin Users \cup Workers
ASSUME WorkersAssumption == IsFiniteSet(Workers) /\ Workers # {}

VARIABLES
    app,     \* "accounts" or "integrations"
    rows,    \* per address: its GmailAccount row, or NoRow
    issued,  \* how many refresh tokens Google has issued; the last has this number
    lock,    \* per address: the worker that holds the row or inserts it, or None
    pc,      \* per worker: what it does next
    call,    \* per worker: the call it serves, or None
    got,     \* per worker: the refresh token its code was exchanged for, 0 if none
    draft,   \* per worker: the row in memory
    todo,    \* per worker: the other primary rows its UPDATE has still to visit
    cleared  \* per worker: those it has unmarked

vars == <<app, rows, issued, lock, pc, call, got, draft, todo, cleared>>
-----------------------------------------------------------------------------
NoRow == [user |-> None, primary |-> FALSE, token |-> 0, expired |-> FALSE]

\* token is the refresh token, 0 if there is none; expired is about the access token.
Rows == [user : Users, primary : BOOLEAN, token : 0 .. MaxTokens, expired : BOOLEAN]

Connects == [op : {"connect"}, user : Users, address : Addresses, primary : BOOLEAN]
Renewals == [op : {"refresh", "sync"}, user : Users, address : Addresses]
Calls == Connects \cup Renewals

ASSUME CallsAssumption == None \notin Calls

Steps == {"idle", "exchange", "lock", "read", "primary", "clear", "save"}

Primaries(u) == {a \in Addresses : rows[a].user = u /\ rows[a].primary}

Address(w) == call[w].address

\* Faulty: rows are taken without a lock.
FreeUnguarded(w, a) == TRUE

Free(w, a) == lock[a] \in {None, w}

Init ==
    /\ app \in {"accounts", "integrations"}
    /\ rows = [a \in Addresses |-> NoRow]
    /\ issued = 0
    /\ lock = [a \in Addresses |-> None]
    /\ pc = [w \in Workers |-> "idle"]
    /\ call = [w \in Workers |-> None]
    /\ got = [w \in Workers |-> 0]
    /\ draft = [w \in Workers |-> NoRow]
    /\ todo = [w \in Workers |-> {}]
    /\ cleared = [w \in Workers |-> {}]

Goto(w, step) == pc' = [pc EXCEPT ![w] = step]

\* The transaction of w ends, and its locks with it.
Leave(w) ==
    /\ Goto(w, "idle")
    /\ call' = [call EXCEPT ![w] = None]
    /\ got' = [got EXCEPT ![w] = 0]
    /\ draft' = [draft EXCEPT ![w] = NoRow]
    /\ todo' = [todo EXCEPT ![w] = {}]
    /\ cleared' = [cleared EXCEPT ![w] = {}]
    /\ lock' = [a \in Addresses |-> IF lock[a] = w THEN None ELSE lock[a]]
-----------------------------------------------------------------------------
\* A user registers and names a Gmail address, which becomes primary; he has no
\* other row, and there are no tokens yet.
Register(u, a) ==
    /\ app = "accounts"
    /\ \A b \in Addresses : rows[b].user # u
    /\ \A w \in Workers : call[w] # None => call[w].user # u
    /\ rows[a] = NoRow
    /\ lock[a] = None
    /\ rows' = [rows EXCEPT ![a] = [NoRow EXCEPT !.user = u, !.primary = TRUE]]
    /\ UNCHANGED <<app, issued, lock, pc, call, got, draft, todo, cleared>>

\* The access token of a connected account runs out.
Expire(a) ==
    /\ rows[a].token # 0
    /\ rows' = [rows EXCEPT ![a].expired = TRUE]
    /\ UNCHANGED <<app, issued, lock, pc, call, got, draft, todo, cleared>>

\* The integrations app has no call that only refreshes, and no primary account.
Start(w, c) ==
    /\ pc[w] = "idle"
    /\ app = "integrations" => c.op # "refresh" /\ (c.op = "connect" => ~c.primary)
    /\ call' = [call EXCEPT ![w] = c]
    /\ Goto(w, IF c.op = "connect" THEN "exchange"
               ELSE IF app = "accounts" THEN "lock" ELSE "read")
    /\ UNCHANGED <<app, rows, issued, lock, got, draft, todo, cleared>>

\* Google issues a refresh token, or none.
Issue(n) ==
    \/ n = 0 /\ UNCHANGED issued
    \/ issued < MaxTokens /\ n = issued + 1 /\ issued' = n

\* The authorization code is exchanged, before the row is looked at.  The
\* integrations app asks for consent each time and so always gets a refresh token.
Exchange(w) ==
    /\ pc[w] = "exchange"
    /\ \E n \in 0 .. MaxTokens :
        /\ Issue(n)
        /\ app = "integrations" => n # 0
        /\ got' = [got EXCEPT ![w] = n]
    /\ Goto(w, IF app = "accounts" THEN "lock" ELSE "read")
    /\ UNCHANGED <<app, rows, lock, call, draft, todo, cleared>>

\* The row of a call once it is there: a connect may insert it, the other calls
\* need one of the user's own with a refresh token.
Found(w) ==
    LET row == rows[Address(w)]
    IN  IF call[w].op = "connect"
        THEN row.user \in {None, call[w].user}
        ELSE row.user = call[w].user /\ row.token # 0

\* Faulty: a row that is inserted gets no user.
TakeUnowned(w) == draft' = [draft EXCEPT ![w] = rows[Address(w)]]

\* The row comes into memory, or a new one is made for the user.
Take(w) == draft' = [draft EXCEPT ![w] = [rows[Address(w)] EXCEPT !.user = call[w].user]]

\* The accounts app locks the row, or holds its place in the unique index.
Lock(w) ==
    /\ pc[w] = "lock"
    /\ Free(w, Address(w))
    /\ Found(w)
    /\ lock' = [lock EXCEPT ![Address(w)] = w]
    /\ Take(w)
    /\ Goto(w, IF call[w].op = "connect" THEN "primary" ELSE "save")
    /\ UNCHANGED <<app, rows, issued, call, got, todo, cleared>>

\* The integrations app reads the row without a lock; only an insert holds one.
Read(w) ==
    /\ pc[w] = "read"
    /\ Found(w)
    /\ IF rows[Address(w)] = NoRow
       THEN Free(w, Address(w)) /\ lock' = [lock EXCEPT ![Address(w)] = w]
       ELSE UNCHANGED lock
    /\ Take(w)
    /\ Goto(w, "save")
    /\ UNCHANGED <<app, rows, issued, call, got, todo, cleared>>
-----------------------------------------------------------------------------
\* set_primary: the UPDATE that unmarks the other primary rows starts, over the
\* rows that are committed now.
StartClear(w) ==
    /\ pc[w] = "primary"
    /\ call[w].primary
    /\ todo' = [todo EXCEPT ![w] = Primaries(call[w].user) \ {Address(w)}]
    /\ draft' = [draft EXCEPT ![w].primary = TRUE]
    /\ Goto(w, "clear")
    /\ UNCHANGED <<app, rows, issued, lock, call, got, cleared>>

\* It waits for each row and looks at it again.
Clear(w, a) ==
    /\ pc[w] = "clear"
    /\ a \in todo[w]
    /\ Free(w, a)
    /\ todo' = [todo EXCEPT ![w] = @ \ {a}]
    /\ IF rows[a].primary
       THEN /\ lock' = [lock EXCEPT ![a] = w]
            /\ cleared' = [cleared EXCEPT ![w] = @ \cup {a}]
       ELSE UNCHANGED <<lock, cleared>>
    /\ UNCHANGED <<app, rows, issued, pc, call, got, draft>>

Cleared(w) ==
    /\ pc[w] = "clear"
    /\ todo[w] = {}
    /\ Goto(w, "save")
    /\ UNCHANGED <<app, rows, issued, lock, call, got, draft, todo, cleared>>

\* Faulty: only who asks for it gets a primary account.
LeadsIfAsked(w) == FALSE

\* Without set_primary the account becomes primary when no other one is.
Leads(w) == Primaries(call[w].user) \subseteq {Address(w)}

LookForPrimary(w) ==
    /\ pc[w] = "primary"
    /\ ~call[w].primary
    /\ draft' = [draft EXCEPT ![w].primary = @ \/ Leads(w)]
    /\ Goto(w, "save")
    /\ UNCHANGED <<app, rows, issued, lock, call, got, todo, cleared>>

\* Faulty: an answer without a refresh token empties it.
KeptTokenAsAnswered(w, new) == new

\* The refresh token that is saved: the new one, or the one the row had.
KeptToken(w, new) == IF new = 0 THEN draft[w].token ELSE new

\* The row is written and the transaction commits.
Store(w, row) ==
    /\ Free(w, Address(w))
    /\ rows' = [a \in Addresses |->
            IF a = Address(w) THEN row
            ELSE IF a \in cleared[w] THEN [rows[a] EXCEPT !.primary = FALSE]
            ELSE rows[a]]
    /\ Leave(w)

\* connect_gmail, connect_from_callback: the last save.
SaveConnected(w) ==
    /\ pc[w] = "save"
    /\ call[w].op = "connect"
    /\ Store(w, [draft[w] EXCEPT !.token = KeptToken(w, got[w]), !.expired = FALSE])
    /\ UNCHANGED <<app, issued>>

\* refresh_token, and a sync that finds the access token expired: Google is asked
\* with the refresh token in memory and may rotate it.
SaveRenewed(w) ==
    /\ pc[w] = "save"
    /\ call[w].op = "refresh" \/ (call[w].op = "sync" /\ draft[w].expired)
    /\ \E n \in 0 .. MaxTokens :
        /\ Issue(n)
        /\ Store(w, [rows[Address(w)] EXCEPT !.token = KeptToken(w, n), !.expired = FALSE])
    /\ UNCHANGED app

\* A sync whose access token is good leaves the tokens alone.
SyncAsIs(w) ==
    /\ pc[w] = "save"
    /\ call[w].op = "sync"
    /\ ~draft[w].expired
    /\ Leave(w)
    /\ UNCHANGED <<app, rows, issued>>

\* The call is refused, Google does not answer, the worker dies, or the database
\* rolls it back: a code that was exchanged is lost.
Rollback(w) ==
    /\ pc[w] # "idle"
    /\ Leave(w)
    /\ UNCHANGED <<app, rows, issued>>

Next ==
    \/ \E u \in Users, a \in Addresses : Register(u, a)
    \/ \E a \in Addresses : Expire(a)
    \/ \E w \in Workers :
        \/ \E c \in Calls : Start(w, c)
        \/ Exchange(w) \/ Lock(w) \/ Read(w)
        \/ StartClear(w) \/ (\E a \in Addresses : Clear(w, a)) \/ Cleared(w)
        \/ LookForPrimary(w)
        \/ SaveConnected(w) \/ SaveRenewed(w) \/ SyncAsIs(w) \/ Rollback(w)

Spec == Init /\ [][Next]_vars
-----------------------------------------------------------------------------
TypeOK ==
    /\ app \in {"accounts", "integrations"}
    /\ rows \in [Addresses -> Rows \cup {NoRow}]
    /\ issued \in 0 .. MaxTokens
    /\ lock \in [Addresses -> Workers \cup {None}]
    /\ pc \in [Workers -> Steps]
    /\ call \in [Workers -> Calls \cup {None}]
    /\ got \in [Workers -> 0 .. MaxTokens]
    /\ draft \in [Workers -> Rows \cup {NoRow}]
    /\ todo \in [Workers -> SUBSET Addresses]
    /\ cleared \in [Workers -> SUBSET Addresses]

\* In the accounts app whoever has Gmail accounts has a primary one, and at most as
\* many as calls can race: the look for another primary row takes no lock, and
\* the UPDATE that unmarks them does not see rows that are being made primary.
PrimariesAreBounded ==
    app = "accounts" =>
        \A u \in Users : (\E a \in Addresses : rows[a].user = u) =>
            Cardinality(Primaries(u)) \in 1 .. Cardinality(Workers)

\* A stored refresh token gives way to an older one only when calls overlap: to the
\* token of a connect whose code was exchanged before the newer one was issued, in
\* either app, and in the integrations app also to that of a call whose row in
\* memory is out of date.  No call ever leaves a row without its token.
OnlyOverlapsRegress ==
    [][\A a \in Addresses : rows'[a].token < rows[a].token =>
          /\ rows'[a].token > 0
          /\ \E w \in Workers :
                /\ pc[w] = "save" /\ pc'[w] = "idle" /\ Address(w) = a
                /\ IF app = "accounts"
                   THEN call[w].op = "connect" /\ got[w] # 0
                   ELSE got[w] # 0 \/ draft[w].token # rows[a].token]_vars
=============================================================================
