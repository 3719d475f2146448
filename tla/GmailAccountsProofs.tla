-------------------------- MODULE GmailAccountsProofs --------------------------
(***************************************************************************)
(* Theorems about GmailAccounts, for any users and addresses, any finite   *)
(* set of workers and any number of tokens.                                *)
(***************************************************************************)
EXTENDS GmailAccounts, FiniteSetTheorems, TLAPS

(***************************************************************************)
(* The inductive invariant.                                                *)
(***************************************************************************)

\* The steps at which a worker has the row of its call in memory.
AtRow == {"primary", "clear", "save"}

\* What a worker does is a step of its call, and of its app.
ServesCall(w) ==
    /\ pc[w] # "idle" => call[w] \in Calls
    /\ pc[w] \in {"exchange", "primary", "clear"} => call[w].op = "connect"
    /\ pc[w] \in {"lock", "primary", "clear"} => app = "accounts"
    /\ pc[w] = "read" => app = "integrations"

\* The row in memory is that of the user, whose the stored row is as well.  Who works
\* on a row in the accounts app, or is to insert one, holds its place.
HasRow(w) ==
    pc[w] \in AtRow =>
        /\ draft[w] \in Rows /\ draft[w].user = call[w].user
        /\ rows[Address(w)].user \in {None, call[w].user}
        /\ app = "accounts" \/ rows[Address(w)].user = None => lock[Address(w)] = w
        /\ call[w].op # "connect" => rows[Address(w)].user = call[w].user

\* Tokens are such as Google has issued; a lock keeps the one in memory current.
HasTokens(w) ==
    /\ got[w] <= issued
    /\ draft[w].token <= issued
    /\ pc[w] \in AtRow /\ app = "accounts" => draft[w].token = rows[Address(w)].token
    /\ pc[w] = "save" /\ call[w].op # "connect" => draft[w].token # 0
    /\ pc[w] \in {"read", "save"} /\ app = "integrations" /\ call[w].op = "connect" => got[w] # 0

\* Only who makes an account primary unmarks others, of the same user.
Unmarks(w) ==
    /\ pc[w] \notin {"clear", "save"} => cleared[w] = {}
    /\ pc[w] # "clear" => todo[w] = {}
    /\ todo[w] \cup cleared[w] # {} => call[w].op = "connect"
    /\ \A a \in todo[w] \cup cleared[w] : a # Address(w) /\ rows[a].user = call[w].user
    /\ \A a \in cleared[w] : lock[a] = w
    /\ pc[w] = "clear" \/ cleared[w] # {} => draft[w].primary

\* A row in memory is primary if the stored one is; if it is not when it is saved, the
\* user has another row.
KeepsPrimary(w) ==
    app = "accounts" /\ pc[w] \in AtRow =>
        /\ rows[Address(w)].primary => draft[w].primary
        /\ pc[w] = "primary" /\ draft[w].primary => rows[Address(w)].primary
        /\ pc[w] = "save" /\ ~draft[w].primary => \E a \in Addresses : rows[a].user = call[w].user

Working(w) ==
    ServesCall(w) /\ HasRow(w) /\ HasTokens(w) /\ Unmarks(w) /\ KeepsPrimary(w)

WorkersWork == \A w \in Workers : Working(w)

TokensAreIssued == \A a \in Addresses : rows[a].token <= issued

UsersHavePrimaries ==
    app = "accounts" =>
        \A u \in Users : (\E a \in Addresses : rows[a].user = u) => Primaries(u) # {}

\* Worker w will save an account of u as primary that is not so yet.
Promotes(w, u) ==
    /\ pc[w] \in {"clear", "save"}
    /\ call[w].op = "connect" /\ call[w].user = u
    /\ draft[w].primary /\ ~rows[Address(w)].primary

\* Every primary account of a user can be laid to a worker of its own, such that a
\* worker that promotes one will unmark what is laid to it.
LaidTo(owner, u) ==
    /\ owner \in Injection(Primaries(u), Workers)
    /\ \A w \in Workers, a \in Primaries(u) :
          Promotes(w, u) /\ owner[a] = w => a \in todo[w] \cup cleared[w]

PrimariesAreLaid ==
    app = "accounts" =>
        \A u \in Users : \E owner \in Injection(Primaries(u), Workers) : LaidTo(owner, u)

AccountsInv ==
    /\ TypeOK
    /\ WorkersWork
    /\ TokensAreIssued
    /\ UsersHavePrimaries
    /\ PrimariesAreLaid

(***************************************************************************)
(* Facts about rows.                                                       *)
(***************************************************************************)

\* The fields of a row, or of no row.
LEMMA FieldFacts ==
    ASSUME NEW row \in Rows \cup {NoRow}
    PROVE  /\ row \in Rows <=> row.user # None
           /\ row = NoRow <=> row.user = None
           /\ row.token \in 0 .. MaxTokens
           /\ row.primary \in BOOLEAN /\ row.expired \in BOOLEAN
           /\ row.user # None => row.user \in Users
<1>1. /\ NoRow.user = None /\ NoRow.token = 0 /\ NoRow.primary \in BOOLEAN
      /\ NoRow.expired \in BOOLEAN
  BY DEF NoRow
<1>2. CASE row \in Rows
  <2>1. /\ row.user \in Users /\ row.token \in 0 .. MaxTokens /\ row.primary \in BOOLEAN
        /\ row.expired \in BOOLEAN
    BY <1>2 DEF Rows
  <2>2. row.user # None
    BY <2>1, NoneAssumption
  <2> QED
    BY <1>1, <1>2, <2>1, <2>2
<1>3. CASE row = NoRow
  <2>1. row.user = None /\ 0 \in 0 .. MaxTokens
    BY <1>1, <1>3, MaxTokensAssumption
  <2>2. row \notin Rows
    <3> SUFFICES ASSUME row \in Rows PROVE FALSE
      OBVIOUS
    <3>1. row.user \in Users
      BY DEF Rows
    <3> QED
      BY <2>1, <3>1, NoneAssumption
  <2> QED
    BY <1>1, <1>3, <2>1, <2>2
<1> QED
  BY <1>2, <1>3

\* A row without a user is none.
LEMMA RowFacts ==
    ASSUME TypeOK, NEW a \in Addresses
    PROVE  /\ rows[a] \in Rows \cup {NoRow}
           /\ rows[a] \in Rows <=> rows[a].user # None
           /\ rows[a] = NoRow <=> rows[a].user = None
           /\ rows[a].token \in 0 .. MaxTokens
           /\ rows[a].primary \in BOOLEAN
           /\ rows[a].user # None => rows[a].user \in Users
<1>1. rows[a] \in Rows \cup {NoRow}
  BY DEF TypeOK
<1> QED
  BY <1>1, FieldFacts

\* The fields of what a worker has in hand.
LEMMA DraftFacts ==
    ASSUME TypeOK, NEW w \in Workers
    PROVE  /\ draft[w] \in Rows \cup {NoRow}
           /\ draft[w].token \in 0 .. MaxTokens
           /\ draft[w].primary \in BOOLEAN
<1>1. draft[w] \in Rows \cup {NoRow}
  BY DEF TypeOK
<1> QED
  BY <1>1, FieldFacts

\* A worker that is busy serves a call of some user on some address.
LEMMA CallFacts ==
    ASSUME NEW w \in Workers, ServesCall(w), pc[w] # "idle"
    PROVE  /\ call[w] \in Calls /\ call[w] # None
           /\ Address(w) \in Addresses /\ call[w].user \in Users /\ call[w].user # None
           /\ call[w].op \in {"connect", "refresh", "sync"}
BY NoneAssumption, CallsAssumption DEF ServesCall, Calls, Connects, Renewals, Address

(***************************************************************************)
(* What a step of one worker leaves to the others.                         *)
(***************************************************************************)

\* Nothing of worker v changes, a row keeps its user, and what v has locked stays.
Elsewhere(v) ==
    /\ app' = app /\ issued <= issued'
    /\ pc'[v] = pc[v] /\ call'[v] = call[v] /\ got'[v] = got[v] /\ draft'[v] = draft[v]
    /\ todo'[v] = todo[v] /\ cleared'[v] = cleared[v]
    /\ \A a \in Addresses : rows[a].user # None => rows'[a].user = rows[a].user
    /\ \A a \in Addresses : lock[a] = v =>
          /\ lock'[a] = v
          /\ rows'[a].user = rows[a].user
          /\ rows'[a].primary = rows[a].primary
          /\ rows'[a].token = rows[a].token

\* A step elsewhere leaves alone what a worker relies on.
LEMMA OtherWorks ==
    ASSUME TypeOK, TypeOK', NEW v \in Workers, Working(v), Elsewhere(v)
    PROVE  Working(v)'
<1>1. ServesCall(v)'
  BY DEF Working, ServesCall, Elsewhere
<1>2. pc[v] # "idle" =>
          Address(v) \in Addresses /\ call[v].user \in Users /\ call[v].user # None
  BY CallFacts DEF Working
<1>3. Address(v)' = Address(v)
  BY DEF Address, Elsewhere
<1>4. issued \in Nat /\ issued' \in Nat /\ issued <= issued' /\ got[v] \in Nat /\ draft[v].token \in Nat
  BY MaxTokensAssumption, DraftFacts DEF TypeOK, Elsewhere
<1>5. HasRow(v)'
  BY <1>2, <1>3 DEF Working, HasRow, AtRow, Elsewhere
<1>6. HasTokens(v)'
  <2>1. got'[v] <= issued' /\ draft'[v].token <= issued'
    BY <1>4 DEF Working, HasTokens, Elsewhere
  <2>2. pc[v] \in AtRow /\ app = "accounts" => rows'[Address(v)].token = rows[Address(v)].token
    BY <1>2 DEF Working, HasRow, AtRow, Elsewhere
  <2> QED
    BY <1>3, <2>1, <2>2 DEF Working, HasTokens, Elsewhere
<1>7. Unmarks(v)'
  <2>1. ASSUME NEW a \in todo[v] \cup cleared[v] PROVE rows'[a].user = rows[a].user
    <3>1. pc[v] # "idle" /\ a \in Addresses /\ rows[a].user = call[v].user
      BY DEF Working, Unmarks, TypeOK
    <3> QED
      BY <1>2, <3>1 DEF Elsewhere
  <2>2. \A a \in cleared[v] : a \in Addresses
    BY DEF TypeOK
  <2> QED
    BY <1>3, <2>1, <2>2 DEF Working, Unmarks, Elsewhere
<1>8. KeepsPrimary(v)'
  <2>1. app = "accounts" /\ pc[v] \in AtRow => rows'[Address(v)].primary = rows[Address(v)].primary
    BY <1>2 DEF Working, HasRow, AtRow, Elsewhere
  <2>2. (\E a \in Addresses : rows[a].user = call[v].user) /\ pc[v] # "idle"
          => \E a \in Addresses : rows'[a].user = call[v].user
    BY <1>2 DEF Elsewhere
  <2> QED
    BY <1>3, <2>1, <2>2 DEF Working, KeepsPrimary, Elsewhere, AtRow
<1> QED
  BY <1>1, <1>5, <1>6, <1>7, <1>8 DEF Working

(***************************************************************************)
(* Rows that are changed.                                                  *)
(***************************************************************************)

\* A row that is given to a user.
LEMMA WithUser ==
    ASSUME NEW row \in Rows \cup {NoRow}, NEW u \in Users
    PROVE  LET new == [row EXCEPT !.user = u]
           IN  /\ new \in Rows /\ new.user = u /\ new.token = row.token
               /\ new.primary = row.primary /\ new.expired = row.expired
<1>1. CASE row \in Rows
  BY <1>1 DEF Rows
<1>2. CASE row = NoRow
  <2>1. row \in [user : {None}, primary : BOOLEAN, token : {0}, expired : BOOLEAN]
    BY <1>2 DEF NoRow
  <2>2. LET new == [row EXCEPT !.user = u]
        IN  /\ new \in [user : Users, primary : BOOLEAN, token : {0}, expired : BOOLEAN]
            /\ new.user = u /\ new.token = row.token
            /\ new.primary = row.primary /\ new.expired = row.expired
    BY <2>1
  <2>3. 0 \in 0 .. MaxTokens
    BY MaxTokensAssumption
  <2>4. [user : Users, primary : BOOLEAN, token : {0}, expired : BOOLEAN] \subseteq Rows
    BY <2>3 DEF Rows
  <2> QED
    BY <2>2, <2>4
<1> QED
  BY <1>1, <1>2

\* A row that is made primary or not.
LEMMA WithPrimary ==
    ASSUME NEW row \in Rows, NEW b \in BOOLEAN
    PROVE  LET new == [row EXCEPT !.primary = b]
           IN  /\ new \in Rows /\ new.user = row.user /\ new.token = row.token
               /\ new.primary = b
BY DEF Rows

\* A row, or no row, that is no longer primary.
LEMMA Unmarked ==
    ASSUME NEW row \in Rows \cup {NoRow}
    PROVE  LET new == [row EXCEPT !.primary = FALSE]
           IN  /\ new \in Rows \cup {NoRow} /\ new.user = row.user /\ new.token = row.token
               /\ new.primary = FALSE
<1>1. CASE row \in Rows
  BY <1>1, WithPrimary
<1>2. CASE row = NoRow
  <2>1. row \in [user : {None}, primary : BOOLEAN, token : {0}, expired : BOOLEAN]
        /\ row.primary = FALSE
    BY <1>2 DEF NoRow
  <2>2. [row EXCEPT !.primary = FALSE] = row
    BY <2>1
  <2> QED
    BY <2>1, <2>2
<1> QED
  BY <1>1, <1>2

\* A row that gets another refresh token.
LEMMA WithTokens ==
    ASSUME NEW row \in Rows, NEW n \in 0 .. MaxTokens
    PROVE  LET new == [row EXCEPT !.token = n, !.expired = FALSE]
           IN  /\ new \in Rows /\ new.user = row.user /\ new.token = n
               /\ new.primary = row.primary
BY DEF Rows

\* A row whose access token has run out.
LEMMA WithExpired ==
    ASSUME NEW row \in Rows
    PROVE  LET new == [row EXCEPT !.expired = TRUE]
           IN  /\ new \in Rows /\ new.user = row.user /\ new.token = row.token
               /\ new.primary = row.primary
BY DEF Rows

(***************************************************************************)
(* The steps of a worker.                                                  *)
(***************************************************************************)

Base == TypeOK /\ WorkersWork /\ TokensAreIssued

\* What each step of worker w keeps.
Kept(w) ==
    /\ TypeOK' /\ Working(w)' /\ TokensAreIssued'
    /\ \A v \in Workers \ {w} : Elsewhere(v)

\* What the invariant says of one worker and of the tokens.
LEMMA BaseFacts ==
    ASSUME Base, NEW w \in Workers
    PROVE  /\ TypeOK /\ Working(w) /\ ServesCall(w) /\ HasRow(w) /\ HasTokens(w)
           /\ Unmarks(w) /\ KeepsPrimary(w)
           /\ issued \in Nat /\ got[w] \in Nat /\ draft[w].token \in Nat
           /\ \A a \in Addresses : rows[a].token \in Nat /\ rows[a].token <= issued
<1>1. TypeOK /\ Working(w) /\ TokensAreIssued
  BY DEF Base, WorkersWork
<1>2. issued \in Nat /\ got[w] \in Nat
  BY <1>1, MaxTokensAssumption DEF TypeOK
<1>3. draft[w].token \in Nat
  BY <1>1, DraftFacts, MaxTokensAssumption
<1>4. \A a \in Addresses : rows[a].token \in Nat
  BY <1>1, RowFacts, MaxTokensAssumption
<1> QED
  BY <1>1, <1>2, <1>3, <1>4 DEF Working, TokensAreIssued

\* The invariant is kept when a call starts.
LEMMA StartKeeps ==
    ASSUME Base, NEW w \in Workers, NEW c \in Calls, Start(w, c)
    PROVE  Kept(w)
<1> USE BaseFacts
<1>1. /\ pc[w] = "idle" /\ call'[w] = c
      /\ app = "integrations" => c.op # "refresh"
      /\ pc'[w] = (IF c.op = "connect" THEN "exchange"
                   ELSE IF app = "accounts" THEN "lock" ELSE "read")
      /\ UNCHANGED <<app, rows, issued, lock, got, draft, todo, cleared>>
  BY DEF Start, Goto, TypeOK
<1>2. TypeOK'
  BY DEF Start, Goto, TypeOK, Steps
<1>3. ServesCall(w)'
  BY <1>1 DEF ServesCall, TypeOK
<1>4. HasRow(w)' /\ KeepsPrimary(w)'
  BY <1>1 DEF HasRow, KeepsPrimary, AtRow
<1>5. HasTokens(w)'
  BY <1>1 DEF HasTokens, AtRow
<1>6. Unmarks(w)'
  BY <1>1 DEF Unmarks
<1>7. \A v \in Workers \ {w} : Elsewhere(v)
  BY <1>1 DEF Elsewhere, Start, Goto, TypeOK
<1>8. TokensAreIssued'
  BY <1>1 DEF Base, TokensAreIssued
<1> QED
  BY <1>2, <1>3, <1>4, <1>5, <1>6, <1>7, <1>8 DEF Kept, Working

\* Google issues a token that is newer than all before, or none.
LEMMA Issued ==
    ASSUME Base, NEW n \in 0 .. MaxTokens, Issue(n)
    PROVE  /\ issued' \in 0 .. MaxTokens /\ issued <= issued' /\ n <= issued'
           /\ n # 0 => issued < n
<1> SUFFICES issued \in 0 .. MaxTokens
  BY MaxTokensAssumption DEF Issue
<1> QED
  BY DEF Base, TypeOK

\* The invariant is kept when a code is exchanged.
LEMMA ExchangeKeeps ==
    ASSUME Base, NEW w \in Workers, Exchange(w)
    PROVE  Kept(w)
<1> USE BaseFacts
<1>1. PICK n \in 0 .. MaxTokens :
          /\ Issue(n)
          /\ app = "integrations" => n # 0
          /\ got' = [got EXCEPT ![w] = n]
  BY DEF Exchange
<1>2. issued' \in 0 .. MaxTokens /\ issued <= issued' /\ n <= issued' /\ issued' \in Nat
  BY <1>1, Issued, MaxTokensAssumption
<1>3. /\ pc[w] = "exchange" /\ pc'[w] = (IF app = "accounts" THEN "lock" ELSE "read")
      /\ got'[w] = n /\ call[w].op = "connect"
      /\ UNCHANGED <<app, rows, lock, call, draft, todo, cleared>>
  BY <1>1 DEF Exchange, Goto, TypeOK, ServesCall
<1>4. TypeOK'
  BY <1>1, <1>2 DEF Exchange, Goto, TypeOK, Steps
<1>5. ServesCall(w)'
  BY <1>3 DEF ServesCall, TypeOK
<1>6. HasRow(w)' /\ KeepsPrimary(w)' /\ Unmarks(w)'
  BY <1>3 DEF HasRow, KeepsPrimary, AtRow, Unmarks
<1>7. draft'[w].token <= issued' /\ \A a \in Addresses : rows'[a].token <= issued'
  BY <1>2, <1>3 DEF HasTokens
<1>8. HasTokens(w)'
  BY <1>1, <1>2, <1>3, <1>7 DEF HasTokens, AtRow
<1>9. \A v \in Workers \ {w} : Elsewhere(v)
  BY <1>1, <1>2, <1>3 DEF Elsewhere, Exchange, Goto, TypeOK
<1> QED
  BY <1>4, <1>5, <1>6, <1>7, <1>8, <1>9 DEF Kept, Working, TokensAreIssued

\* The row that is taken is the user's.
LEMMA TakenRow ==
    ASSUME Base, NEW w \in Workers, pc[w] # "idle", Found(w), Take(w)
    PROVE  /\ draft'[w] \in Rows /\ draft' \in [Workers -> Rows \cup {NoRow}]
           /\ draft'[w].user = call[w].user
           /\ draft'[w].token = rows[Address(w)].token
           /\ draft'[w].primary = rows[Address(w)].primary
           /\ rows[Address(w)].user \in {None, call[w].user}
           /\ call[w].op # "connect" =>
                rows[Address(w)].user = call[w].user /\ rows[Address(w)].token # 0
           /\ \A v \in Workers \ {w} : draft'[v] = draft[v]
<1>1. TypeOK /\ Address(w) \in Addresses /\ call[w].user \in Users
  BY BaseFacts, CallFacts
<1>2. rows[Address(w)] \in Rows \cup {NoRow}
  BY <1>1, RowFacts
<1>3. draft'[w] = [rows[Address(w)] EXCEPT !.user = call[w].user]
  BY <1>1 DEF Take, TypeOK
<1>4. /\ draft'[w] \in Rows /\ draft'[w].user = call[w].user
      /\ draft'[w].token = rows[Address(w)].token
      /\ draft'[w].primary = rows[Address(w)].primary
  BY <1>1, <1>2, <1>3, WithUser
<1>5. draft' \in [Workers -> Rows \cup {NoRow}] /\ \A v \in Workers \ {w} : draft'[v] = draft[v]
  BY <1>1, <1>3, <1>4 DEF Take, TypeOK
<1> QED
  BY <1>4, <1>5 DEF Found

\* The invariant is kept when the accounts app locks the row.
LEMMA LockKeeps ==
    ASSUME Base, NEW w \in Workers, Lock(w)
    PROVE  Kept(w)
<1> USE BaseFacts
<1>1. /\ pc[w] = "lock" /\ app = "accounts" /\ Free(w, Address(w)) /\ Found(w) /\ Take(w)
      /\ pc'[w] = (IF call[w].op = "connect" THEN "primary" ELSE "save")
      /\ UNCHANGED <<app, rows, issued, call, got, todo, cleared>>
  BY DEF Lock, Goto, TypeOK, ServesCall
<1>2. Address(w) \in Addresses /\ call[w] \in Calls
  BY <1>1, CallFacts
<1>3. lock'[Address(w)] = w /\ \A a \in Addresses \ {Address(w)} : lock'[a] = lock[a]
  BY <1>2 DEF Lock, TypeOK
<1>4. TypeOK'
  BY <1>1, <1>2, TakenRow DEF Lock, Goto, TypeOK, Steps
<1>5. Address(w)' = Address(w)
  BY <1>1 DEF Address
<1>6. ServesCall(w)'
  BY <1>1, <1>2 DEF ServesCall
<1>7. HasRow(w)'
  BY <1>1, <1>3, <1>5, TakenRow DEF HasRow
<1>8. HasTokens(w)'
  BY <1>1, <1>2, <1>5, TakenRow DEF HasTokens, AtRow
<1>9. Unmarks(w)'
  BY <1>1 DEF Unmarks
<1>10. KeepsPrimary(w)'
  BY <1>1, <1>2, <1>5, TakenRow DEF KeepsPrimary
<1>11. \A v \in Workers \ {w} : Elsewhere(v)
  <2> SUFFICES ASSUME NEW v \in Workers \ {w} PROVE Elsewhere(v)
    OBVIOUS
  <2>1. lock[Address(w)] # v
    BY <1>1, NoneAssumption DEF Free
  <2>2. draft'[v] = draft[v] /\ pc'[v] = pc[v]
    BY <1>1, TakenRow DEF Lock, Goto, TypeOK
  <2> QED
    BY <1>1, <1>3, <2>1, <2>2 DEF Elsewhere
<1> QED
  BY <1>1, <1>4, <1>6, <1>7, <1>8, <1>9, <1>10, <1>11 DEF Kept, Working, Base, TokensAreIssued

\* The invariant is kept when the integrations app reads the row.
LEMMA ReadKeeps ==
    ASSUME Base, NEW w \in Workers, Read(w)
    PROVE  Kept(w)
<1> USE BaseFacts
<1>1. /\ pc[w] = "read" /\ app = "integrations" /\ Found(w) /\ Take(w) /\ pc'[w] = "save"
      /\ UNCHANGED <<app, rows, issued, call, got, todo, cleared>>
  BY DEF Read, Goto, TypeOK, ServesCall
<1>2. Address(w) \in Addresses /\ call[w] \in Calls
  BY <1>1, CallFacts
<1>3. /\ rows[Address(w)] = NoRow => lock'[Address(w)] = w /\ lock[Address(w)] \in {None, w}
      /\ rows[Address(w)] # NoRow => lock' = lock
      /\ \A a \in Addresses \ {Address(w)} : lock'[a] = lock[a]
      /\ lock' \in [Addresses -> Workers \cup {None}]
  BY <1>2 DEF Read, TypeOK, Free
<1>4. TypeOK'
  BY <1>1, <1>2, <1>3, TakenRow DEF Read, Goto, TypeOK, Steps
<1>5. Address(w)' = Address(w)
  BY <1>1 DEF Address
<1>6. ServesCall(w)'
  BY <1>1, <1>2 DEF ServesCall
<1>7. HasRow(w)'
  <2>1. rows[Address(w)].user = None => rows[Address(w)] = NoRow
    BY <1>2, RowFacts
  <2> QED
    BY <1>1, <1>3, <1>5, <2>1, TakenRow DEF HasRow
<1>8. HasTokens(w)'
  BY <1>1, <1>2, <1>5, TakenRow DEF HasTokens, AtRow
<1>9. Unmarks(w)' /\ KeepsPrimary(w)'
  BY <1>1 DEF Unmarks, KeepsPrimary
<1>10. \A v \in Workers \ {w} : Elsewhere(v)
  <2> SUFFICES ASSUME NEW v \in Workers \ {w} PROVE Elsewhere(v)
    OBVIOUS
  <2>1. \A a \in Addresses : lock[a] = v => lock'[a] = v
    BY <1>3, NoneAssumption
  <2>2. draft'[v] = draft[v] /\ pc'[v] = pc[v]
    BY <1>1, TakenRow DEF Read, Goto, TypeOK
  <2> QED
    BY <1>1, <2>1, <2>2 DEF Elsewhere
<1> QED
  BY <1>1, <1>4, <1>6, <1>7, <1>8, <1>9, <1>10 DEF Kept, Working, Base, TokensAreIssued

\* The primary mark of the row in memory is set or left.
LEMMA MarkedDraft ==
    ASSUME Base, NEW w \in Workers, pc[w] \in AtRow, NEW b \in BOOLEAN,
           draft' = [draft EXCEPT ![w].primary = b]
    PROVE  /\ draft'[w] \in Rows /\ draft' \in [Workers -> Rows \cup {NoRow}]
           /\ draft'[w].user = draft[w].user /\ draft'[w].token = draft[w].token
           /\ draft'[w].primary = b
           /\ \A v \in Workers \ {w} : draft'[v] = draft[v]
<1>1. TypeOK /\ draft[w] \in Rows
  BY BaseFacts DEF HasRow
<1>2. draft'[w] = [draft[w] EXCEPT !.primary = b]
  BY <1>1 DEF TypeOK
<1>3. /\ draft'[w] \in Rows /\ draft'[w].user = draft[w].user /\ draft'[w].token = draft[w].token
      /\ draft'[w].primary = b
  <2> DEFINE old == draft[w]
             new == [old EXCEPT !.primary = b]
  <2>1. new \in Rows /\ new.user = old.user /\ new.token = old.token /\ new.primary = b
    <3>1. old \in Rows
      BY <1>1
    <3> HIDE DEF old
    <3> QED
      BY <3>1, WithPrimary
  <2>2. draft'[w] = new
    BY <1>2
  <2> HIDE DEF new
  <2> QED
    BY <2>1, <2>2
<1> QED
  BY <1>1, <1>3 DEF TypeOK

\* The invariant is kept when set_primary begins.
LEMMA StartClearKeeps ==
    ASSUME Base, NEW w \in Workers, StartClear(w)
    PROVE  Kept(w)
<1> USE BaseFacts
<1>1. /\ pc[w] = "primary" /\ app = "accounts" /\ pc'[w] = "clear" /\ call[w].op = "connect"
      /\ todo'[w] = Primaries(call[w].user) \ {Address(w)}
      /\ UNCHANGED <<app, rows, issued, lock, call, got, cleared>>
  BY DEF StartClear, Goto, TypeOK, ServesCall
<1>2. Address(w) \in Addresses /\ call[w] \in Calls /\ pc[w] \in AtRow
  BY <1>1, CallFacts DEF AtRow
<1>3. /\ draft'[w] \in Rows /\ draft' \in [Workers -> Rows \cup {NoRow}]
      /\ draft'[w].user = draft[w].user /\ draft'[w].token = draft[w].token
      /\ draft'[w].primary = TRUE
      /\ \A v \in Workers \ {w} : draft'[v] = draft[v]
  BY <1>2, MarkedDraft DEF StartClear
<1>4. TypeOK'
  BY <1>3 DEF StartClear, Goto, TypeOK, Steps, Primaries
<1>5. Address(w)' = Address(w)
  BY <1>1 DEF Address
<1>6. ServesCall(w)'
  BY <1>1, <1>2 DEF ServesCall
<1>7. HasRow(w)'
  BY <1>1, <1>2, <1>3, <1>5 DEF HasRow
<1>8. HasTokens(w)'
  BY <1>1, <1>2, <1>3, <1>5 DEF HasTokens, AtRow
<1>9. Unmarks(w)'
  BY <1>1, <1>3, <1>5 DEF Unmarks, Primaries
<1>10. KeepsPrimary(w)'
  BY <1>1, <1>3, <1>5 DEF KeepsPrimary
<1>11. \A v \in Workers \ {w} : Elsewhere(v)
  BY <1>1, <1>3 DEF StartClear, Goto, TypeOK, Elsewhere
<1> QED
  BY <1>1, <1>4, <1>6, <1>7, <1>8, <1>9, <1>10, <1>11 DEF Kept, Working, Base, TokensAreIssued

\* The invariant is kept when set_primary unmarks a row.
LEMMA ClearKeeps ==
    ASSUME Base, NEW w \in Workers, NEW a \in Addresses, Clear(w, a)
    PROVE  Kept(w)
<1> USE BaseFacts
<1>1. /\ pc[w] = "clear" /\ a \in todo[w] /\ lock[a] \in {None, w}
      /\ todo'[w] = todo[w] \ {a}
      /\ UNCHANGED <<app, rows, issued, pc, call, got, draft>>
  BY DEF Clear, TypeOK, Free
<1>2. /\ lock' \in [Addresses -> Workers \cup {None}]
      /\ \A b \in Addresses : lock[b] # None => lock'[b] = lock[b]
      /\ cleared' \in [Workers -> SUBSET Addresses]
      /\ \A v \in Workers \ {w} : cleared'[v] = cleared[v] /\ todo'[v] = todo[v]
      /\ cleared'[w] \subseteq cleared[w] \cup {a}
      /\ a \in cleared'[w] => lock'[a] = w
  <2>1. CASE rows[a].primary
    BY <1>1, <2>1 DEF Clear, TypeOK
  <2>2. CASE ~rows[a].primary
    BY <1>1, <2>2 DEF Clear, TypeOK, Unmarks
  <2> QED
    BY <2>1, <2>2
<1>3. TypeOK'
  BY <1>1, <1>2 DEF Clear, TypeOK
<1>4. Address(w)' = Address(w) /\ Address(w) \in Addresses
  BY <1>1, CallFacts DEF Address
<1>5. ServesCall(w)'
  BY <1>1 DEF ServesCall
<1>6. HasRow(w)'
  <2>1. lock[Address(w)] = w => lock'[Address(w)] = w
    BY <1>2, <1>4, NoneAssumption
  <2> QED
    BY <1>1, <1>4, <2>1 DEF HasRow
<1>7. HasTokens(w)' /\ KeepsPrimary(w)'
  BY <1>1, <1>4 DEF HasTokens, KeepsPrimary
<1>8. Unmarks(w)'
  <2>1. \A b \in cleared'[w] : lock'[b] = w
    BY <1>2, NoneAssumption DEF Unmarks, TypeOK
  <2>2. todo'[w] \cup cleared'[w] \subseteq todo[w] \cup cleared[w]
    BY <1>1, <1>2
  <2> QED
    BY <1>1, <1>4, <2>1, <2>2 DEF Unmarks
<1>9. \A v \in Workers \ {w} : Elsewhere(v)
  <2> SUFFICES ASSUME NEW v \in Workers \ {w} PROVE Elsewhere(v)
    OBVIOUS
  <2>1. \A b \in Addresses : lock[b] = v => lock'[b] = v
    BY <1>2, NoneAssumption
  <2> QED
    BY <1>1, <1>2, <2>1 DEF Elsewhere
<1> QED
  BY <1>1, <1>3, <1>5, <1>6, <1>7, <1>8, <1>9 DEF Kept, Working, Base, TokensAreIssued

\* The invariant is kept when set_primary has visited all rows.
LEMMA ClearedKeeps ==
    ASSUME Base, NEW w \in Workers, Cleared(w)
    PROVE  Kept(w)
<1> USE BaseFacts
<1>1. /\ pc[w] = "clear" /\ todo[w] = {} /\ pc'[w] = "save"
      /\ UNCHANGED <<app, rows, issued, lock, call, got, draft, todo, cleared>>
  BY DEF Cleared, Goto, TypeOK
<1>2. TypeOK'
  BY DEF Cleared, Goto, TypeOK, Steps
<1>3. Address(w)' = Address(w) /\ call[w] \in Calls /\ call[w].op = "connect" /\ app = "accounts"
  BY <1>1, CallFacts DEF Address, ServesCall
<1>4. ServesCall(w)'
  BY <1>1, <1>3 DEF ServesCall
<1>5. HasRow(w)' /\ HasTokens(w)'
  BY <1>1, <1>3 DEF HasRow, HasTokens, AtRow
<1>6. Unmarks(w)'
  BY <1>1, <1>3 DEF Unmarks
<1>7. KeepsPrimary(w)'
  BY <1>1, <1>3 DEF KeepsPrimary, Unmarks, AtRow
<1>8. \A v \in Workers \ {w} : Elsewhere(v)
  BY <1>1 DEF Cleared, Goto, TypeOK, Elsewhere
<1> QED
  BY <1>1, <1>2, <1>4, <1>5, <1>6, <1>7, <1>8 DEF Kept, Working, Base, TokensAreIssued

\* The invariant is kept when a call looks for another primary account.
LEMMA LookForPrimaryKeeps ==
    ASSUME Base, NEW w \in Workers, LookForPrimary(w)
    PROVE  Kept(w)
<1> USE BaseFacts
<1> DEFINE leading == draft[w].primary \/ Leads(w)
<1>1. /\ pc[w] = "primary" /\ app = "accounts" /\ pc'[w] = "save" /\ call[w].op = "connect"
      /\ UNCHANGED <<app, rows, issued, lock, call, got, todo, cleared>>
  BY DEF LookForPrimary, Goto, TypeOK, ServesCall
<1>2. Address(w) \in Addresses /\ call[w] \in Calls /\ pc[w] \in AtRow /\ leading \in BOOLEAN
  BY <1>1, CallFacts DEF AtRow
<1>3. draft' = [draft EXCEPT ![w].primary = leading]
  BY DEF LookForPrimary
<1>4. leading <=> draft[w].primary \/ Leads(w)
  OBVIOUS
<1> HIDE DEF leading
<1>5. /\ draft'[w] \in Rows /\ draft' \in [Workers -> Rows \cup {NoRow}]
      /\ draft'[w].user = draft[w].user /\ draft'[w].token = draft[w].token
      /\ draft'[w].primary = leading
      /\ \A v \in Workers \ {w} : draft'[v] = draft[v]
  BY <1>2, <1>3, MarkedDraft
<1>6. TypeOK'
  BY <1>5 DEF LookForPrimary, Goto, TypeOK, Steps
<1>7. Address(w)' = Address(w)
  BY <1>1 DEF Address
<1>8. ServesCall(w)'
  BY <1>1, <1>2 DEF ServesCall
<1>9. HasRow(w)'
  BY <1>1, <1>2, <1>5, <1>7 DEF HasRow
<1>10. HasTokens(w)'
  BY <1>1, <1>2, <1>5, <1>7 DEF HasTokens, AtRow
<1>11. Unmarks(w)'
  BY <1>1, <1>7 DEF Unmarks
<1>12. KeepsPrimary(w)'
  <2>1. rows[Address(w)].primary => leading
    BY <1>1, <1>2, <1>4 DEF KeepsPrimary
  <2>2. ~leading => \E a \in Addresses : rows[a].user = call[w].user
    BY <1>4 DEF Leads, Primaries
  <2> QED
    BY <1>1, <1>5, <1>7, <2>1, <2>2 DEF KeepsPrimary
<1>13. \A v \in Workers \ {w} : Elsewhere(v)
  BY <1>1, <1>5 DEF LookForPrimary, Goto, TypeOK, Elsewhere
<1> QED
  BY <1>1, <1>6, <1>8, <1>9, <1>10, <1>11, <1>12, <1>13 DEF Kept, Working, Base, TokensAreIssued

(***************************************************************************)
(* The ends of a call.                                                     *)
(***************************************************************************)

\* What is left of a worker whose transaction ends.
LEMMA LeaveFacts ==
    ASSUME Base, NEW w \in Workers, Leave(w)
    PROVE  /\ pc' \in [Workers -> Steps] /\ call' \in [Workers -> Calls \cup {None}]
           /\ got' \in [Workers -> 0 .. MaxTokens] /\ draft' \in [Workers -> Rows \cup {NoRow}]
           /\ todo' \in [Workers -> SUBSET Addresses] /\ cleared' \in [Workers -> SUBSET Addresses]
           /\ lock' \in [Addresses -> Workers \cup {None}]
           /\ \A a \in Addresses : lock[a] # w => lock'[a] = lock[a]
           /\ \A v \in Workers \ {w} :
                 /\ pc'[v] = pc[v] /\ call'[v] = call[v] /\ got'[v] = got[v] /\ draft'[v] = draft[v]
                 /\ todo'[v] = todo[v] /\ cleared'[v] = cleared[v]
           /\ pc'[w] = "idle" /\ got'[w] = 0 /\ draft'[w] = NoRow
           /\ todo'[w] = {} /\ cleared'[w] = {}
<1>1. TypeOK /\ 0 \in 0 .. MaxTokens
  BY MaxTokensAssumption DEF Base
<1> QED
  BY <1>1 DEF Leave, Goto, TypeOK, Steps

\* An idle worker relies on nothing.
LEMMA IdleWorks ==
    ASSUME NEW w \in Workers, pc'[w] = "idle", got'[w] = 0, draft'[w] = NoRow,
           todo'[w] = {}, cleared'[w] = {}, issued' \in Nat
    PROVE  Working(w)'
<1>1. draft'[w].token = 0 /\ 0 <= issued'
  BY DEF NoRow
<1>2. HasTokens(w)'
  BY <1>1 DEF HasTokens, AtRow
<1>3. ServesCall(w)' /\ HasRow(w)' /\ Unmarks(w)' /\ KeepsPrimary(w)'
  BY DEF ServesCall, HasRow, Unmarks, KeepsPrimary, AtRow
<1> QED
  BY <1>2, <1>3 DEF Working

\* The invariant is kept when a transaction ends without a write.
LEMMA LeaveKeeps ==
    ASSUME Base, NEW w \in Workers, Leave(w), UNCHANGED <<app, rows, issued>>
    PROVE  Kept(w)
<1>1. TypeOK /\ issued' \in Nat /\ issued <= issued'
  BY MaxTokensAssumption DEF Base, TypeOK
<1>2. TypeOK'
  BY <1>1, LeaveFacts DEF TypeOK
<1>3. Working(w)'
  BY <1>1, LeaveFacts, IdleWorks
<1>4. \A v \in Workers \ {w} : Elsewhere(v)
  BY <1>1, LeaveFacts DEF Elsewhere
<1> QED
  BY <1>2, <1>3, <1>4 DEF Kept, Base, TokensAreIssued

\* What a call that saves a row does to the rows.
LEMMA StoredRows ==
    ASSUME Base, NEW w \in Workers, pc[w] # "idle", NEW row \in Rows, Store(w, row)
    PROVE  /\ rows' \in [Addresses -> Rows \cup {NoRow}]
           /\ rows'[Address(w)] = row
           /\ \A a \in Addresses \ {Address(w)} :
                 /\ rows'[a].user = rows[a].user /\ rows'[a].token = rows[a].token
                 /\ rows'[a].primary <=> rows[a].primary /\ a \notin cleared[w]
<1>1. TypeOK /\ Address(w) \in Addresses
  BY BaseFacts, CallFacts
<1>2. rows'[Address(w)] = row
  BY <1>1 DEF Store
<1>3. ASSUME NEW a \in Addresses \ {Address(w)}
      PROVE  /\ rows'[a] \in Rows \cup {NoRow}
             /\ rows'[a].user = rows[a].user /\ rows'[a].token = rows[a].token
             /\ rows'[a].primary <=> rows[a].primary /\ a \notin cleared[w]
  <2>1. rows[a] \in Rows \cup {NoRow}
    BY <1>1, RowFacts
  <2>2. CASE a \in cleared[w]
    <3> DEFINE old == rows[a]
               new == [old EXCEPT !.primary = FALSE]
    <3>1. rows'[a] = new
      BY <2>2 DEF Store
    <3>2. /\ new \in Rows \cup {NoRow} /\ new.user = old.user /\ new.token = old.token
          /\ new.primary = FALSE
      <4>1. old \in Rows \cup {NoRow}
        BY <2>1
      <4> HIDE DEF old
      <4> QED
        BY <4>1, Unmarked
    <3> HIDE DEF new
    <3> QED
      BY <2>2, <3>1, <3>2
  <2>3. CASE a \notin cleared[w]
    <3>1. rows'[a] = rows[a]
      BY <2>3 DEF Store
    <3> QED
      BY <2>1, <2>3, <3>1
  <2> QED
    BY <2>2, <2>3
<1>4. rows' \in [Addresses -> Rows \cup {NoRow}]
  <2>1. rows' = [a \in Addresses |-> rows'[a]]
    BY DEF Store
  <2>2. \A a \in Addresses : rows'[a] \in Rows \cup {NoRow}
    BY <1>1, <1>2, <1>3
  <2> QED
    BY <2>1, <2>2
<1> QED
  BY <1>2, <1>3, <1>4

\* The invariant is kept when a call saves a row of its user.
LEMMA StoreKeeps ==
    ASSUME Base, NEW w \in Workers, pc[w] = "save", app' = app,
           issued' \in 0 .. MaxTokens, issued <= issued',
           NEW row \in Rows, row.user = call[w].user, row.token <= issued', Store(w, row)
    PROVE  Kept(w)
<1> USE BaseFacts
<1>1. Leave(w) /\ lock[Address(w)] \in {None, w} /\ Address(w) \in Addresses /\ issued' \in Nat
  BY CallFacts, MaxTokensAssumption DEF Store, Free
<1>2. /\ rows' \in [Addresses -> Rows \cup {NoRow}]
      /\ rows'[Address(w)] = row
      /\ \A a \in Addresses \ {Address(w)} :
            /\ rows'[a].user = rows[a].user /\ rows'[a].token = rows[a].token
            /\ rows'[a].primary <=> rows[a].primary /\ a \notin cleared[w]
  BY StoredRows
<1>3. TypeOK'
  BY <1>1, <1>2, LeaveFacts DEF TypeOK
<1>4. Working(w)'
  BY <1>1, LeaveFacts, IdleWorks
<1>5. TokensAreIssued'
  <2>1. \A a \in Addresses \ {Address(w)} : rows'[a].token <= issued'
    BY <1>1, <1>2
  <2> QED
    BY <1>2, <2>1 DEF TokensAreIssued
<1>6. \A v \in Workers \ {w} : Elsewhere(v)
  <2> SUFFICES ASSUME NEW v \in Workers \ {w} PROVE Elsewhere(v)
    OBVIOUS
  <2>1. \A a \in Addresses : rows[a].user # None => rows'[a].user = rows[a].user
    BY <1>1, <1>2 DEF HasRow, AtRow
  <2>2. ASSUME NEW a \in Addresses, lock[a] = v
        PROVE  /\ lock'[a] = v /\ rows'[a].user = rows[a].user /\ rows'[a].token = rows[a].token
               /\ rows'[a].primary = rows[a].primary
    <3>1. a # Address(w) /\ a \notin cleared[w]
      BY <1>1, <2>2, NoneAssumption DEF Unmarks
    <3>2. rows'[a].primary \in BOOLEAN /\ rows[a].primary \in BOOLEAN
      <4>1. rows'[a] \in Rows \cup {NoRow}
        BY <1>2
      <4> QED
        BY <4>1, FieldFacts, RowFacts
    <3>3. lock'[a] = v
      BY <2>2, <1>1, LeaveFacts
    <3> QED
      BY <1>2, <3>1, <3>2, <3>3
  <2> QED
    BY <1>1, <2>1, <2>2, LeaveFacts DEF Elsewhere
<1> QED
  BY <1>3, <1>4, <1>5, <1>6 DEF Kept

\* The row that a connect saves.
LEMMA ConnectedRow ==
    ASSUME Base, NEW w \in Workers, SaveConnected(w)
    PROVE  \E row \in Rows :
              /\ row.user = call[w].user
              /\ row.token = KeptToken(w, got[w]) /\ row.token <= issued
              /\ row.primary = draft[w].primary
              /\ Store(w, row)
<1> USE BaseFacts
<1> DEFINE old == draft[w]
           n == KeptToken(w, got[w])
           row == [old EXCEPT !.token = n, !.expired = FALSE]
<1>1. pc[w] = "save" /\ old \in Rows /\ old.user = call[w].user
  BY DEF SaveConnected, HasRow, AtRow
<1>2. n \in 0 .. MaxTokens /\ n <= issued
  BY DraftFacts DEF KeptToken, HasTokens, TypeOK
<1>3. Store(w, row)
  BY DEF SaveConnected
<1>4. /\ row \in Rows /\ row.user = old.user /\ row.token = n /\ row.primary = old.primary
  <2> HIDE DEF old, n
  <2> QED
    BY <1>1, <1>2, WithTokens
<1> HIDE DEF row
<1> QED
  BY <1>1, <1>2, <1>3, <1>4

\* The row that a renewal saves.
LEMMA RenewedRow ==
    ASSUME Base, NEW w \in Workers, SaveRenewed(w)
    PROVE  /\ issued' \in 0 .. MaxTokens /\ issued <= issued'
           /\ \E n \in 0 .. MaxTokens, row \in Rows :
                 /\ n # 0 => issued < n
                 /\ row.user = call[w].user
                 /\ row.token = KeptToken(w, n) /\ row.token <= issued'
                 /\ row.primary = rows[Address(w)].primary
                 /\ Store(w, row)
<1> USE BaseFacts
<1>1. PICK n \in 0 .. MaxTokens :
          /\ Issue(n)
          /\ Store(w, [rows[Address(w)] EXCEPT !.token = KeptToken(w, n), !.expired = FALSE])
  BY DEF SaveRenewed
<1>2. issued' \in 0 .. MaxTokens /\ issued <= issued' /\ n <= issued' /\ (n # 0 => issued < n)
  BY <1>1, Issued
<1> DEFINE old == rows[Address(w)]
           new == KeptToken(w, n)
           row == [old EXCEPT !.token = new, !.expired = FALSE]
<1>3. pc[w] = "save" /\ call[w].op # "connect"
  BY DEF SaveRenewed
<1>4. Address(w) \in Addresses /\ call[w].user # None
  BY <1>3, CallFacts
<1>5. old \in Rows /\ old.user = call[w].user
  BY <1>3, <1>4, RowFacts DEF HasRow, AtRow
<1>6. new \in 0 .. MaxTokens /\ new <= issued'
  <2>1. issued' \in Nat
    BY <1>2, MaxTokensAssumption
  <2>2. draft[w].token <= issued
    BY DEF HasTokens
  <2> QED
    BY <1>2, <2>1, <2>2, DraftFacts DEF KeptToken
<1>7. Store(w, row)
  BY <1>1
<1>8. row \in Rows /\ row.user = old.user /\ row.token = new /\ row.primary = old.primary
  <2> HIDE DEF old, new
  <2> QED
    BY <1>5, <1>6, WithTokens
<1> HIDE DEF row
<1> QED
  BY <1>2, <1>5, <1>6, <1>7, <1>8

\* The invariant is kept when a connect is saved.
LEMMA SaveConnectedKeeps ==
    ASSUME Base, NEW w \in Workers, SaveConnected(w)
    PROVE  Kept(w)
<1>1. /\ pc[w] = "save" /\ app' = app /\ issued' = issued
      /\ issued' \in 0 .. MaxTokens /\ issued <= issued'
  BY MaxTokensAssumption DEF SaveConnected, Base, TypeOK
<1> QED
  BY <1>1, ConnectedRow, StoreKeeps

\* The invariant is kept when a renewed token is saved.
LEMMA SaveRenewedKeeps ==
    ASSUME Base, NEW w \in Workers, SaveRenewed(w)
    PROVE  Kept(w)
<1>1. pc[w] = "save" /\ app' = app
  BY DEF SaveRenewed
<1> QED
  BY <1>1, RenewedRow, StoreKeeps

(***************************************************************************)
(* Every step.                                                             *)
(***************************************************************************)

\* The registration of a user touches a row that nobody works on.
LEMMA RegisterKeeps ==
    ASSUME Base, NEW u \in Users, NEW a \in Addresses, Register(u, a)
    PROVE  /\ TypeOK' /\ TokensAreIssued' /\ \A v \in Workers : Elsewhere(v)
           /\ rows'[a].user = u /\ rows'[a].primary
           /\ \A b \in Addresses \ {a} : rows'[b] = rows[b]
<1>1. TypeOK /\ TokensAreIssued /\ issued \in Nat
  BY MaxTokensAssumption DEF Base, TypeOK
<1>2. /\ rows[a] = NoRow /\ lock[a] = None
      /\ UNCHANGED <<app, issued, lock, pc, call, got, draft, todo, cleared>>
      /\ \A b \in Addresses \ {a} : rows'[b] = rows[b]
  BY <1>1 DEF Register, TypeOK
<1> DEFINE new == [NoRow EXCEPT !.user = u, !.primary = TRUE]
<1>3. rows' = [rows EXCEPT ![a] = new]
  BY DEF Register
<1>4. new \in Rows /\ new.user = u /\ new.primary /\ new.token = 0
  <2> DEFINE old == NoRow
  <2>1. old \in [user : {None}, primary : BOOLEAN, token : {0}, expired : BOOLEAN]
    BY DEF NoRow
  <2>2. 0 \in 0 .. MaxTokens
    BY MaxTokensAssumption
  <2> HIDE DEF old
  <2>3. LET made == [old EXCEPT !.user = u, !.primary = TRUE]
        IN  made \in Rows /\ made.user = u /\ made.primary = TRUE /\ made.token = 0
    BY <2>1, <2>2 DEF Rows
  <2> QED
    BY <2>3 DEF old
<1> HIDE DEF new
<1>5. rows'[a] = new /\ rows' \in [Addresses -> Rows \cup {NoRow}]
  BY <1>1, <1>3, <1>4 DEF TypeOK
<1>6. TypeOK'
  BY <1>1, <1>2, <1>5 DEF TypeOK
<1>7. TokensAreIssued'
  <2>1. \A b \in Addresses \ {a} : rows'[b].token <= issued'
    BY <1>1, <1>2 DEF TokensAreIssued
  <2>2. rows'[a].token <= issued'
    BY <1>1, <1>2, <1>4, <1>5
  <2> QED
    BY <2>1, <2>2 DEF TokensAreIssued
<1>8. \A v \in Workers : Elsewhere(v)
  <2> SUFFICES ASSUME NEW v \in Workers PROVE Elsewhere(v)
    OBVIOUS
  <2>1. lock[a] # v /\ rows[a].user = None
    BY <1>2, NoneAssumption DEF NoRow
  <2> QED
    BY <1>1, <1>2, <2>1 DEF Elsewhere
<1> QED
  BY <1>2, <1>4, <1>5, <1>6, <1>7, <1>8

\* When an access token runs out its row stays otherwise as it is.
LEMMA ExpireKeeps ==
    ASSUME Base, NEW a \in Addresses, Expire(a)
    PROVE  /\ TypeOK' /\ TokensAreIssued' /\ \A v \in Workers : Elsewhere(v)
           /\ \A b \in Addresses :
                 /\ rows'[b].user = rows[b].user
                 /\ rows'[b].primary = rows[b].primary
                 /\ rows'[b].token = rows[b].token
<1>1. TypeOK /\ TokensAreIssued /\ issued \in Nat
  BY MaxTokensAssumption DEF Base, TypeOK
<1>2. /\ rows[a].token # 0
      /\ UNCHANGED <<app, issued, lock, pc, call, got, draft, todo, cleared>>
  BY DEF Expire
<1> DEFINE old == rows[a]
           new == [old EXCEPT !.expired = TRUE]
<1>3. old \in Rows
  <2>1. rows[a] \in Rows \cup {NoRow}
    BY <1>1, RowFacts
  <2>2. NoRow.token = 0
    BY DEF NoRow
  <2> QED
    BY <1>2, <2>1, <2>2
<1>4. rows'[a] = new /\ \A b \in Addresses \ {a} : rows'[b] = rows[b]
  BY <1>1 DEF Expire, TypeOK
<1>5. /\ new \in Rows /\ new.user = old.user /\ new.token = old.token
      /\ new.primary = old.primary
  <2> HIDE DEF old
  <2> QED
    BY <1>3, WithExpired
<1>6. rows' \in [Addresses -> Rows \cup {NoRow}]
  <2>1. rows' = [rows EXCEPT ![a] = new]
    BY DEF Expire
  <2> HIDE DEF new
  <2> QED
    BY <1>1, <1>5, <2>1 DEF TypeOK
<1> HIDE DEF new
<1>7. \A b \in Addresses :
          /\ rows'[b].user = rows[b].user
          /\ rows'[b].primary = rows[b].primary
          /\ rows'[b].token = rows[b].token
  BY <1>4, <1>5
<1>8. TypeOK'
  BY <1>1, <1>2, <1>6 DEF TypeOK
<1>9. TokensAreIssued'
  BY <1>1, <1>2, <1>7 DEF TokensAreIssued
<1>10. \A v \in Workers : Elsewhere(v)
  BY <1>1, <1>2, <1>7 DEF Elsewhere
<1> QED
  BY <1>7, <1>8, <1>9, <1>10

WorkerStep(w) ==
    \/ \E c \in Calls : Start(w, c)
    \/ Exchange(w) \/ Lock(w) \/ Read(w)
    \/ StartClear(w) \/ (\E a \in Addresses : Clear(w, a)) \/ Cleared(w)
    \/ LookForPrimary(w)
    \/ SaveConnected(w) \/ SaveRenewed(w) \/ SyncAsIs(w) \/ Rollback(w)

\* The invariant is kept by every step of a worker.
LEMMA WorkerKeeps ==
    ASSUME Base, NEW w \in Workers, WorkerStep(w)
    PROVE  Kept(w)
<1>1. ASSUME NEW c \in Calls, Start(w, c) PROVE Kept(w)
  BY <1>1, StartKeeps
<1>2. CASE Exchange(w)
  BY <1>2, ExchangeKeeps
<1>3. CASE Lock(w)
  BY <1>3, LockKeeps
<1>4. CASE Read(w)
  BY <1>4, ReadKeeps
<1>5. CASE StartClear(w)
  BY <1>5, StartClearKeeps
<1>6. ASSUME NEW a \in Addresses, Clear(w, a) PROVE Kept(w)
  BY <1>6, ClearKeeps
<1>7. CASE Cleared(w)
  BY <1>7, ClearedKeeps
<1>8. CASE LookForPrimary(w)
  BY <1>8, LookForPrimaryKeeps
<1>9. CASE SaveConnected(w)
  BY <1>9, SaveConnectedKeeps
<1>10. CASE SaveRenewed(w)
  BY <1>10, SaveRenewedKeeps
<1>11. CASE SyncAsIs(w)
  BY <1>11, LeaveKeeps DEF SyncAsIs
<1>12. CASE Rollback(w)
  BY <1>12, LeaveKeeps DEF Rollback
<1> QED
  BY <1>1, <1>2, <1>3, <1>4, <1>5, <1>6, <1>7, <1>8, <1>9, <1>10, <1>11, <1>12 DEF WorkerStep

\* The steps of the system: a registration, an expiry, or a step of a worker.
LEMMA NextSteps ==
    Next <=> \/ \E u \in Users, a \in Addresses : Register(u, a)
             \/ \E a \in Addresses : Expire(a)
             \/ \E w \in Workers : WorkerStep(w)
BY DEF Next, WorkerStep

\* The invariant holds when there are no accounts.
LEMMA BaseInit == Init => Base
<1> SUFFICES ASSUME Init PROVE Base
  OBVIOUS
<1>1. /\ 0 \in 0 .. MaxTokens /\ "idle" \in Steps /\ NoRow.token = 0
  BY MaxTokensAssumption DEF Steps, NoRow
<1>2. TypeOK
  BY <1>1 DEF Init, TypeOK
<1>3. TokensAreIssued
  BY <1>1 DEF Init, TokensAreIssued
<1>4. WorkersWork
  <2> SUFFICES ASSUME NEW w \in Workers PROVE Working(w)
    BY DEF WorkersWork
  <2>1. /\ pc[w] = "idle" /\ todo[w] = {} /\ cleared[w] = {}
        /\ got[w] = 0 /\ draft[w].token = 0 /\ issued = 0
    BY <1>1 DEF Init
  <2>2. ServesCall(w) /\ HasRow(w) /\ Unmarks(w) /\ KeepsPrimary(w)
    BY <2>1 DEF ServesCall, HasRow, Unmarks, KeepsPrimary, AtRow
  <2>3. HasTokens(w)
    BY <2>1 DEF HasTokens, AtRow
  <2> QED
    BY <2>2, <2>3 DEF Working
<1> QED
  BY <1>2, <1>3, <1>4 DEF Base

\* Every step keeps the invariant.
LEMMA BaseNext == Base /\ [Next]_vars => Base'
<1> SUFFICES ASSUME Base, [Next]_vars PROVE Base'
  OBVIOUS
<1>1. ASSUME TypeOK', NEW v \in Workers, Elsewhere(v) PROVE Working(v)'
  BY <1>1, OtherWorks, BaseFacts
<1>2. ASSUME NEW u \in Users, NEW a \in Addresses, Register(u, a) PROVE Base'
  BY <1>1, <1>2, RegisterKeeps DEF Base, WorkersWork
<1>3. ASSUME NEW a \in Addresses, Expire(a) PROVE Base'
  BY <1>1, <1>3, ExpireKeeps DEF Base, WorkersWork
<1>4. ASSUME NEW w \in Workers, WorkerStep(w) PROVE Base'
  <2>1. Kept(w)
    BY <1>4, WorkerKeeps
  <2>2. \A v \in Workers : Working(v)'
    BY <1>1, <2>1 DEF Kept
  <2> QED
    BY <2>1, <2>2 DEF Kept, Base, WorkersWork
<1>5. CASE UNCHANGED vars
  <2>1. \A v \in Workers : Working(v)'
    BY <1>5 DEF Base, WorkersWork, vars, Working, ServesCall, HasRow, HasTokens, Unmarks,
                KeepsPrimary, Address
  <2> QED
    BY <1>5, <2>1 DEF Base, WorkersWork, TypeOK, TokensAreIssued, vars
<1> QED
  BY <1>2, <1>3, <1>4, <1>5, NextSteps

(***************************************************************************)
(* The primary accounts.                                                   *)
(***************************************************************************)

\* Of the user's other primary accounts those that were unmarked lose the mark when a
\* row is saved; those of other users keep it.
LEMMA SavedPrimaries ==
    ASSUME Base, NEW w \in Workers, pc[w] = "save", NEW row \in Rows,
           row.user = call[w].user, Store(w, row), NEW u \in Users
    PROVE  /\ u # call[w].user => Primaries(u)' = Primaries(u)
           /\ u = call[w].user =>
                 /\ \A a \in Addresses \ {Address(w)} :
                       a \in Primaries(u)' <=> a \in Primaries(u) /\ a \notin cleared[w]
                 /\ Address(w) \in Primaries(u)' <=> row.primary
<1> USE BaseFacts
<1>1. Address(w) \in Addresses /\ call[w].user # None
  BY CallFacts
<1>2. /\ rows'[Address(w)] = row
      /\ \A a \in Addresses \ {Address(w)} :
            /\ rows'[a].user = rows[a].user
            /\ rows'[a].primary <=> rows[a].primary /\ a \notin cleared[w]
  BY StoredRows
<1>3. ASSUME u # call[w].user PROVE Primaries(u)' = Primaries(u)
  <2>1. rows[Address(w)].user # u
    BY <1>3, NoneAssumption DEF HasRow, AtRow
  <2>2. \A a \in cleared[w] : rows[a].user # u
    BY <1>3 DEF Unmarks
  <2>3. \A a \in Addresses : a \in Primaries(u)' <=> a \in Primaries(u)
    BY <1>2, <1>3, <2>1, <2>2 DEF Primaries
  <2> QED
    BY <2>3 DEF Primaries
<1>4. ASSUME u = call[w].user
      PROVE  /\ \A a \in Addresses \ {Address(w)} :
                   a \in Primaries(u)' <=> a \in Primaries(u) /\ a \notin cleared[w]
             /\ Address(w) \in Primaries(u)' <=> row.primary
  BY <1>1, <1>2, <1>4 DEF Primaries
<1> QED
  BY <1>3, <1>4

\* In the accounts app another worker's step leaves alone what a worker promotes.
LEMMA OthersPromote ==
    ASSUME Base, app = "accounts", NEW v \in Workers, Elsewhere(v), NEW u \in Users
    PROVE  Promotes(v, u)' => Promotes(v, u)
<1> SUFFICES ASSUME Promotes(v, u)' PROVE Promotes(v, u)
  OBVIOUS
<1>1. /\ pc[v] \in {"clear", "save"} /\ call[v].op = "connect" /\ call[v].user = u
      /\ draft[v].primary /\ Address(v)' = Address(v) /\ ~rows'[Address(v)].primary
  BY DEF Promotes, Elsewhere, Address
<1>2. Address(v) \in Addresses
  BY <1>1, CallFacts, BaseFacts
<1>3. rows'[Address(v)].primary = rows[Address(v)].primary
  BY <1>1, <1>2, BaseFacts DEF HasRow, AtRow, Elsewhere
<1> QED
  BY <1>1, <1>3 DEF Promotes

\* An injection is one on any part of its domain.
LEMMA Restricted ==
    ASSUME NEW S, NEW T, NEW f \in Injection(S, T), NEW R \in SUBSET S
    PROVE  [x \in R |-> f[x]] \in Injection(R, T)
BY DEF Injection, IsInjective

\* Worker w still unmarks what it was to unmark, or begins to.
PromisesKept(w) ==
    app = "accounts" =>
        \A u \in Users : \A a \in Primaries(u)' :
            Promotes(w, u)' =>
                \/ a \in todo'[w] \cup cleared'[w]
                \/ Promotes(w, u) /\ a \notin todo[w] \cup cleared[w]

\* What primary accounts are laid to stays as it is while there are no new ones.
LEMMA LaidStays ==
    ASSUME Base, PrimariesAreLaid, app' = app,
           \A u \in Users : Primaries(u)' \subseteq Primaries(u),
           NEW w \in Workers, \A v \in Workers \ {w} : Elsewhere(v), PromisesKept(w)
    PROVE  PrimariesAreLaid'
<1> SUFFICES ASSUME app = "accounts", NEW u \in Users
             PROVE  (\E owner \in Injection(Primaries(u), Workers) : LaidTo(owner, u))'
  BY DEF PrimariesAreLaid
<1>1. PICK f : f \in Injection(Primaries(u), Workers) /\ LaidTo(f, u)
  BY DEF PrimariesAreLaid
<1> DEFINE R == Primaries(u)'
<1>2. R \subseteq Primaries(u)
  OBVIOUS
<1>3. PICK g \in Injection(R, Workers) : \A a \in R : g[a] = f[a]
  <2> DEFINE h == [a \in R |-> f[a]]
  <2>1. h \in Injection(R, Workers)
    <3> HIDE DEF R
    <3> QED
      BY <1>1, <1>2, Restricted
  <2>2. \A a \in R : h[a] = f[a]
    OBVIOUS
  <2> HIDE DEF h
  <2> QED
    BY <2>1, <2>2
<1>4. ASSUME NEW v \in Workers, NEW a \in R, Promotes(v, u)', g[a] = v
      PROVE  a \in todo'[v] \cup cleared'[v]
  <2>1. a \in Primaries(u) /\ f[a] = v
    BY <1>2, <1>3, <1>4
  <2>2. Promotes(v, u) => a \in todo[v] \cup cleared[v]
    BY <1>1, <2>1 DEF LaidTo
  <2>3. CASE v = w
    BY <1>4, <2>2, <2>3 DEF PromisesKept
  <2>4. CASE v # w
    <3>1. Promotes(v, u) /\ Elsewhere(v)
      BY <1>4, <2>4, OthersPromote
    <3> QED
      BY <2>2, <3>1 DEF Elsewhere
  <2> QED
    BY <2>3, <2>4
<1>5. LaidTo(g, u)'
  BY <1>3, <1>4 DEF LaidTo
<1> QED
  BY <1>3, <1>5

\* The steps that only bring a call nearer to its save, or end it without one.
LEMMA WorkerPromises ==
    ASSUME Base, NEW w \in Workers, WorkerStep(w)
    PROVE  PromisesKept(w)
<1> SUFFICES ASSUME app = "accounts", NEW u \in Users, NEW a \in Primaries(u)', Promotes(w, u)'
             PROVE  \/ a \in todo'[w] \cup cleared'[w]
                    \/ Promotes(w, u) /\ a \notin todo[w] \cup cleared[w]
  BY DEF PromisesKept
<1> USE BaseFacts
<1>1. pc'[w] \in {"clear", "save"} /\ call'[w].op = "connect" /\ draft'[w].primary
      /\ ~rows'[Address(w)'].primary /\ call'[w].user = u
  BY DEF Promotes
<1>2. ASSUME NEW c \in Calls, Start(w, c) PROVE FALSE
  BY <1>1, <1>2 DEF Start, Goto, TypeOK
<1>3. CASE Exchange(w)
  BY <1>1, <1>3 DEF Exchange, Goto, TypeOK
<1>4. CASE Lock(w)
  BY <1>1, <1>4 DEF Lock, Goto, TypeOK
<1>5. CASE Read(w)
  BY <1>5 DEF Read, ServesCall
<1>6. CASE StartClear(w)
  <2>1. todo'[w] = Primaries(call[w].user) \ {Address(w)} /\ call' = call /\ rows' = rows
    BY <1>6 DEF StartClear, TypeOK
  <2>2. a # Address(w) /\ a \in Primaries(u)
    BY <1>1, <2>1 DEF Address, Primaries
  <2> QED
    BY <1>1, <2>1, <2>2
<1>7. ASSUME NEW b \in Addresses, Clear(w, b)
      PROVE  \/ a \in todo'[w] \cup cleared'[w]
             \/ Promotes(w, u) /\ a \notin todo[w] \cup cleared[w]
  <2>1. /\ UNCHANGED <<rows, pc, call, draft>> /\ todo'[w] = todo[w] \ {b}
        /\ rows[b].primary => cleared'[w] = cleared[w] \cup {b}
        /\ ~rows[b].primary => cleared'[w] = cleared[w]
    BY <1>7 DEF Clear, TypeOK
  <2>2. Promotes(w, u) /\ rows[a].primary
    BY <2>1 DEF Promotes, Address, Primaries
  <2> QED
    BY <2>1, <2>2
<1>8. CASE Cleared(w)
  <2>1. /\ UNCHANGED <<rows, call, draft, todo, cleared>> /\ pc[w] = "clear"
    BY <1>8 DEF Cleared
  <2>2. Promotes(w, u)
    BY <2>1 DEF Promotes, Address
  <2> QED
    BY <2>1, <2>2
<1>9. CASE LookForPrimary(w)
  <2> DEFINE leading == draft[w].primary \/ Leads(w)
  <2>1. /\ pc[w] = "primary" /\ UNCHANGED <<rows, call, app>>
        /\ draft' = [draft EXCEPT ![w].primary = leading]
    BY <1>9 DEF LookForPrimary
  <2>2. /\ leading \in BOOLEAN /\ (leading <=> draft[w].primary \/ Leads(w))
        /\ pc[w] \in AtRow
    BY <2>1 DEF AtRow
  <2>3. draft'[w].primary = leading
    <3> HIDE DEF leading
    <3> QED
      BY <2>1, <2>2, MarkedDraft
  <2> HIDE DEF leading
  <2>4. ~rows[Address(w)].primary
    BY <1>1, <2>1 DEF Address
  <2>5. Leads(w)
    BY <1>1, <2>1, <2>2, <2>3, <2>4 DEF KeepsPrimary
  <2>6. a = Address(w) /\ rows[a].primary
    BY <1>1, <2>1, <2>5 DEF Leads, Primaries
  <2> QED
    BY <2>4, <2>6
<1>10. CASE SaveConnected(w)
  BY <1>1, <1>10, LeaveFacts DEF SaveConnected, Store
<1>11. CASE SaveRenewed(w)
  BY <1>1, <1>11, LeaveFacts DEF SaveRenewed, Store
<1>12. CASE SyncAsIs(w)
  BY <1>1, <1>12, LeaveFacts DEF SyncAsIs
<1>13. CASE Rollback(w)
  BY <1>1, <1>13, LeaveFacts DEF Rollback
<1> QED
  BY <1>2, <1>3, <1>4, <1>5, <1>6, <1>7, <1>8, <1>9, <1>10, <1>11, <1>12, <1>13 DEF WorkerStep

\* What does not save a row changes none, and no step changes the app.
LEMMA UnsavedRows ==
    ASSUME NEW w \in Workers, WorkerStep(w)
    PROVE  app' = app /\ (rows' = rows \/ SaveConnected(w) \/ SaveRenewed(w))
BY DEF WorkerStep, Start, Exchange, Lock, Read, StartClear, Clear, Cleared, LookForPrimary,
       SaveConnected, SaveRenewed, SyncAsIs, Rollback

\* A row that is saved without a mark leaves the user another one.
LEMMA SavedHavePrimaries ==
    ASSUME Base, app = "accounts", UsersHavePrimaries, NEW w \in Workers, pc[w] = "save",
           NEW row \in Rows, row.user = call[w].user, Store(w, row),
           ~row.primary => /\ cleared[w] = {} /\ ~rows[Address(w)].primary
                           /\ \E a \in Addresses : rows[a].user = call[w].user
    PROVE  UsersHavePrimaries'
<1> SUFFICES ASSUME NEW u \in Users, \E a \in Addresses : rows'[a].user = u
             PROVE  Primaries(u)' # {}
  BY DEF UsersHavePrimaries
<1>1. Address(w) \in Addresses
  BY CallFacts, BaseFacts
<1>2. CASE u # call[w].user
  <2>1. rows'[Address(w)] = row
        /\ \A a \in Addresses \ {Address(w)} : rows'[a].user = rows[a].user
    BY StoredRows
  <2>2. \E a \in Addresses : rows[a].user = u
    BY <1>2, <2>1
  <2>3. Primaries(u) # {}
    BY <2>2 DEF UsersHavePrimaries
  <2> QED
    BY <1>2, <2>3, SavedPrimaries
<1>3. CASE u = call[w].user /\ row.primary
  BY <1>3, SavedPrimaries
<1>4. CASE u = call[w].user /\ ~row.primary
  <2>1. PICK a \in Addresses : a \in Primaries(u)
    BY <1>4 DEF UsersHavePrimaries, Primaries
  <2>2. a # Address(w) /\ cleared[w] = {}
    BY <1>4, <2>1 DEF Primaries
  <2>3. a \in Primaries(u)'
    BY <1>4, <2>1, <2>2, SavedPrimaries
  <2> QED
    BY <2>3
<1> QED
  BY <1>2, <1>3, <1>4

\* No new primary account comes of a row that has its mark already, or gets none.
LEMMA NoNewPrimaries ==
    ASSUME Base, NEW w \in Workers, pc[w] = "save",
           NEW row \in Rows, row.user = call[w].user, Store(w, row),
           row.primary => rows[Address(w)].primary, NEW u \in Users
    PROVE  Primaries(u)' \subseteq Primaries(u)
<1>1. Address(w) \in Addresses
  BY CallFacts, BaseFacts
<1>2. rows[Address(w)].primary => rows[Address(w)].user = call[w].user
  <2>1. rows[Address(w)].user = None => rows[Address(w)] = NoRow
    BY <1>1, RowFacts, BaseFacts
  <2>2. ~NoRow.primary
    BY DEF NoRow
  <2> QED
    BY <2>1, <2>2, BaseFacts DEF HasRow, AtRow
<1>3. CASE u # call[w].user
  BY <1>3, SavedPrimaries
<1>4. CASE u = call[w].user
  <2>1. ASSUME NEW a \in Primaries(u)' PROVE a \in Primaries(u)
    <3>1. a \in Addresses
      BY DEF Primaries
    <3>2. CASE a = Address(w)
      <4>1. row.primary
        BY <1>4, <3>2, SavedPrimaries
      <4> QED
        BY <1>1, <1>2, <1>4, <3>2, <4>1 DEF Primaries
    <3>3. CASE a # Address(w)
      BY <1>4, <3>1, <3>3, SavedPrimaries
    <3> QED
      BY <3>2, <3>3
  <2> QED
    BY <2>1
<1> QED
  BY <1>3, <1>4

\* An account that becomes primary is laid to the worker that promotes it: what was laid
\* to that worker it has unmarked.
LEMMA PromotedAreLaid ==
    ASSUME Base, app = "accounts", app' = app, PrimariesAreLaid, NEW w \in Workers,
           SaveConnected(w), draft[w].primary, ~rows[Address(w)].primary
    PROVE  PrimariesAreLaid'
<1> SUFFICES ASSUME NEW u \in Users
             PROVE  (\E owner \in Injection(Primaries(u), Workers) : LaidTo(owner, u))'
  BY DEF PrimariesAreLaid
<1> USE BaseFacts
<1>1. PICK row \in Rows : /\ row.user = call[w].user
                          /\ row.primary = draft[w].primary
                          /\ Store(w, row)
  BY ConnectedRow
<1>2. /\ pc[w] = "save" /\ call[w].op = "connect" /\ Kept(w) /\ pc'[w] = "idle"
      /\ todo[w] = {}
  BY <1>1, SaveConnectedKeeps, LeaveFacts DEF SaveConnected, Store, Unmarks
<1>3. PICK f : f \in Injection(Primaries(u), Workers) /\ LaidTo(f, u)
  BY DEF PrimariesAreLaid
<1>4. ASSUME NEW v \in Workers, Promotes(v, u)'
      PROVE  /\ v # w
             /\ \A a \in Primaries(u) : f[a] = v => a \in todo'[v] \cup cleared'[v]
  <2>1. v # w
    BY <1>2, <1>4 DEF Promotes
  <2>2. Elsewhere(v) /\ Promotes(v, u)
    BY <1>2, <1>4, <2>1, OthersPromote DEF Kept
  <2> QED
    BY <1>3, <2>1, <2>2 DEF LaidTo, Elsewhere
<1>5. CASE u # call[w].user
  <2>1. Primaries(u)' = Primaries(u)
    BY <1>1, <1>2, <1>5, SavedPrimaries
  <2>2. LaidTo(f, u)'
    BY <1>3, <1>4, <2>1 DEF LaidTo
  <2> QED
    BY <1>3, <2>1, <2>2
<1>6. CASE u = call[w].user
  <2> DEFINE S == Primaries(u)
             R == Primaries(u)'
             h == [a \in R |-> IF a = Address(w) THEN w ELSE f[a]]
  <2>1. ASSUME NEW a \in R, a # Address(w) PROVE a \in S /\ f[a] \in Workers /\ f[a] # w
    <3>1. a \in Addresses
      BY DEF Primaries
    <3>2. a \in S /\ a \notin cleared[w]
      BY <1>1, <1>2, <1>6, <2>1, <3>1, SavedPrimaries
    <3>3. Promotes(w, u)
      BY <1>2, <1>6 DEF Promotes
    <3>4. f[a] # w
      BY <1>2, <1>3, <3>2, <3>3 DEF LaidTo
    <3> QED
      BY <1>3, <3>2, <3>4 DEF Injection
  <2>2. \A a, b \in S : f[a] = f[b] => a = b
    BY <1>3 DEF Injection, IsInjective
  <2>3. PICK g \in Injection(R, Workers) :
            \A a \in R : g[a] = IF a = Address(w) THEN w ELSE f[a]
    <3>1. \A a \in R : h[a] = IF a = Address(w) THEN w ELSE f[a]
      OBVIOUS
    <3>2. h \in [R -> Workers]
      BY <2>1
    <3>3. DOMAIN h = R
      OBVIOUS
    <3> HIDE DEF h, R, S
    <3>4. \A a, b \in R : h[a] = h[b] => a = b
      BY <2>1, <2>2, <3>1
    <3>5. h \in Injection(R, Workers)
      BY <3>2, <3>3, <3>4 DEF Injection, IsInjective
    <3> QED
      BY <3>1, <3>5
  <2>4. ASSUME NEW v \in Workers, NEW a \in R, Promotes(v, u)', g[a] = v
        PROVE  a \in todo'[v] \cup cleared'[v]
    <3>1. v # w
      BY <1>4, <2>4
    <3>2. a # Address(w) /\ f[a] = v
      BY <2>3, <2>4, <3>1
    <3> QED
      BY <1>4, <2>1, <2>4, <3>2
  <2>5. LaidTo(g, u)'
    BY <2>3, <2>4 DEF LaidTo
  <2> QED
    BY <2>3, <2>5
<1> QED
  BY <1>5, <1>6

\* The primary accounts can be laid to workers after a worker's step, too.
LEMMA WorkerLays ==
    ASSUME Base, UsersHavePrimaries, PrimariesAreLaid, NEW w \in Workers, WorkerStep(w)
    PROVE  UsersHavePrimaries' /\ PrimariesAreLaid'
<1> USE BaseFacts
<1>1. Kept(w) /\ PromisesKept(w) /\ app' = app
  BY WorkerKeeps, WorkerPromises, UnsavedRows
<1>2. \A v \in Workers \ {w} : Elsewhere(v)
  BY <1>1 DEF Kept
<1>3. ASSUME \A u \in Users : Primaries(u)' \subseteq Primaries(u) PROVE PrimariesAreLaid'
  BY <1>1, <1>2, <1>3, LaidStays
<1>4. CASE app # "accounts"
  BY <1>1, <1>4 DEF UsersHavePrimaries, PrimariesAreLaid
<1>5. CASE rows' = rows
  <2>1. \A u \in Users : Primaries(u)' = Primaries(u)
    BY <1>5 DEF Primaries
  <2>2. UsersHavePrimaries'
    BY <1>1, <1>5, <2>1 DEF UsersHavePrimaries
  <2> QED
    BY <1>3, <2>1, <2>2
<1>6. CASE app = "accounts" /\ SaveConnected(w)
  <2>1. PICK row \in Rows : /\ row.user = call[w].user
                            /\ row.primary = draft[w].primary
                            /\ Store(w, row)
    BY <1>6, ConnectedRow
  <2>2. pc[w] = "save"
    BY <1>6 DEF SaveConnected
  <2>3. ~draft[w].primary => /\ cleared[w] = {} /\ ~rows[Address(w)].primary
                             /\ \E a \in Addresses : rows[a].user = call[w].user
    BY <1>6, <2>2 DEF Unmarks, KeepsPrimary, AtRow
  <2>4. UsersHavePrimaries'
    BY <1>6, <2>1, <2>2, <2>3, SavedHavePrimaries
  <2>5. CASE draft[w].primary /\ ~rows[Address(w)].primary
    BY <1>1, <1>6, <2>4, <2>5, PromotedAreLaid
  <2>6. CASE draft[w].primary => rows[Address(w)].primary
    <3>1. \A u \in Users : Primaries(u)' \subseteq Primaries(u)
      BY <2>1, <2>2, <2>6, NoNewPrimaries
    <3> QED
      BY <1>3, <2>4, <3>1
  <2> QED
    BY <2>5, <2>6
<1>7. CASE app = "accounts" /\ SaveRenewed(w)
  <2>1. PICK row \in Rows : /\ row.user = call[w].user
                            /\ row.primary = rows[Address(w)].primary
                            /\ Store(w, row)
    BY <1>7, RenewedRow
  <2>2. pc[w] = "save" /\ call[w].op # "connect"
    BY <1>7 DEF SaveRenewed
  <2>3. cleared[w] = {} /\ \E a \in Addresses : rows[a].user = call[w].user
    BY <2>2, CallFacts DEF Unmarks, HasRow, AtRow
  <2>4. UsersHavePrimaries'
    BY <1>7, <2>1, <2>2, <2>3, SavedHavePrimaries
  <2>5. \A u \in Users : Primaries(u)' \subseteq Primaries(u)
    BY <2>1, <2>2, NoNewPrimaries
  <2> QED
    BY <1>3, <2>4, <2>5
<1> QED
  BY <1>4, <1>5, <1>6, <1>7, UnsavedRows

\* An assignment still serves a user whose primary accounts do not change.
LEMMA UntouchedAreLaid ==
    ASSUME Base, app = "accounts", PrimariesAreLaid, \A v \in Workers : Elsewhere(v),
           NEW u \in Users, Primaries(u)' = Primaries(u)
    PROVE  (\E owner \in Injection(Primaries(u), Workers) : LaidTo(owner, u))'
<1>1. PICK f : f \in Injection(Primaries(u), Workers) /\ LaidTo(f, u)
  BY DEF PrimariesAreLaid
<1>2. ASSUME NEW v \in Workers, NEW a \in Primaries(u), Promotes(v, u)', f[a] = v
      PROVE  a \in todo'[v] \cup cleared'[v]
  <2>1. Promotes(v, u)
    BY <1>2, OthersPromote
  <2> QED
    BY <1>1, <1>2, <2>1 DEF LaidTo, Elsewhere
<1>3. LaidTo(f, u)'
  BY <1>1, <1>2 DEF LaidTo
<1> QED
  BY <1>1, <1>3

\* The primary account of a registration is its user's first.
LEMMA RegisterLays ==
    ASSUME Base, UsersHavePrimaries, PrimariesAreLaid, NEW n \in Users, NEW b \in Addresses,
           Register(n, b)
    PROVE  UsersHavePrimaries' /\ PrimariesAreLaid'
<1>1. /\ app = "accounts" /\ app' = app /\ rows[b] = NoRow
      /\ \A a \in Addresses : rows[a].user # n
      /\ \A w \in Workers : call[w] # None => call[w].user # n
  BY DEF Register
<1>2. /\ \A v \in Workers : Elsewhere(v)
      /\ rows'[b].user = n /\ rows'[b].primary
      /\ \A a \in Addresses \ {b} : rows'[a] = rows[a]
  BY RegisterKeeps
<1>3. ASSUME NEW u \in Users, u # n PROVE Primaries(u)' = Primaries(u)
  <2>1. rows[b].user # u
    BY <1>1, NoneAssumption DEF NoRow
  <2>2. \A a \in Addresses : a \in Primaries(u)' <=> a \in Primaries(u)
    BY <1>2, <1>3, <2>1 DEF Primaries
  <2> QED
    BY <2>2 DEF Primaries
<1>4. Primaries(n)' = {b}
  <2>1. \A a \in Addresses : a \in Primaries(n)' <=> a = b
    BY <1>1, <1>2 DEF Primaries
  <2> QED
    BY <2>1 DEF Primaries
<1>5. UsersHavePrimaries'
  <2> SUFFICES ASSUME NEW u \in Users, \E a \in Addresses : rows'[a].user = u
               PROVE  Primaries(u)' # {}
    BY DEF UsersHavePrimaries
  <2>1. CASE u = n
    BY <1>4, <2>1
  <2>2. CASE u # n
    <3>1. \E a \in Addresses : rows[a].user = u
      BY <1>2, <2>2
    <3> QED
      BY <1>1, <1>3, <2>2, <3>1 DEF UsersHavePrimaries
  <2> QED
    BY <2>1, <2>2
<1>6. PrimariesAreLaid'
  <2> SUFFICES ASSUME NEW u \in Users
               PROVE  (\E owner \in Injection(Primaries(u), Workers) : LaidTo(owner, u))'
    BY DEF PrimariesAreLaid
  <2>1. CASE u # n
    BY <1>1, <1>2, <1>3, <2>1, UntouchedAreLaid
  <2>2. CASE u = n
    <3>1. PICK w : w \in Workers
      BY WorkersAssumption
    <3>2. PICK g : g \in Injection({b}, Workers)
      <4> DEFINE h == [a \in {b} |-> w]
      <4>1. h \in Injection({b}, Workers)
        BY <3>1 DEF Injection, IsInjective
      <4> HIDE DEF h
      <4> QED
        BY <4>1
    <3>3. ASSUME NEW v \in Workers, Promotes(v, u)' PROVE FALSE
      <4>1. Promotes(v, u)
        BY <1>1, <1>2, <3>3, OthersPromote
      <4>2. pc[v] # "idle" /\ call[v].user = n
        BY <2>2, <4>1 DEF Promotes
      <4> QED
        BY <1>1, <4>2, CallFacts, BaseFacts
    <3>4. LaidTo(g, u)'
      BY <1>4, <2>2, <3>2, <3>3 DEF LaidTo
    <3> QED
      BY <1>4, <2>2, <3>2, <3>4
  <2> QED
    BY <2>1, <2>2
<1> QED
  BY <1>5, <1>6

\* An expiry changes no primary flag.
LEMMA ExpireLays ==
    ASSUME Base, UsersHavePrimaries, PrimariesAreLaid, NEW b \in Addresses, Expire(b)
    PROVE  UsersHavePrimaries' /\ PrimariesAreLaid'
<1>1. /\ app' = app /\ \A v \in Workers : Elsewhere(v)
      /\ \A a \in Addresses :
            rows'[a].user = rows[a].user /\ rows'[a].primary = rows[a].primary
  BY ExpireKeeps DEF Expire
<1>2. \A u \in Users : Primaries(u)' = Primaries(u)
  BY <1>1 DEF Primaries
<1>3. UsersHavePrimaries'
  BY <1>1, <1>2 DEF UsersHavePrimaries
<1>4. app = "accounts" => \A u \in Users :
          (\E owner \in Injection(Primaries(u), Workers) : LaidTo(owner, u))'
  BY <1>1, <1>2, UntouchedAreLaid
<1> QED
  BY <1>1, <1>3, <1>4 DEF PrimariesAreLaid

\* The invariant, with the assignments, holds when there are no accounts.
LEMMA InvInit == Init => AccountsInv
<1> SUFFICES ASSUME Init PROVE AccountsInv
  OBVIOUS
<1>1. Base
  BY BaseInit
<1>2. \A a \in Addresses : rows[a].user = None /\ ~rows[a].primary
  BY DEF Init, NoRow
<1>3. \A u \in Users : Primaries(u) = {}
  BY <1>2 DEF Primaries
<1>4. UsersHavePrimaries
  BY <1>2, NoneAssumption DEF UsersHavePrimaries
<1>5. PrimariesAreLaid
  <2> DEFINE f == [a \in {} |-> CHOOSE w \in Workers : TRUE]
  <2>1. f \in Injection({}, Workers)
    BY DEF Injection, IsInjective
  <2> HIDE DEF f
  <2>2. \A u \in Users : f \in Injection(Primaries(u), Workers) /\ LaidTo(f, u)
    BY <1>3, <2>1 DEF LaidTo
  <2> QED
    BY <2>2 DEF PrimariesAreLaid
<1> QED
  BY <1>1, <1>4, <1>5 DEF AccountsInv, Base

\* Every step keeps the invariant with the assignments.
LEMMA InvNext == AccountsInv /\ [Next]_vars => AccountsInv'
<1> SUFFICES ASSUME AccountsInv, [Next]_vars PROVE AccountsInv'
  OBVIOUS
<1>1. Base /\ UsersHavePrimaries /\ PrimariesAreLaid
  BY DEF AccountsInv, Base
<1>2. Base'
  BY <1>1, BaseNext
<1>3. ASSUME NEW u \in Users, NEW a \in Addresses, Register(u, a)
      PROVE  UsersHavePrimaries' /\ PrimariesAreLaid'
  BY <1>1, <1>3, RegisterLays
<1>4. ASSUME NEW a \in Addresses, Expire(a)
      PROVE  UsersHavePrimaries' /\ PrimariesAreLaid'
  BY <1>1, <1>4, ExpireLays
<1>5. ASSUME NEW w \in Workers, WorkerStep(w)
      PROVE  UsersHavePrimaries' /\ PrimariesAreLaid'
  BY <1>1, <1>5, WorkerLays
<1>6. ASSUME UNCHANGED vars PROVE UsersHavePrimaries' /\ PrimariesAreLaid'
  <2>1. \A u \in Users : Primaries(u)' = Primaries(u)
    BY <1>6 DEF Primaries, vars
  <2>2. \A v \in Workers : Elsewhere(v)
    BY <1>1, <1>6, MaxTokensAssumption DEF Elsewhere, vars, Base, TypeOK
  <2>3. app = "accounts" => \A u \in Users :
            (\E owner \in Injection(Primaries(u), Workers) : LaidTo(owner, u))'
    BY <1>1, <2>1, <2>2, UntouchedAreLaid
  <2>4. PrimariesAreLaid'
    BY <1>6, <2>3 DEF PrimariesAreLaid, vars
  <2>5. UsersHavePrimaries'
    BY <1>1, <1>6, <2>1 DEF UsersHavePrimaries, vars
  <2> QED
    BY <2>4, <2>5
<1>7. UsersHavePrimaries' /\ PrimariesAreLaid'
  BY <1>3, <1>4, <1>5, <1>6, NextSteps
<1> QED
  BY <1>2, <1>7 DEF AccountsInv, Base

\* The invariant holds in every reachable state.
LEMMA Invariance == Spec => []AccountsInv
BY InvInit, InvNext, PTL DEF Spec

(***************************************************************************)
(* The theorems.                                                           *)
(***************************************************************************)

\* Rows, calls, tokens and locks are what they are declared to be, in both apps.
THEOREM TypeCorrect == Spec => []TypeOK
<1>1. AccountsInv => TypeOK
  BY DEF AccountsInv
<1> QED
  BY <1>1, Invariance, PTL

\* In the accounts app a user with Gmail accounts has a primary one, and never more than
\* there are workers, as each can be laid to a worker of its own.
THEOREM PrimariesCorrect == Spec => []PrimariesAreBounded
<1>1. ASSUME AccountsInv PROVE PrimariesAreBounded
  <2> SUFFICES ASSUME app = "accounts", NEW u \in Users, \E a \in Addresses : rows[a].user = u
               PROVE  Cardinality(Primaries(u)) \in 1 .. Cardinality(Workers)
    BY DEF PrimariesAreBounded
  <2> DEFINE S == Primaries(u)
             n == Cardinality(S)
             m == Cardinality(Workers)
  <2>1. S # {}
    BY <1>1 DEF AccountsInv, UsersHavePrimaries
  <2>2. PICK f : f \in Injection(S, Workers)
    BY <1>1 DEF AccountsInv, PrimariesAreLaid
  <2> HIDE DEF S
  <2>3. IsFiniteSet(S) /\ n <= m
    BY <2>2, WorkersAssumption, FS_Injection
  <2>4. n \in Nat /\ n # 0 /\ m \in Nat
    BY <2>1, <2>3, WorkersAssumption, FS_CardinalityType, FS_EmptySet
  <2> HIDE DEF n, m
  <2>5. n \in 1 .. m
    BY <2>3, <2>4
  <2> QED
    BY <2>5 DEF n, m, S
<1> QED
  BY <1>1, Invariance, PTL

\* A refresh token that is stored gives way to an older one only where calls overlap, and
\* never to none: a row that is written without a new token keeps the one in memory, and
\* a lock keeps that one current.
THEOREM RegressesCorrect == Spec => OnlyOverlapsRegress
<1> DEFINE Overlaps(a) ==
        /\ rows'[a].token > 0
        /\ \E w \in Workers :
              /\ pc[w] = "save" /\ pc'[w] = "idle" /\ Address(w) = a
              /\ IF app = "accounts"
                 THEN call[w].op = "connect" /\ got[w] # 0
                 ELSE got[w] # 0 \/ draft[w].token # rows[a].token
           Regresses(a) == rows'[a].token < rows[a].token
<1>1. ASSUME AccountsInv, [Next]_vars, NEW a \in Addresses, Regresses(a)
      PROVE  Overlaps(a)
  <2>1. Base
    BY <1>1 DEF AccountsInv, Base
  <2>2. TypeOK /\ rows[a].token \in Nat /\ rows[a].token <= issued /\ issued \in Nat
    <3>1. Workers # {}
      BY WorkersAssumption
    <3> QED
      BY <2>1, <3>1, BaseFacts
  <2>3. rows'[a].token # rows[a].token
    BY <1>1, <2>2
  <2>4. ASSUME NEW u \in Users, NEW b \in Addresses, Register(u, b) PROVE FALSE
    <3>1. a = b /\ rows[b].token = 0
      <4>1. rows[b] = NoRow /\ NoRow.token = 0
        BY <2>4 DEF Register, NoRow
      <4>2. \A c \in Addresses \ {b} : rows'[c] = rows[c]
        BY <2>1, <2>4, RegisterKeeps
      <4> QED
        BY <2>3, <4>1, <4>2
    <3>2. rows'[a].token \in Nat
      <4>1. TypeOK'
        BY <2>1, <2>4, RegisterKeeps
      <4>2. rows'[a] \in Rows \cup {NoRow}
        BY <4>1 DEF TypeOK
      <4> QED
        BY <4>2, FieldFacts, MaxTokensAssumption
    <3> QED
      BY <1>1, <3>1, <3>2
  <2>5. ASSUME NEW b \in Addresses, Expire(b) PROVE FALSE
    BY <2>1, <2>3, <2>5, ExpireKeeps
  <2>6. ASSUME UNCHANGED vars PROVE FALSE
    BY <2>3, <2>6 DEF vars
  <2>7. ASSUME NEW w \in Workers, WorkerStep(w) PROVE Overlaps(a)
    <3> USE BaseFacts, <2>1
    <3>1. SaveConnected(w) \/ SaveRenewed(w)
      BY <2>3, <2>7, UnsavedRows
    <3>2. pc[w] = "save"
      BY <3>1 DEF SaveConnected, SaveRenewed
    <3>3. ASSUME NEW row \in Rows, Store(w, row)
          PROVE  pc'[w] = "idle" /\ a = Address(w) /\ rows'[a] = row
      <4>1. pc'[w] = "idle"
        BY <3>3, LeaveFacts DEF Store
      <4>2. a = Address(w) /\ rows'[a] = row
        BY <2>3, <3>2, <3>3, StoredRows
      <4> QED
        BY <4>1, <4>2
    <3>4. CASE SaveConnected(w)
      <4>1. PICK row \in Rows : row.token = KeptToken(w, got[w]) /\ Store(w, row)
        BY <3>4, ConnectedRow
      <4>2. /\ pc'[w] = "idle" /\ a = Address(w) /\ rows'[a].token = KeptToken(w, got[w])
            /\ call[w].op = "connect"
        BY <3>3, <3>4, <4>1 DEF SaveConnected
      <4>3. CASE got[w] # 0
        <5>1. rows'[a].token > 0
          BY <4>2, <4>3 DEF KeptToken
        <5> QED
          BY <3>2, <4>2, <4>3, <5>1
      <4>4. CASE got[w] = 0
        <5>1. app = "accounts"
          BY <2>2, <3>2, <4>2, <4>4 DEF HasTokens, TypeOK
        <5>2. rows'[a].token = rows[a].token
          BY <3>2, <4>2, <4>4, <5>1 DEF KeptToken, HasTokens, AtRow
        <5> QED
          BY <2>3, <5>2
      <4> QED
        BY <4>3, <4>4
    <3>5. CASE SaveRenewed(w)
      <4>1. PICK n \in 0 .. MaxTokens, row \in Rows :
                (n # 0 => issued < n) /\ row.token = KeptToken(w, n) /\ Store(w, row)
        BY <3>5, RenewedRow
      <4>2. /\ pc'[w] = "idle" /\ a = Address(w) /\ rows'[a].token = KeptToken(w, n)
            /\ call[w].op # "connect" /\ n \in Nat
        BY <3>3, <3>5, <4>1, MaxTokensAssumption DEF SaveRenewed
      <4>3. n = 0
        <5> SUFFICES ASSUME n # 0 PROVE FALSE
          OBVIOUS
        <5>1. rows'[a].token = n
          BY <4>2 DEF KeptToken
        <5> QED
          BY <1>1, <2>2, <4>1, <4>2, <5>1
      <4>4. rows'[a].token = draft[w].token /\ draft[w].token # 0
        BY <3>2, <4>2, <4>3 DEF KeptToken, HasTokens
      <4>5. app # "accounts"
        BY <2>3, <3>2, <4>2, <4>4 DEF HasTokens, AtRow
      <4>6. rows'[a].token > 0
        <5>1. draft[w].token \in Nat
          OBVIOUS
        <5> QED
          BY <4>4, <5>1
      <4> QED
        BY <2>3, <3>2, <4>2, <4>4, <4>5, <4>6
    <3> QED
      BY <3>1, <3>4, <3>5
  <2> QED
    BY <1>1, <2>4, <2>5, <2>6, <2>7, NextSteps
<1>2. AccountsInv /\ [Next]_vars => [\A a \in Addresses : Regresses(a) => Overlaps(a)]_vars
  BY <1>1
<1> QED
  BY <1>2, Invariance, PTL DEF Spec, OnlyOverlapsRegress
=============================================================================
