------------------------- MODULE GmailIngestionProofs -------------------------
(***************************************************************************)
(* Theorems about GmailIngestion, for any finite mailbox, any bank         *)
(* accounts and listings, any finite set of workers and any number of      *)
(* deaths.                                                                 *)
(***************************************************************************)
EXTENDS GmailIngestion, FiniteSetTheorems, TLAPS

(***************************************************************************)
(* The inductive invariant.                                                *)
(***************************************************************************)

\* The steps at which a worker has a message in hand.
Handling == {"parse", "create", "discover", "tell", "mark"}

InHand(w, m) == pc[w] \in Handling /\ at[w] = m

\* Message m was dealt with, in what is committed or in the transaction of w.
Dealt(w, m) ==
    /\ outcomes[m] # {} \/ \E o \in Outcomes : Wrote(w, o, m)
    /\ Kind[m] # "poison"
    /\ Kind[m] = "payment" => Ingested(w, m)

\* What an open transaction contains, and that a task has none.
OwnsWhatItWrote(w) ==
    /\ pc[w] # "idle" => call[w] \in Calls
    /\ pc[w] = "begin" => call[w] = "accounts"
    /\ pc[w] = "renew" => call[w] # "accounts"
    /\ pc[w] \in {"idle", "begin", "renew"} \/ call[w] = "task" => own[w] = {}
    /\ pc[w] \in Handling =>
        /\ at[w] \in Emails
        /\ Atomic(call[w]) => Wrote(w, "synced", at[w])

\* How far a worker is with the message in hand.
HandlesMessage(w) ==
    /\ pc[w] \in {"create", "discover", "tell"} => Kind[at[w]] = "payment"
    /\ pc[w] \in {"discover", "tell"} => Ingested(w, at[w])
    /\ pc[w] = "mark" => call[w] # "accounts" /\ Dealt(w, at[w])

\* A message whose row a transaction of the accounts path will commit is in hand or
\* was dealt with, unless its row was there before; the integrations path marks
\* processed what was dealt with.
MarksWhatItDealtWith(w) ==
    /\ \A m \in Emails : call[w] = "accounts" /\ Wrote(w, "synced", m) =>
            marks["accounts"][m] # "none" \/ InHand(w, m) \/ Dealt(w, m)
    /\ \A m \in Emails : Wrote(w, "processed", m) => call[w] # "accounts" /\ Dealt(w, m)

\* Messages are taken in the order of the listing.
TakesInOrder(w) ==
    \A m \in todo[w], n \in Emails : Wrote(w, "synced", n) => n < m

\* A transaction counts what it makes, except the one it has in hand.
CountsWhatItMakes(w) ==
    \A m \in Emails :
        /\ Wrote(w, "counted", m) => Wrote(w, "made", m)
        /\ Wrote(w, "made", m) =>
            Wrote(w, "counted", m) \/ (pc[w] = "discover" /\ at[w] = m)
        /\ pc[w] = "discover" /\ at[w] = m /\ Atomic(call[w]) => Wrote(w, "made", m)

Working(w) ==
    /\ OwnsWhatItWrote(w)
    /\ HandlesMessage(w)
    /\ MarksWhatItDealtWith(w)
    /\ TakesInOrder(w)
    /\ CountsWhatItMakes(w)

WorkersWork == \A w \in Workers : Working(w)

\* Two transactions of one path do not hold the same message.
MessagesAreHeldOnce ==
    \A v, w \in Workers, m \in Emails :
        /\ v # w
        /\ Path(call[v]) = Path(call[w])
        /\ Wrote(v, "synced", m)
        => ~Wrote(w, "synced", m)

IngestionInv ==
    /\ TypeOK
    /\ WorkersWork
    /\ MessagesAreHeldOnce
    /\ MarkedMeansIngested

(***************************************************************************)
(* Facts about the operators.                                              *)
(***************************************************************************)

Whats == {"synced", "processed", "made", "counted"} \cup Outcomes

\* A fact is told by what it says and the message it is about.
LEMMA SameFact ==
    ASSUME NEW a, NEW b, NEW m, NEW n
    PROVE  [what |-> a, email |-> m] = [what |-> b, email |-> n] <=> a = b /\ m = n
<1>1. /\ [what |-> a, email |-> m].what = a /\ [what |-> a, email |-> m].email = m
      /\ [what |-> b, email |-> n].what = b /\ [what |-> b, email |-> n].email = n
  OBVIOUS
<1> QED
  BY <1>1

\* There are finitely many facts.
LEMMA FiniteFacts == \A facts \in SUBSET Facts : IsFiniteSet(facts)
<1> DEFINE MessageFacts == [what : Whats, email : Emails]
           f == [p \in Whats \X Emails |-> [what |-> p[1], email |-> p[2]]]
<1>1. IsFiniteSet(Whats)
  <2>1. ASSUME NEW S, IsFiniteSet(S), NEW x PROVE IsFiniteSet(S \cup {x})
    BY <2>1, FS_AddElement
  <2>2. IsFiniteSet({} \cup {"synced"} \cup {"processed"} \cup {"made"} \cup {"counted"})
    BY <2>1, FS_EmptySet
  <2>3. IsFiniteSet({} \cup {"synced"} \cup {"processed"} \cup {"made"} \cup {"counted"}
                    \cup {"filtered"} \cup {"parsed"} \cup {"duplicate"})
    BY <2>1, <2>2
  <2>4. Whats = {} \cup {"synced"} \cup {"processed"} \cup {"made"} \cup {"counted"}
                    \cup {"filtered"} \cup {"parsed"} \cup {"duplicate"}
    BY DEF Whats, Outcomes
  <2> QED
    BY <2>3, <2>4
<1>2. IsFiniteSet(Whats \X Emails)
  BY <1>1, EmailsAssumption, FS_Product
<1>3. f \in Surjection(Whats \X Emails, MessageFacts)
  <2>1. f \in [Whats \X Emails -> MessageFacts]
    OBVIOUS
  <2>2. ASSUME NEW fact \in MessageFacts PROVE \E p \in Whats \X Emails : f[p] = fact
    <3>1. <<fact.what, fact.email>> \in Whats \X Emails
      OBVIOUS
    <3>2. f[<<fact.what, fact.email>>] = [what |-> fact.what, email |-> fact.email]
      BY <3>1
    <3>3. fact = [what |-> fact.what, email |-> fact.email]
      OBVIOUS
    <3> QED
      BY <3>1, <3>2, <3>3
  <2> QED
    BY <2>1, <2>2 DEF Surjection
<1>4. IsFiniteSet(Facts)
  <2>1. IsFiniteSet(MessageFacts)
    BY <1>2, <1>3, FS_Surjection
  <2>2. Facts = MessageFacts \cup {Renewal}
    BY DEF Facts, Whats
  <2> HIDE DEF MessageFacts
  <2> QED
    BY <2>1, <2>2, FS_AddElement
<1> QED
  BY <1>4, FS_Subset

\* What a commit does to the tables can only add to them.
TablesGrow ==
    /\ \A m \in Emails : transactions[m] <= transactions'[m] /\ outcomes[m] \subseteq outcomes'[m]
    /\ \A p \in Paths, m \in Emails : marks[p][m] # "none" => marks'[p][m] # "none"

TablesOK ==
    /\ marks \in [Paths -> [Emails -> MarkValues]]
    /\ transactions \in [Emails -> Nat]
    /\ support \in [Accounts -> Nat]
    /\ outcomes \in [Emails -> SUBSET Outcomes]

\* What a commit of facts does.
LEMMA StoredFacts ==
    ASSUME TypeOK, NEW c \in Calls, NEW facts \in SUBSET Facts, Store(c, facts)
    PROVE  /\ TablesOK'
           /\ TablesGrow
           /\ \A m \in Emails : transactions'[m] =
                  transactions[m] + (IF [what |-> "made", email |-> m] \in facts THEN 1 ELSE 0)
           /\ \A m \in Emails, o \in Outcomes :
                  [what |-> o, email |-> m] \in facts => o \in outcomes'[m]
           /\ \A p \in Paths, m \in Emails : marks'[p][m] = "done" =>
                  \/ marks[p][m] = "done"
                  \/ p = Path(c) /\ [what |-> "processed", email |-> m] \in facts
                  \/ /\ c = "accounts" /\ p = "accounts" /\ marks["accounts"][m] = "none"
                     /\ [what |-> "synced", email |-> m] \in facts
<1>1. Path(c) \in Paths
  BY DEF Path, Paths
<1>2. /\ marks' = [marks EXCEPT ![Path(c)] = [m \in Emails |-> Marked(c, facts, m)]]
      /\ transactions' = [m \in Emails |->
            transactions[m] + (IF [what |-> "made", email |-> m] \in facts THEN 1 ELSE 0)]
      /\ support' = [a \in Accounts |-> Support(a, facts)]
      /\ outcomes' = [m \in Emails |->
            outcomes[m] \cup {o \in Outcomes : [what |-> o, email |-> m] \in facts}]
  BY DEF Store
<1>3. \A m \in Emails : Marked(c, facts, m) \in MarkValues
  BY <1>1 DEF Marked, MarkValues, TypeOK
<1>4. marks' \in [Paths -> [Emails -> MarkValues]]
  BY <1>1, <1>2, <1>3 DEF TypeOK
<1>5. /\ transactions' \in [Emails -> Nat]
      /\ \A m \in Emails : transactions'[m] =
             transactions[m] + (IF [what |-> "made", email |-> m] \in facts THEN 1 ELSE 0)
  BY <1>2 DEF TypeOK
<1>6. support' \in [Accounts -> Nat]
  <2>1. ASSUME NEW a \in Accounts PROVE Support(a, facts) \in Nat
    <3> DEFINE counted == {f \in facts : f.what = "counted" /\ Account[f.email] = a}
    <3>1. counted \in SUBSET Facts
      OBVIOUS
    <3>2. Cardinality(counted) \in Nat
      BY <3>1, FiniteFacts, FS_CardinalityType
    <3>3. support[a] \in Nat /\ Support(a, facts) = support[a] + Cardinality(counted)
      BY DEF TypeOK, Support
    <3> HIDE DEF counted
    <3> QED
      BY <3>2, <3>3
  <2> QED
    BY <1>2, <2>1
<1>7. /\ outcomes' \in [Emails -> SUBSET Outcomes]
      /\ \A m \in Emails : outcomes[m] \subseteq outcomes'[m]
      /\ \A m \in Emails, o \in Outcomes : [what |-> o, email |-> m] \in facts => o \in outcomes'[m]
  BY <1>2 DEF TypeOK
<1>8. \A p \in Paths, m \in Emails :
          marks'[p][m] = IF p = Path(c) THEN Marked(c, facts, m) ELSE marks[p][m]
  BY <1>1, <1>2 DEF TypeOK
<1>9. \A p \in Paths, m \in Emails : marks[p][m] # "none" => marks'[p][m] # "none"
  BY <1>8 DEF Marked
<1>10. \A p \in Paths, m \in Emails : marks'[p][m] = "done" =>
          \/ marks[p][m] = "done"
          \/ p = Path(c) /\ [what |-> "processed", email |-> m] \in facts
          \/ /\ c = "accounts" /\ p = "accounts" /\ marks["accounts"][m] = "none"
             /\ [what |-> "synced", email |-> m] \in facts
  BY <1>8 DEF Marked, Path
<1>11. \A m \in Emails : transactions[m] <= transactions'[m]
  <2> TAKE m \in Emails
  <2>1. transactions[m] \in Nat
    BY DEF TypeOK
  <2>2. CASE [what |-> "made", email |-> m] \in facts
    BY <1>5, <2>1, <2>2
  <2>3. CASE [what |-> "made", email |-> m] \notin facts
    BY <1>5, <2>1, <2>3
  <2> QED
    BY <2>2, <2>3
<1> QED
  BY <1>4, <1>5, <1>6, <1>7, <1>9, <1>10, <1>11 DEF TablesOK, TablesGrow

\* Tables that stay are tables still, and none has lost a row.
LEMMA UnchangedTables ==
    ASSUME TypeOK, UNCHANGED tables
    PROVE  TablesOK' /\ TablesGrow
BY DEF TypeOK, tables, TablesOK, TablesGrow

\* A statement of worker w: kept in its transaction, or committed by a task.
Writes(w, fact) ==
    IF Atomic(call[w])
    THEN own' = [own EXCEPT ![w] = @ \cup {fact}] /\ UNCHANGED tables
    ELSE Store(call[w], {fact}) /\ UNCHANGED own

\* What a worker writes is stored at once, or is its own until it commits.
LEMMA WrittenFact ==
    ASSUME TypeOK, NEW w \in Workers, OwnsWhatItWrote(w), pc[w] # "idle",
           NEW what \in Whats, NEW m \in Emails, Writes(w, [what |-> what, email |-> m])
    PROVE  /\ TablesOK'
           /\ own' \in [Workers -> SUBSET Facts]
           /\ TablesGrow
           /\ \A v \in Workers \ {w} : own'[v] = own[v]
           /\ own'[w] = IF Atomic(call[w]) THEN own[w] \cup {[what |-> what, email |-> m]} ELSE {}
           /\ Atomic(call[w]) => UNCHANGED tables
           /\ ~Atomic(call[w]) => Store(call[w], {[what |-> what, email |-> m]})
           /\ what \in Outcomes => outcomes'[m] # {} \/ [what |-> what, email |-> m] \in own'[w]
           /\ what = "made" => transactions'[m] > 0 \/ [what |-> what, email |-> m] \in own'[w]
<1> DEFINE fact == [what |-> what, email |-> m]
<1>1. fact \in Facts /\ call[w] \in Calls
  BY DEF Facts, Whats, OwnsWhatItWrote
<1>2. CASE Atomic(call[w])
  <2>1. own' = [own EXCEPT ![w] = @ \cup {fact}] /\ UNCHANGED tables
    BY <1>2 DEF Writes
  <2>2. own' \in [Workers -> SUBSET Facts]
    BY <1>1, <2>1 DEF TypeOK
  <2>3. own'[w] = own[w] \cup {fact} /\ \A v \in Workers \ {w} : own'[v] = own[v]
    BY <2>1 DEF TypeOK
  <2> QED
    BY <1>2, <2>1, <2>2, <2>3, UnchangedTables
<1>3. CASE ~Atomic(call[w])
  <2>1. Store(call[w], {fact}) /\ own' = own
    BY <1>3 DEF Writes
  <2>2. own[w] = {}
    BY <1>1, <1>3 DEF OwnsWhatItWrote, Atomic
  <2>3. TablesOK' /\ TablesGrow
    BY <1>1, <2>1, StoredFacts
  <2>4. what = "made" => transactions'[m] > 0
    BY <1>1, <2>1, StoredFacts DEF TypeOK
  <2>5. what \in Outcomes => what \in outcomes'[m]
    BY <1>1, <2>1, StoredFacts
  <2> QED
    BY <1>3, <2>1, <2>2, <2>3, <2>4, <2>5 DEF TypeOK
<1> QED
  BY <1>2, <1>3

\* The same of a fact about the message in hand.
LEMMA WrittenInHand ==
    ASSUME TypeOK, NEW w \in Workers, OwnsWhatItWrote(w), pc[w] \in Handling,
           NEW what \in Whats, Write(w, what)
    PROVE  /\ at[w] \in Emails
           /\ Writes(w, [what |-> what, email |-> at[w]])
BY DEF OwnsWhatItWrote, Write, Writes

\* The next message of a listing is the first of those still to come.
LEMMA UpsertedRow ==
    ASSUME TypeOK, NEW w \in Workers, Upsert(w)
    PROVE  \E m \in Emails :
              /\ m \in todo[w]
              /\ \A other \in todo[w] : m <= other
              /\ EmailFree(w, m)
              /\ todo' = [todo EXCEPT ![w] = @ \ {m}]
              /\ IF Fresh(call[w], m)
                 THEN at' = [at EXCEPT ![w] = m] /\ Goto(w, "parse")
                 ELSE UNCHANGED <<at, pc>>
              /\ Writes(w, [what |-> "synced", email |-> m])
              /\ UNCHANGED <<crashes, call>>
<1>1. PICK m \in NextMessage(todo[w]) :
              /\ EmailFree(w, m)
              /\ todo' = [todo EXCEPT ![w] = @ \ {m}]
              /\ IF Fresh(call[w], m)
                 THEN at' = [at EXCEPT ![w] = m] /\ Goto(w, "parse")
                 ELSE UNCHANGED <<at, pc>>
              /\ Writes(w, [what |-> "synced", email |-> m])
  BY DEF Upsert, Writes
<1>2. m \in todo[w] /\ m \in Emails /\ \A other \in todo[w] : m <= other
  BY DEF NextMessage, TypeOK
<1> QED
  BY <1>1, <1>2 DEF Upsert

(***************************************************************************)
(* Type correctness.                                                       *)
(***************************************************************************)

\* The types hold of the empty tables.
LEMMA TypeInit == Init => TypeOK
BY CrashesAssumption DEF Init, TypeOK, MarkValues, Steps

\* The variables of a worker keep their types when only those of w change.
LocalOK ==
    /\ crashes \in 0 .. MaxCrashes
    /\ call \in [Workers -> Calls \cup {None}]
    /\ todo \in [Workers -> SUBSET Emails]
    /\ at \in [Workers -> Emails \cup {None}]
    /\ pc \in [Workers -> Steps]

\* Steps keep the types.
LEMMA TypeNext == TypeOK /\ WorkersWork /\ [Next]_vars => TypeOK'
<1> SUFFICES ASSUME TypeOK, WorkersWork, [Next]_vars PROVE TypeOK'
  OBVIOUS
<1>0. \A w \in Workers : OwnsWhatItWrote(w)
  BY DEF WorkersWork, Working
<1>a. TablesOK' /\ LocalOK' /\ own' \in [Workers -> SUBSET Facts] => TypeOK'
  BY DEF TablesOK, LocalOK, TypeOK
<1> USE DEF Goto
<1>1. ASSUME NEW w \in Workers, NEW c \in Calls, NEW list \in Listings, Start(w, c, list)
      PROVE  TypeOK'
  BY <1>1, ListingsAssumption DEF Start, TypeOK, tables, Steps
<1>2. ASSUME NEW w \in Workers, Begin(w) PROVE TypeOK'
  BY <1>2 DEF Begin, TypeOK, tables, Steps
<1>15. ASSUME NEW w \in Workers, Renew(w) PROVE TypeOK'
  <2>1. own' \in [Workers -> SUBSET Facts]
    BY <1>15 DEF Renew, TypeOK, Facts
  <2> QED
    BY <1>15, <2>1 DEF Renew, TypeOK, tables, Steps
<1>3. ASSUME NEW w \in Workers, Upsert(w) PROVE TypeOK'
  <2>1. PICK m \in Emails :
              /\ todo' = [todo EXCEPT ![w] = @ \ {m}]
              /\ IF Fresh(call[w], m)
                 THEN at' = [at EXCEPT ![w] = m] /\ Goto(w, "parse")
                 ELSE UNCHANGED <<at, pc>>
              /\ Writes(w, [what |-> "synced", email |-> m])
              /\ UNCHANGED <<crashes, call>>
    BY <1>3, UpsertedRow
  <2>2. LocalOK'
    BY <2>1 DEF LocalOK, TypeOK, Steps
  <2>3. "synced" \in Whats /\ pc[w] # "idle"
    BY <1>3 DEF Whats, Upsert
  <2> QED
    BY <1>0, <1>a, <2>1, <2>2, <2>3, WrittenFact
<1>4. ASSUME NEW w \in Workers, NEW what \in Whats, pc[w] \in Handling, Write(w, what), LocalOK'
      PROVE  TypeOK'
  <2>1. pc[w] # "idle" /\ at[w] \in Emails /\ Writes(w, [what |-> what, email |-> at[w]])
    BY <1>0, <1>4, WrittenInHand DEF Handling
  <2> QED
    BY <1>0, <1>4, <1>a, <2>1, WrittenFact
<1>5. ASSUME NEW w \in Workers, Parse(w) PROVE TypeOK'
  <2>1. LocalOK'
    BY <1>5 DEF Parse, Return, Continue, LocalOK, TypeOK, Steps
  <2>2. CASE Write(w, "filtered") \/ Write(w, "duplicate")
    BY <1>4, <1>5, <2>1, <2>2 DEF Parse, Handling, Whats, Outcomes
  <2>3. CASE UNCHANGED <<tables, own>>
    BY <1>a, <2>1, <2>3, UnchangedTables DEF TypeOK
  <2> QED
    BY <1>5, <2>2, <2>3 DEF Parse
<1>6. ASSUME NEW w \in Workers, Create(w) PROVE TypeOK'
  <2>1. LocalOK'
    BY <1>6 DEF Create, LocalOK, TypeOK, Steps
  <2> QED
    BY <1>4, <1>6, <2>1 DEF Create, Handling, Whats
<1>7. ASSUME NEW w \in Workers, Discover(w) PROVE TypeOK'
  <2>1. LocalOK'
    BY <1>7 DEF Discover, LocalOK, TypeOK, Steps
  <2> QED
    BY <1>4, <1>7, <2>1 DEF Discover, Handling, Whats
<1>8. ASSUME NEW w \in Workers, Tell(w) PROVE TypeOK'
  <2>1. LocalOK'
    BY <1>8 DEF Tell, Return, Continue, LocalOK, TypeOK, Steps
  <2> QED
    BY <1>4, <1>8, <2>1 DEF Tell, Handling, Whats, Outcomes
<1>9. ASSUME NEW w \in Workers, Mark(w) PROVE TypeOK'
  <2>1. LocalOK'
    BY <1>9 DEF Mark, Continue, LocalOK, TypeOK, Steps
  <2> QED
    BY <1>4, <1>9, <2>1 DEF Mark, Handling, Whats
<1>10. ASSUME NEW w \in Workers, Leave(w), crashes' \in 0 .. MaxCrashes, TablesOK' PROVE TypeOK'
  BY <1>10, <1>a DEF Leave, LocalOK, TypeOK, Steps
<1>11. ASSUME NEW w \in Workers, Finish(w) PROVE TypeOK'
  <2>1. call[w] \in Calls /\ own[w] \in SUBSET Facts
    BY <1>0, <1>11 DEF Finish, Ends, OwnsWhatItWrote, TypeOK
  <2>2. TablesOK' /\ crashes' = crashes
    BY <1>11, <2>1, StoredFacts DEF Finish
  <2> QED
    BY <1>10, <1>11, <2>2 DEF Finish, TypeOK
<1>12. ASSUME NEW w \in Workers, Fail(w) PROVE TypeOK'
  <2>1. crashes' \in 0 .. MaxCrashes
    BY <1>12, CrashesAssumption DEF Fail, TypeOK
  <2> QED
    BY <1>10, <1>12, <2>1, UnchangedTables DEF Fail
<1>13. ASSUME NEW a \in Accounts, DiscoverByHand(a) PROVE TypeOK'
  BY <1>13 DEF DiscoverByHand, TypeOK
<1>14. CASE UNCHANGED vars
  BY <1>14 DEF vars, TypeOK
<1> QED
  BY <1>1, <1>2, <1>3, <1>5, <1>6, <1>7, <1>8, <1>9, <1>11, <1>12, <1>13, <1>14, <1>15 DEF Next

(***************************************************************************)
(* The steps of the inductive invariant.                                   *)
(***************************************************************************)

\* What was dealt with stays dealt with while tables and transaction grow.
LEMMA DealtKept ==
    ASSUME TypeOK, TypeOK', TablesGrow, NEW w \in Workers, NEW m \in Emails,
           own[w] \subseteq own'[w]
    PROVE  /\ Ingested(w, m) => Ingested(w, m)'
           /\ Dealt(w, m) => Dealt(w, m)'
           /\ \A a : Wrote(w, a, m) => Wrote(w, a, m)'
<1>1. /\ transactions[m] \in Nat /\ transactions'[m] \in Nat
      /\ transactions[m] <= transactions'[m]
      /\ outcomes[m] \subseteq outcomes'[m]
  BY DEF TypeOK, TablesGrow
<1>2. \A a : Wrote(w, a, m) => Wrote(w, a, m)'
  BY DEF Wrote
<1>3. Ingested(w, m) => Ingested(w, m)'
  BY <1>1, <1>2 DEF Ingested
<1> QED
  BY <1>1, <1>2, <1>3 DEF Dealt

\* A step that adds to the tables keeps what holds of a worker that takes no part.
LEMMA OtherWorks ==
    ASSUME TypeOK, TypeOK', TablesGrow, NEW v \in Workers, Working(v),
           call'[v] = call[v], todo'[v] = todo[v], at'[v] = at[v],
           pc'[v] = pc[v], own'[v] = own[v]
    PROVE  Working(v)'
<1>1. Working(v) /\ todo[v] \subseteq Emails
  BY DEF WorkersWork, TypeOK
<1>2. \A m \in Emails : /\ Ingested(v, m) => Ingested(v, m)'
                        /\ Dealt(v, m) => Dealt(v, m)'
  BY DealtKept
<1>3. \A a, m : Wrote(v, a, m)' <=> Wrote(v, a, m)
  BY DEF Wrote
<1>4. OwnsWhatItWrote(v)'
  BY <1>1 DEF Working, OwnsWhatItWrote, Wrote
<1>5. HandlesMessage(v)'
  <2>1. pc[v] \in {"discover", "tell", "mark"} => at[v] \in Emails
    BY <1>1 DEF Working, OwnsWhatItWrote, Handling
  <2>2. pc[v] \in {"discover", "tell"} => Ingested(v, at[v])'
    <3> SUFFICES ASSUME pc[v] \in {"discover", "tell"} PROVE Ingested(v, at[v])'
      OBVIOUS
    <3>1. PICK m \in Emails : m = at[v] /\ Ingested(v, m)
      BY <1>1, <2>1 DEF Working, HandlesMessage
    <3>2. Ingested(v, m)' /\ at'[v] = m
      BY <1>2, <3>1
    <3> QED
      BY <3>2 DEF Ingested, Wrote
  <2>3. pc[v] = "mark" => call[v] # "accounts" /\ Dealt(v, at[v])'
    <3> SUFFICES ASSUME pc[v] = "mark" PROVE call[v] # "accounts" /\ Dealt(v, at[v])'
      OBVIOUS
    <3>1. PICK m \in Emails : m = at[v] /\ Dealt(v, m) /\ call[v] # "accounts"
      BY <1>1, <2>1 DEF Working, HandlesMessage
    <3>2. Dealt(v, m)' /\ at'[v] = m
      BY <1>2, <3>1
    <3> QED
      BY <3>1, <3>2 DEF Dealt, Ingested, Wrote
  <2> QED
    BY <1>1, <2>2, <2>3 DEF Working, HandlesMessage
<1>6. MarksWhatItDealtWith(v)'
  BY <1>1, <1>2, <1>3 DEF Working, MarksWhatItDealtWith, InHand, TablesGrow, Paths
<1>7. TakesInOrder(v)' /\ CountsWhatItMakes(v)'
  BY <1>1, <1>3 DEF Working, TakesInOrder, CountsWhatItMakes
<1> QED
  BY <1>4, <1>5, <1>6, <1>7 DEF Working

\* A renewal is about no message.
LEMMA RenewalIsAlone ==
    ASSUME NEW a, NEW m \in Emails
    PROVE  [what |-> a, email |-> m] # Renewal
<1>1. m # None
  BY NamesAssumption
<1> QED
  BY <1>1, SameFact DEF Renewal

\* A worker that has written about no message and has none in hand.
LEMMA NothingWritten ==
    ASSUME NEW w \in Workers, own'[w] \subseteq {Renewal},
           pc'[w] \in {"idle", "begin", "renew", "list"},
           pc'[w] # "idle" => call'[w] \in Calls,
           pc'[w] = "begin" => call'[w] = "accounts",
           pc'[w] = "renew" => call'[w] # "accounts",
           pc'[w] # "list" \/ call'[w] = "task" => own'[w] = {}
    PROVE  Working(w)'
<1>1. \A a : \A m \in Emails : ~Wrote(w, a, m)'
  BY RenewalIsAlone DEF Wrote
<1>2. OwnsWhatItWrote(w)' /\ HandlesMessage(w)'
  BY DEF OwnsWhatItWrote, HandlesMessage, Handling
<1> QED
  BY <1>1, <1>2 DEF Working, MarksWhatItDealtWith, TakesInOrder, CountsWhatItMakes

\* What a worker has written after it has written about message m.
LEMMA WroteMore ==
    ASSUME TypeOK, NEW w \in Workers, OwnsWhatItWrote(w), pc[w] # "idle",
           NEW what \in Whats, NEW m \in Emails, Writes(w, [what |-> what, email |-> m])
    PROVE  /\ own[w] \subseteq own'[w]
           /\ \A a, n : Wrote(w, a, n)' <=>
                  Wrote(w, a, n) \/ (Atomic(call[w]) /\ a = what /\ n = m)
           /\ TablesGrow
           /\ Atomic(call[w]) => UNCHANGED tables
           /\ ~Atomic(call[w]) => own[w] = {} /\ own'[w] = {}
<1>1. ~Atomic(call[w]) => own[w] = {}
  BY DEF OwnsWhatItWrote, Atomic
<1>2. /\ own'[w] = IF Atomic(call[w]) THEN own[w] \cup {[what |-> what, email |-> m]} ELSE {}
      /\ TablesGrow
      /\ Atomic(call[w]) => UNCHANGED tables
  BY WrittenFact
<1> QED
  BY <1>1, <1>2, SameFact DEF Wrote

\* A worker that has taken the row of a message may rely on it.
LEMMA UpsertWorks ==
    ASSUME TypeOK, TypeOK', NEW w \in Workers, Working(w), Upsert(w)
    PROVE  Working(w)'
<1>1. PICK m \in Emails :
              /\ m \in todo[w]
              /\ \A other \in todo[w] : m <= other
              /\ todo' = [todo EXCEPT ![w] = @ \ {m}]
              /\ IF Fresh(call[w], m)
                 THEN at' = [at EXCEPT ![w] = m] /\ Goto(w, "parse")
                 ELSE UNCHANGED <<at, pc>>
              /\ Writes(w, [what |-> "synced", email |-> m])
              /\ UNCHANGED <<crashes, call>>
  BY UpsertedRow
<1>2. OwnsWhatItWrote(w) /\ pc[w] = "list" /\ "synced" \in Whats /\ call[w] \in Calls
  BY DEF Working, Upsert, Whats, OwnsWhatItWrote
<1>3. /\ own[w] \subseteq own'[w]
      /\ \A a, n : Wrote(w, a, n)' <=>
             Wrote(w, a, n) \/ (Atomic(call[w]) /\ a = "synced" /\ n = m)
      /\ TablesGrow
      /\ Atomic(call[w]) => UNCHANGED tables
      /\ ~Atomic(call[w]) => own'[w] = {}
  BY <1>1, <1>2, WroteMore
<1>4. \A n \in Emails : Dealt(w, n) => Dealt(w, n)'
  BY <1>3, DealtKept
<1>5. IF Fresh(call[w], m) THEN at'[w] = m /\ pc'[w] = "parse" ELSE UNCHANGED <<at, pc>>
  BY <1>1 DEF Goto, TypeOK
<1>6. OwnsWhatItWrote(w)'
  BY <1>1, <1>2, <1>3, <1>5 DEF OwnsWhatItWrote, Handling, Atomic, Wrote
<1>7. HandlesMessage(w)'
  BY <1>2, <1>5 DEF HandlesMessage
<1>8. MarksWhatItDealtWith(w)'
  <2>1. ASSUME NEW n \in Emails, call[w] = "accounts", Wrote(w, "synced", n)'
        PROVE  marks'["accounts"][n] # "none" \/ InHand(w, n)' \/ Dealt(w, n)'
    <3>1. marks' = marks
      BY <1>3, <2>1 DEF Atomic, tables
    <3>2. CASE n = m /\ Fresh(call[w], m)
      BY <1>5, <3>2 DEF InHand, Handling
    <3>3. CASE n = m /\ ~Fresh(call[w], m)
      BY <2>1, <3>1, <3>3 DEF Fresh
    <3>4. CASE n # m
      BY <1>2, <1>3, <1>4, <2>1, <3>1, <3>4 DEF Working, MarksWhatItDealtWith, InHand, Handling
    <3> QED
      BY <3>2, <3>3, <3>4
  <2>2. ASSUME NEW n \in Emails, Wrote(w, "processed", n)'
        PROVE  call[w] # "accounts" /\ Dealt(w, n)'
    BY <1>3, <1>4, <2>2 DEF Working, MarksWhatItDealtWith
  <2> QED
    BY <1>1, <2>1, <2>2 DEF MarksWhatItDealtWith
<1>9. TakesInOrder(w)'
  <2>1. ASSUME NEW k \in todo'[w], NEW n \in Emails, Wrote(w, "synced", n)' PROVE n < k
    <3>1. k \in todo[w] /\ k # m /\ k \in Nat /\ m \in Nat /\ m <= k
      BY <1>1, EmailsAssumption DEF TypeOK
    <3> QED
      BY <1>3, <2>1, <3>1 DEF Working, TakesInOrder
  <2> QED
    BY <2>1 DEF TakesInOrder
<1>10. CountsWhatItMakes(w)'
  <2>1. pc'[w] # "discover"
    BY <1>2, <1>5
  <2> QED
    BY <1>2, <1>3, <2>1 DEF Working, CountsWhatItMakes
<1> QED
  BY <1>6, <1>7, <1>8, <1>9, <1>10 DEF Working

\* A step on the message in hand, which stays in hand or is done with.
LEMMA StepInHand ==
    ASSUME TypeOK, TypeOK', NEW w \in Workers, Working(w), pc[w] \in Handling,
           NEW m \in Emails, m = at[w], NEW what \in Whats \ {"synced"},
           Writes(w, [what |-> what, email |-> m]),
           call' = call, todo' = todo,
           \/ pc'[w] \in Handling /\ at'[w] = m
           \/ pc'[w] = "list" /\ (call[w] = "accounts" => Dealt(w, m)'),
           what = "processed" => call[w] # "accounts" /\ Dealt(w, m),
           HandlesMessage(w)', CountsWhatItMakes(w)'
    PROVE  Working(w)'
<1>1. OwnsWhatItWrote(w) /\ pc[w] # "idle" /\ call[w] \in Calls
  BY DEF Working, OwnsWhatItWrote, Handling
<1>2. /\ own[w] \subseteq own'[w]
      /\ \A a, n : Wrote(w, a, n)' <=>
             Wrote(w, a, n) \/ (Atomic(call[w]) /\ a = what /\ n = m)
      /\ TablesGrow
      /\ Atomic(call[w]) => UNCHANGED tables
      /\ ~Atomic(call[w]) => own'[w] = {}
  BY <1>1, WroteMore
<1>3. \A n \in Emails : Dealt(w, n) => Dealt(w, n)'
  BY <1>2, DealtKept
<1>4. OwnsWhatItWrote(w)'
  <2>1. pc'[w] \notin {"idle", "begin", "renew"}
    BY DEF Handling
  <2>2. call[w] = "task" => own'[w] = {}
    BY <1>2 DEF Atomic
  <2>3. pc'[w] \in Handling => at'[w] = m
    BY DEF Handling
  <2>4. Atomic(call[w]) => [what |-> "synced", email |-> m] \in own'[w]
    BY <1>1, <1>2 DEF OwnsWhatItWrote, Wrote
  <2> QED
    BY <1>1, <2>1, <2>2, <2>3, <2>4 DEF OwnsWhatItWrote, Wrote, Atomic
<1>5. MarksWhatItDealtWith(w)'
  <2>1. ASSUME NEW n \in Emails, call[w] = "accounts", Wrote(w, "synced", n)'
        PROVE  marks'["accounts"][n] # "none" \/ InHand(w, n)' \/ Dealt(w, n)'
    <3>1. marks' = marks
      BY <1>2, <2>1 DEF Atomic, tables
    <3>2. CASE n = m
      BY <2>1, <3>2 DEF InHand
    <3>3. CASE n # m
      BY <1>2, <1>3, <2>1, <3>1, <3>3 DEF Working, MarksWhatItDealtWith, InHand
    <3> QED
      BY <3>2, <3>3
  <2>2. ASSUME NEW n \in Emails, Wrote(w, "processed", n)'
        PROVE  call[w] # "accounts" /\ Dealt(w, n)'
    BY <1>2, <1>3, <2>2 DEF Working, MarksWhatItDealtWith
  <2> QED
    BY <2>1, <2>2 DEF MarksWhatItDealtWith
<1>6. TakesInOrder(w)'
  BY <1>2 DEF Working, TakesInOrder
<1> QED
  BY <1>4, <1>5, <1>6 DEF Working

\* A step that writes the outcome of the message in hand and returns to the sync.
LEMMA ReturnWorks ==
    ASSUME TypeOK, TypeOK', NEW w \in Workers, Working(w), pc[w] \in {"parse", "tell"},
           NEW what \in Outcomes, Write(w, what), Return(w), UNCHANGED <<call, todo>>,
           Kind[at[w]] # "poison", Kind[at[w]] = "payment" => Ingested(w, at[w])
    PROVE  Working(w)'
<1>1. OwnsWhatItWrote(w) /\ pc[w] \in Handling /\ what \in Whats \ {"synced"} /\ pc[w] # "idle"
  BY DEF Working, Handling, Whats, Outcomes
<1>2. PICK m \in Emails : m = at[w] /\ Writes(w, [what |-> what, email |-> m])
  BY <1>1, WrittenInHand
<1>3. /\ own[w] \subseteq own'[w]
      /\ \A a, n : Wrote(w, a, n)' <=>
             Wrote(w, a, n) \/ (Atomic(call[w]) /\ a = what /\ n = m)
  BY <1>1, <1>2, WroteMore
<1>b. TablesGrow
  BY <1>1, <1>2, WrittenFact
<1>a. outcomes'[m] # {} \/ [what |-> what, email |-> m] \in own'[w]
  BY <1>1, <1>2, WrittenFact
<1>4. Dealt(w, m)'
  <2>1. outcomes'[m] # {} \/ \E o \in Outcomes : Wrote(w, o, m)'
    BY <1>a DEF Wrote
  <2>2. Kind[m] = "payment" => Ingested(w, m)'
    BY <1>2, <1>3, <1>b, DealtKept
  <2> QED
    BY <1>2, <2>1, <2>2 DEF Dealt
<1>5. \/ call[w] = "accounts" /\ pc'[w] = "list"
      \/ call[w] # "accounts" /\ pc'[w] = "mark" /\ at'[w] = m
  BY <1>2 DEF Return, Continue, Goto, TypeOK
<1>6. HandlesMessage(w)'
  <2>1. CASE pc'[w] = "list"
    BY <2>1 DEF HandlesMessage
  <2>2. CASE call[w] # "accounts" /\ pc'[w] = "mark" /\ at'[w] = m
    <3>1. Dealt(w, at[w])'
      BY <1>4, <2>2 DEF Dealt, Ingested, Wrote
    <3> QED
      BY <2>2, <3>1 DEF HandlesMessage
  <2> QED
    BY <1>5, <2>1, <2>2
<1>7. CountsWhatItMakes(w)'
  <2>1. CountsWhatItMakes(w) /\ pc[w] # "discover" /\ pc'[w] # "discover"
    BY <1>5 DEF Working
  <2>2. \A n : /\ Wrote(w, "made", n)' <=> Wrote(w, "made", n)
               /\ Wrote(w, "counted", n)' <=> Wrote(w, "counted", n)
    BY <1>3 DEF Outcomes
  <2> QED
    BY <2>1, <2>2 DEF CountsWhatItMakes
<1>8. \/ pc'[w] \in Handling /\ at'[w] = m
      \/ pc'[w] = "list" /\ (call[w] = "accounts" => Dealt(w, m)')
  BY <1>4, <1>5 DEF Handling
<1>9. what # "processed" /\ call' = call /\ todo' = todo /\ m = at[w]
  BY <1>2 DEF Outcomes
<1> QED
  BY <1>1, <1>2, <1>6, <1>7, <1>8, <1>9, StepInHand

\* A worker that has parsed a message has its outcome written, or is to make one.
LEMMA ParseWorks ==
    ASSUME TypeOK, TypeOK', NEW w \in Workers, Working(w), Parse(w)
    PROVE  Working(w)'
<1>1. pc[w] = "parse" /\ UNCHANGED <<crashes, call, todo>>
  BY DEF Parse
<1>2. CASE Kind[at[w]] = "noise" /\ Write(w, "filtered") /\ Return(w)
  BY <1>1, <1>2, ReturnWorks DEF Outcomes
<1>3. CASE Kind[at[w]] = "payment" /\ Ingested(w, at[w]) /\ Write(w, "duplicate") /\ Return(w)
  BY <1>1, <1>3, ReturnWorks DEF Outcomes
<1>4. CASE Kind[at[w]] = "payment" /\ Goto(w, "create") /\ UNCHANGED <<tables, at, own>>
  <2>1. pc'[w] = "create"
    BY <1>4 DEF Goto, TypeOK
  <2>2. \A a, n : Wrote(w, a, n)' <=> Wrote(w, a, n)
    BY <1>4 DEF Wrote
  <2>3. \A n \in Emails : Dealt(w, n) => Dealt(w, n)'
    BY <1>4, UnchangedTables, DealtKept
  <2>4. OwnsWhatItWrote(w)' /\ HandlesMessage(w)'
    BY <1>1, <1>4, <2>1 DEF Working, OwnsWhatItWrote, HandlesMessage, Handling, Wrote
  <2>5. MarksWhatItDealtWith(w)'
    BY <1>1, <1>4, <2>1, <2>2, <2>3 DEF Working, MarksWhatItDealtWith, InHand, Handling, tables
  <2>6. TakesInOrder(w)' /\ CountsWhatItMakes(w)'
    BY <1>1, <1>4, <2>1, <2>2 DEF Working, TakesInOrder, CountsWhatItMakes
  <2> QED
    BY <2>4, <2>5, <2>6 DEF Working
<1> QED
  BY <1>1, <1>2, <1>3, <1>4 DEF Parse

\* A worker that has made a transaction has it stored or of its own.
LEMMA CreateWorks ==
    ASSUME TypeOK, TypeOK', NEW w \in Workers, Working(w), Create(w)
    PROVE  Working(w)'
<1>1. /\ OwnsWhatItWrote(w) /\ pc[w] = "create" /\ pc[w] \in Handling
      /\ "made" \in Whats \ {"synced"} /\ Kind[at[w]] = "payment"
      /\ Write(w, "made") /\ UNCHANGED <<crashes, call, todo, at>>
      /\ pc'[w] = "discover"
  BY DEF Working, HandlesMessage, Handling, Whats, Create, Goto, TypeOK
<1>2. PICK m \in Emails : m = at[w] /\ Writes(w, [what |-> "made", email |-> m])
  BY <1>1, WrittenInHand
<1>3. /\ \A a, n : Wrote(w, a, n)' <=>
             Wrote(w, a, n) \/ (Atomic(call[w]) /\ a = "made" /\ n = m)
  BY <1>1, <1>2, WroteMore
<1>a. transactions'[m] > 0 \/ [what |-> "made", email |-> m] \in own'[w]
  BY <1>1, <1>2, WrittenFact
<1>4. HandlesMessage(w)'
  BY <1>1, <1>2, <1>a DEF HandlesMessage, Ingested, Wrote
<1>5. CountsWhatItMakes(w)'
  BY <1>1, <1>2, <1>3 DEF Working, CountsWhatItMakes
<1> QED
  BY <1>1, <1>2, <1>4, <1>5, StepInHand DEF Handling

\* A worker that has discovered an account keeps what it relies on.
LEMMA DiscoverWorks ==
    ASSUME TypeOK, TypeOK', NEW w \in Workers, Working(w), Discover(w)
    PROVE  Working(w)'
<1>1. /\ OwnsWhatItWrote(w) /\ pc[w] = "discover" /\ pc[w] \in Handling
      /\ "counted" \in Whats \ {"synced"} /\ Kind[at[w]] = "payment" /\ Ingested(w, at[w])
      /\ Write(w, "counted") /\ UNCHANGED <<crashes, call, todo, at>>
      /\ pc'[w] = "tell"
  BY DEF Working, HandlesMessage, Handling, Whats, Discover, Goto, TypeOK
<1>2. PICK m \in Emails : m = at[w] /\ Writes(w, [what |-> "counted", email |-> m])
  BY <1>1, WrittenInHand
<1>3. /\ \A a, n : Wrote(w, a, n)' <=>
             Wrote(w, a, n) \/ (Atomic(call[w]) /\ a = "counted" /\ n = m)
      /\ TablesGrow /\ own[w] \subseteq own'[w]
      /\ Atomic(call[w]) => UNCHANGED tables
      /\ ~Atomic(call[w]) => own[w] = {}
  BY <1>1, <1>2, WroteMore
<1>4. Ingested(w, m)'
  BY <1>1, <1>2, <1>3, DealtKept
<1>5. HandlesMessage(w)'
  BY <1>1, <1>2, <1>4 DEF HandlesMessage, Ingested, Wrote
<1>6. CountsWhatItMakes(w)'
  <2>2. Atomic(call[w]) => Wrote(w, "made", m)
    BY <1>1, <1>2 DEF Working, CountsWhatItMakes
  <2>1. CountsWhatItMakes(w) /\ pc[w] = "discover" /\ pc'[w] # "discover"
    BY <1>1 DEF Working
  <2>3. \A n : /\ Wrote(w, "made", n)' <=> Wrote(w, "made", n)
               /\ Wrote(w, "counted", n)' <=>
                      Wrote(w, "counted", n) \/ (Atomic(call[w]) /\ n = m)
    BY <1>3
  <2>4. ASSUME NEW n \in Emails, Wrote(w, "counted", n)' PROVE Wrote(w, "made", n)'
    BY <2>1, <2>2, <2>3, <2>4 DEF CountsWhatItMakes
  <2>5. ASSUME NEW n \in Emails, Wrote(w, "made", n)' PROVE Wrote(w, "counted", n)'
    <3>1. Wrote(w, "made", n) /\ Atomic(call[w])
      BY <1>3, <2>3, <2>5 DEF Wrote
    <3>2. Wrote(w, "counted", n) \/ n = m
      BY <1>2, <2>1, <3>1 DEF CountsWhatItMakes
    <3> QED
      BY <2>3, <3>1, <3>2
  <2> QED
    BY <2>1, <2>4, <2>5 DEF CountsWhatItMakes
<1> QED
  BY <1>1, <1>2, <1>5, <1>6, StepInHand DEF Handling

\* A worker that has recorded the audit event keeps what it relies on.
LEMMA TellWorks ==
    ASSUME TypeOK, TypeOK', NEW w \in Workers, Working(w), Tell(w)
    PROVE  Working(w)'
<1>1. pc[w] = "tell" /\ Kind[at[w]] = "payment" /\ Ingested(w, at[w])
  BY DEF Tell, Working, HandlesMessage
<1>2. Write(w, "parsed") /\ Return(w) /\ UNCHANGED <<call, todo>> /\ "parsed" \in Outcomes
  BY DEF Tell, Outcomes
<1> QED
  BY <1>1, <1>2, ReturnWorks

\* A worker that marks a message has dealt with it.
LEMMA MarkWorks ==
    ASSUME TypeOK, TypeOK', NEW w \in Workers, Working(w), Mark(w)
    PROVE  Working(w)'
<1>1. /\ OwnsWhatItWrote(w) /\ pc[w] = "mark" /\ pc[w] \in Handling /\ pc[w] # "idle"
      /\ "processed" \in Whats \ {"synced"} /\ Write(w, "processed")
      /\ call' = call /\ todo' = todo /\ call[w] # "accounts" /\ pc'[w] = "list"
  BY DEF Working, HandlesMessage, Handling, Whats, Mark, Continue, Goto, TypeOK
<1>2. PICK m \in Emails : m = at[w] /\ Writes(w, [what |-> "processed", email |-> m])
  BY <1>1, WrittenInHand
<1>3. \A a, n : Wrote(w, a, n)' <=>
          Wrote(w, a, n) \/ (Atomic(call[w]) /\ a = "processed" /\ n = m)
  BY <1>1, <1>2, WroteMore
<1>4. Dealt(w, m)
  BY <1>1, <1>2 DEF Working, HandlesMessage
<1>5. HandlesMessage(w)'
  BY <1>1 DEF HandlesMessage
<1>6. CountsWhatItMakes(w)'
  <2>1. CountsWhatItMakes(w) /\ pc[w] # "discover" /\ pc'[w] # "discover"
    BY <1>1 DEF Working
  <2>2. \A n : /\ Wrote(w, "made", n)' <=> Wrote(w, "made", n)
               /\ Wrote(w, "counted", n)' <=> Wrote(w, "counted", n)
    BY <1>3
  <2> QED
    BY <2>1, <2>2 DEF CountsWhatItMakes
<1> QED
  BY <1>1, <1>2, <1>4, <1>5, <1>6, StepInHand

\* Only one worker takes a step.
OnlySteps(w) ==
    \A v \in Workers \ {w} :
        /\ call'[v] = call[v] /\ todo'[v] = todo[v] /\ at'[v] = at[v]
        /\ pc'[v] = pc[v] /\ own'[v] = own[v]

\* A request that renews the token has written nothing else yet.
LEMMA RenewStep ==
    ASSUME TypeOK, NEW w \in Workers, OwnsWhatItWrote(w), Renew(w)
    PROVE  /\ pc[w] = "renew" /\ pc'[w] = "list" /\ call[w] \in Calls
           /\ own'[w] \subseteq {Renewal}
           /\ call[w] = "task" => own'[w] = {}
           /\ \A a : \A m \in Emails : ~Wrote(w, a, m)'
           /\ OnlySteps(w) /\ UNCHANGED <<tables, crashes, call>>
<1>1. /\ pc[w] = "renew" /\ pc' = [pc EXCEPT ![w] = "list"]
      /\ own' = [own EXCEPT ![w] = @ \cup {r \in {Renewal} : Atomic(call[w])}]
      /\ UNCHANGED <<tables, crashes, call, todo, at>>
  BY DEF Renew, Goto
<1>2. own[w] = {} /\ call[w] \in Calls
  BY <1>1 DEF OwnsWhatItWrote
<1>3. own'[w] = {r \in {Renewal} : Atomic(call[w])}
  BY <1>1, <1>2 DEF TypeOK
<1>4. \A a : \A m \in Emails : ~Wrote(w, a, m)'
  BY <1>3, RenewalIsAlone DEF Wrote
<1> QED
  BY <1>1, <1>2, <1>3, <1>4 DEF OnlySteps, TypeOK, Atomic

\* A write of worker w.
LEMMA WriteGrows ==
    ASSUME TypeOK, NEW w \in Workers, OwnsWhatItWrote(w), pc[w] # "idle",
           NEW what \in Whats, NEW m \in Emails, Writes(w, [what |-> what, email |-> m])
    PROVE  TablesGrow /\ \A v \in Workers \ {w} : own'[v] = own[v]
BY WrittenFact

\* Steps lose no row and keep what all workers rely on.
LEMMA WorkersNext ==
    ASSUME TypeOK, TypeOK', WorkersWork, [Next]_vars
    PROVE  TablesGrow /\ WorkersWork'
<1>0. \A w \in Workers : Working(w) /\ OwnsWhatItWrote(w)
  BY DEF WorkersWork, Working
<1>a. ASSUME NEW w \in Workers, TablesGrow, OnlySteps(w), Working(w)'
      PROVE  TablesGrow /\ WorkersWork'
  <2>1. ASSUME NEW v \in Workers, v # w PROVE Working(v)'
    BY <1>0, <1>a, <2>1, OtherWorks DEF OnlySteps
  <2> QED
    BY <1>a, <2>1 DEF WorkersWork
<1>b. ASSUME NEW w \in Workers, pc[w] \in Handling, NEW what \in Whats, Write(w, what),
             UNCHANGED <<call, todo>>,
             \A v \in Workers \ {w} : at'[v] = at[v] /\ pc'[v] = pc[v], Working(w)'
      PROVE  TablesGrow /\ WorkersWork'
  <2>1. pc[w] # "idle" /\ at[w] \in Emails /\ Writes(w, [what |-> what, email |-> at[w]])
    BY <1>0, <1>b, WrittenInHand DEF Handling
  <2>2. TablesGrow /\ \A v \in Workers \ {w} : own'[v] = own[v]
    BY <1>0, <1>b, <2>1, WriteGrows
  <2>3. OnlySteps(w)
    BY <1>b, <2>2 DEF OnlySteps
  <2> QED
    BY <1>a, <1>b, <2>2, <2>3
<1>c. ASSUME NEW w \in Workers, TablesGrow, OnlySteps(w), own'[w] \subseteq {Renewal},
             pc'[w] \in {"idle", "begin", "renew", "list"},
             pc'[w] # "idle" => call'[w] \in Calls,
             pc'[w] = "begin" => call'[w] = "accounts",
             pc'[w] = "renew" => call'[w] # "accounts",
             pc'[w] # "list" \/ call'[w] = "task" => own'[w] = {}
      PROVE  TablesGrow /\ WorkersWork'
  BY <1>a, <1>c, NothingWritten
<1>1. ASSUME NEW w \in Workers, NEW c \in Calls, NEW list \in Listings, Start(w, c, list)
      PROVE  TablesGrow /\ WorkersWork'
  <2>1. TablesGrow
    BY <1>1, UnchangedTables DEF Start
  <2>2. own'[w] = {} /\ call'[w] = c /\ OnlySteps(w)
    BY <1>0, <1>1 DEF Start, Goto, OnlySteps, OwnsWhatItWrote, TypeOK
  <2>3. pc'[w] \in (IF c = "accounts" THEN {"begin"} ELSE {"renew", "list"})
    BY <1>1 DEF Start, Goto, TypeOK
  <2> QED
    BY <1>1, <1>c, <2>1, <2>2, <2>3
<1>2. ASSUME NEW w \in Workers, Begin(w) PROVE TablesGrow /\ WorkersWork'
  <2>1. TablesGrow
    BY <1>2, UnchangedTables DEF Begin
  <2>2. own'[w] = {} /\ call'[w] \in Calls /\ OnlySteps(w) /\ pc'[w] = "list"
    BY <1>0, <1>2 DEF Begin, Goto, OnlySteps, OwnsWhatItWrote, TypeOK
  <2> QED
    BY <1>2, <1>c, <2>1, <2>2
<1>15. ASSUME NEW w \in Workers, Renew(w) PROVE TablesGrow /\ WorkersWork'
  <2>1. TablesGrow
    BY <1>15, UnchangedTables DEF Renew
  <2>2. /\ own'[w] \subseteq {Renewal} /\ call'[w] \in Calls /\ OnlySteps(w) /\ pc'[w] = "list"
        /\ call'[w] = "task" => own'[w] = {}
    BY <1>0, <1>15, RenewStep
  <2> QED
    BY <1>15, <1>c, <2>1, <2>2
<1>3. ASSUME NEW w \in Workers, Upsert(w) PROVE TablesGrow /\ WorkersWork'
  <2>1. PICK m \in Emails :
              /\ todo' = [todo EXCEPT ![w] = @ \ {m}]
              /\ IF Fresh(call[w], m)
                 THEN at' = [at EXCEPT ![w] = m] /\ Goto(w, "parse")
                 ELSE UNCHANGED <<at, pc>>
              /\ Writes(w, [what |-> "synced", email |-> m])
              /\ UNCHANGED <<crashes, call>>
    BY <1>3, UpsertedRow
  <2>2. "synced" \in Whats /\ pc[w] # "idle"
    BY <1>3 DEF Whats, Upsert
  <2>3. TablesGrow /\ \A v \in Workers \ {w} : own'[v] = own[v]
    BY <1>0, <2>1, <2>2, WriteGrows
  <2>4. OnlySteps(w)
    BY <2>1, <2>3 DEF OnlySteps, Goto, TypeOK
  <2> QED
    BY <1>0, <1>3, <1>a, <2>3, <2>4, UpsertWorks
<1>4. ASSUME NEW w \in Workers, Parse(w) PROVE TablesGrow /\ WorkersWork'
  <2>1. Working(w)'
    BY <1>0, <1>4, ParseWorks
  <2>2. /\ pc[w] \in Handling /\ UNCHANGED <<call, todo>>
        /\ \A v \in Workers \ {w} : at'[v] = at[v] /\ pc'[v] = pc[v]
    BY <1>4 DEF Parse, Return, Continue, Goto, Handling, TypeOK
  <2>3. CASE Write(w, "filtered") \/ Write(w, "duplicate")
    <3>1. "filtered" \in Whats /\ "duplicate" \in Whats
      BY DEF Whats, Outcomes
    <3> QED
      BY <1>b, <2>1, <2>2, <2>3, <3>1
  <2>4. CASE UNCHANGED <<tables, own>>
    <3>1. TablesGrow /\ OnlySteps(w)
      BY <2>2, <2>4, UnchangedTables DEF OnlySteps
    <3> QED
      BY <1>a, <2>1, <3>1
  <2> QED
    BY <1>4, <2>3, <2>4 DEF Parse
<1>5. ASSUME NEW w \in Workers, Create(w) PROVE TablesGrow /\ WorkersWork'
  <2>1. /\ pc[w] \in Handling /\ UNCHANGED <<call, todo>> /\ "made" \in Whats /\ Write(w, "made")
        /\ \A v \in Workers \ {w} : at'[v] = at[v] /\ pc'[v] = pc[v]
    BY <1>5 DEF Create, Goto, Handling, Whats, TypeOK
  <2> QED
    BY <1>0, <1>5, <1>b, <2>1, CreateWorks
<1>6. ASSUME NEW w \in Workers, Discover(w) PROVE TablesGrow /\ WorkersWork'
  <2>1. /\ pc[w] \in Handling /\ UNCHANGED <<call, todo>> /\ "counted" \in Whats
        /\ Write(w, "counted")
        /\ \A v \in Workers \ {w} : at'[v] = at[v] /\ pc'[v] = pc[v]
    BY <1>6 DEF Discover, Goto, Handling, Whats, TypeOK
  <2> QED
    BY <1>0, <1>6, <1>b, <2>1, DiscoverWorks
<1>7. ASSUME NEW w \in Workers, Tell(w) PROVE TablesGrow /\ WorkersWork'
  <2>1. /\ pc[w] \in Handling /\ UNCHANGED <<call, todo>> /\ "parsed" \in Whats
        /\ Write(w, "parsed")
        /\ \A v \in Workers \ {w} : at'[v] = at[v] /\ pc'[v] = pc[v]
    BY <1>7 DEF Tell, Return, Continue, Goto, Handling, Whats, Outcomes, TypeOK
  <2> QED
    BY <1>0, <1>7, <1>b, <2>1, TellWorks
<1>8. ASSUME NEW w \in Workers, Mark(w) PROVE TablesGrow /\ WorkersWork'
  <2>1. /\ pc[w] \in Handling /\ UNCHANGED <<call, todo>> /\ "processed" \in Whats
        /\ Write(w, "processed")
        /\ \A v \in Workers \ {w} : at'[v] = at[v] /\ pc'[v] = pc[v]
    BY <1>8 DEF Mark, Continue, Goto, Handling, Whats, TypeOK
  <2> QED
    BY <1>0, <1>8, <1>b, <2>1, MarkWorks
<1>9. ASSUME NEW w \in Workers, Leave(w), TablesGrow PROVE TablesGrow /\ WorkersWork'
  <2>1. own'[w] = {} /\ pc'[w] = "idle" /\ OnlySteps(w)
    BY <1>9 DEF Leave, Goto, OnlySteps, TypeOK
  <2> QED
    BY <1>9, <1>c, <2>1
<1>10. ASSUME NEW w \in Workers, Finish(w) PROVE TablesGrow /\ WorkersWork'
  <2>1. call[w] \in Calls /\ own[w] \in SUBSET Facts
    BY <1>0, <1>10 DEF Finish, Ends, OwnsWhatItWrote, TypeOK
  <2> QED
    BY <1>9, <1>10, <2>1, StoredFacts DEF Finish
<1>11. ASSUME NEW w \in Workers, Fail(w) PROVE TablesGrow /\ WorkersWork'
  BY <1>9, <1>11, UnchangedTables DEF Fail
<1>12. CASE UNCHANGED <<marks, transactions, outcomes, call, todo, at, pc, own>>
  <2>1. TablesGrow
    BY <1>12 DEF TablesGrow, TypeOK
  <2>2. \A v \in Workers : Working(v)'
    BY <1>0, <1>12, <2>1, OtherWorks
  <2> QED
    BY <2>1, <2>2 DEF WorkersWork
<1>13. ASSUME NEW a \in Accounts, DiscoverByHand(a) PROVE TablesGrow /\ WorkersWork'
  BY <1>12, <1>13 DEF DiscoverByHand
<1>14. CASE UNCHANGED vars
  BY <1>12, <1>14 DEF vars
<1> QED
  BY <1>1, <1>2, <1>3, <1>4, <1>5, <1>6, <1>7, <1>8, <1>10, <1>11, <1>13, <1>14, <1>15 DEF Next

\* What is held before the step is all that is held after it, by the same calls.
HoldsNoMore(w) ==
    \A m \in Emails : Wrote(w, "synced", m)' => Wrote(w, "synced", m) /\ call'[w] = call[w]

\* Whoever takes no row leaves every row to at most one worker.
LEMMA HeldOnceKept ==
    ASSUME MessagesAreHeldOnce, \A w \in Workers : HoldsNoMore(w)
    PROVE  MessagesAreHeldOnce'
<1> SUFFICES ASSUME NEW v \in Workers, NEW w \in Workers, NEW m \in Emails, v # w,
                    Path(call'[v]) = Path(call'[w]), Wrote(v, "synced", m)',
                    Wrote(w, "synced", m)'
             PROVE  FALSE
  BY DEF MessagesAreHeldOnce, Path
<1>1. /\ Wrote(v, "synced", m) /\ call'[v] = call[v]
      /\ Wrote(w, "synced", m) /\ call'[w] = call[w]
  BY DEF HoldsNoMore
<1>2. Path(call[v]) = Path(call[w])
  BY <1>1
<1> QED
  BY <1>1, <1>2 DEF MessagesAreHeldOnce

\* A row is taken only when nobody of the same path has it.
LEMMA HeldOnceNext ==
    ASSUME TypeOK, TypeOK', WorkersWork, MessagesAreHeldOnce, [Next]_vars
    PROVE  MessagesAreHeldOnce'
<1>0. \A w \in Workers : OwnsWhatItWrote(w)
  BY DEF WorkersWork, Working
<1>a. \A w \in Workers : own'[w] = {} \/ (own'[w] = own[w] /\ call'[w] = call[w]) => HoldsNoMore(w)
  BY DEF HoldsNoMore, Wrote
<1>b. ASSUME NEW w \in Workers, pc[w] \in Handling, NEW what \in Whats \ {"synced"},
             Write(w, what), call' = call
      PROVE  MessagesAreHeldOnce'
  <2>1. pc[w] # "idle" /\ at[w] \in Emails /\ Writes(w, [what |-> what, email |-> at[w]])
    BY <1>0, <1>b, WrittenInHand DEF Handling
  <2>2. HoldsNoMore(w)
    BY <1>0, <1>b, <2>1, WroteMore DEF HoldsNoMore
  <2>3. \A v \in Workers \ {w} : own'[v] = own[v]
    BY <1>0, <1>b, <2>1, WriteGrows
  <2> QED
    BY <1>a, <1>b, <2>2, <2>3, HeldOnceKept
<1>1. ASSUME NEW w \in Workers, NEW c \in Calls, NEW list \in Listings, Start(w, c, list)
      PROVE  MessagesAreHeldOnce'
  <2>1. own'[w] = {} /\ \A v \in Workers \ {w} : own'[v] = own[v] /\ call'[v] = call[v]
    BY <1>0, <1>1 DEF Start, OwnsWhatItWrote, TypeOK
  <2> QED
    BY <1>a, <2>1, HeldOnceKept
<1>2. ASSUME NEW w \in Workers, Upsert(w) PROVE MessagesAreHeldOnce'
  <2>1. PICK m \in Emails :
              /\ EmailFree(w, m)
              /\ Writes(w, [what |-> "synced", email |-> m])
              /\ UNCHANGED <<crashes, call>>
    BY <1>2, UpsertedRow
  <2>2. "synced" \in Whats /\ pc[w] # "idle"
    BY <1>2 DEF Whats, Upsert
  <2>3. \A n : Wrote(w, "synced", n)' => Wrote(w, "synced", n) \/ n = m
    BY <1>0, <2>1, <2>2, WroteMore
  <2>4. \A v \in Workers \ {w}, n \in Emails : Wrote(v, "synced", n)' => Wrote(v, "synced", n)
    BY <1>0, <2>1, <2>2, WriteGrows DEF Wrote
  <2> SUFFICES ASSUME NEW v \in Workers, NEW u \in Workers, NEW n \in Emails, v # u,
                      Path(call[v]) = Path(call[u]), Wrote(v, "synced", n)',
                      Wrote(u, "synced", n)'
               PROVE  FALSE
    BY <2>1 DEF MessagesAreHeldOnce, Path
  <2>5. CASE v # w /\ u # w
    BY <2>4, <2>5 DEF MessagesAreHeldOnce
  <2>6. CASE v = w
    <3>1. Wrote(u, "synced", n) /\ u \in Workers \ {w} /\ Path(call[u]) = Path(call[w])
      BY <2>4, <2>6
    <3>2. n # m
      BY <2>1, <3>1 DEF EmailFree
    <3> QED
      BY <2>3, <2>6, <3>1, <3>2 DEF MessagesAreHeldOnce
  <2>7. CASE u = w
    <3>1. Wrote(v, "synced", n) /\ v \in Workers \ {w} /\ Path(call[v]) = Path(call[w])
      BY <2>4, <2>7
    <3>2. n # m
      BY <2>1, <3>1 DEF EmailFree
    <3> QED
      BY <2>3, <2>7, <3>1, <3>2 DEF MessagesAreHeldOnce
  <2> QED
    BY <2>5, <2>6, <2>7
<1>3. ASSUME NEW w \in Workers, Parse(w) PROVE MessagesAreHeldOnce'
  <2>1. pc[w] \in Handling /\ call' = call
    BY <1>3 DEF Parse, Handling
  <2>2. CASE Write(w, "filtered") \/ Write(w, "duplicate")
    BY <1>b, <2>1, <2>2 DEF Whats, Outcomes
  <2>3. CASE UNCHANGED own
    BY <1>a, <2>1, <2>3, HeldOnceKept
  <2> QED
    BY <1>3, <2>2, <2>3 DEF Parse
<1>4. ASSUME NEW w \in Workers, Create(w) \/ Discover(w) \/ Tell(w) \/ Mark(w)
      PROVE  MessagesAreHeldOnce'
  BY <1>4, <1>b DEF Create, Discover, Tell, Mark, Handling, Whats, Outcomes
<1>5. ASSUME NEW w \in Workers, Leave(w) PROVE MessagesAreHeldOnce'
  <2>1. own'[w] = {} /\ \A v \in Workers \ {w} : own'[v] = own[v] /\ call'[v] = call[v]
    BY <1>5 DEF Leave, TypeOK
  <2> QED
    BY <1>a, <2>1, HeldOnceKept
<1>6. ASSUME NEW w \in Workers, Finish(w) \/ Fail(w) PROVE MessagesAreHeldOnce'
  BY <1>5, <1>6 DEF Finish, Fail
<1>7. CASE UNCHANGED <<call, own>>
  BY <1>a, <1>7, HeldOnceKept
<1>8. ASSUME NEW w \in Workers, Begin(w) PROVE MessagesAreHeldOnce'
  BY <1>7, <1>8 DEF Begin
<1>11. ASSUME NEW w \in Workers, Renew(w) PROVE MessagesAreHeldOnce'
  <2>1. HoldsNoMore(w) /\ OnlySteps(w)
    BY <1>0, <1>11, RenewStep DEF HoldsNoMore
  <2> QED
    BY <1>a, <2>1, HeldOnceKept DEF OnlySteps
<1>9. ASSUME NEW a \in Accounts, DiscoverByHand(a) PROVE MessagesAreHeldOnce'
  BY <1>7, <1>9 DEF DiscoverByHand
<1>10. CASE UNCHANGED vars
  BY <1>7, <1>10 DEF vars
<1> QED
  BY <1>1, <1>2, <1>3, <1>4, <1>6, <1>8, <1>9, <1>10, <1>11 DEF Next

\* A commit marks nothing that was not dealt with.
LEMMA CommitMarksIngested ==
    ASSUME TypeOK, TypeOK', MarkedMeansIngested, NEW c \in Calls, NEW facts \in SUBSET Facts,
           Store(c, facts),
           \A m \in Emails :
              \/ [what |-> "processed", email |-> m] \in facts
              \/ /\ c = "accounts" /\ marks["accounts"][m] = "none"
                 /\ [what |-> "synced", email |-> m] \in facts
              => /\ outcomes[m] # {} \/ \E o \in Outcomes : [what |-> o, email |-> m] \in facts
                 /\ Kind[m] # "poison"
                 /\ Kind[m] = "payment" =>
                      transactions[m] > 0 \/ [what |-> "made", email |-> m] \in facts
    PROVE  MarkedMeansIngested'
<1>1. /\ TablesGrow
      /\ \A m \in Emails : transactions'[m] =
             transactions[m] + (IF [what |-> "made", email |-> m] \in facts THEN 1 ELSE 0)
      /\ \A m \in Emails, o \in Outcomes :
             [what |-> o, email |-> m] \in facts => o \in outcomes'[m]
      /\ \A p \in Paths, m \in Emails : marks'[p][m] = "done" =>
             \/ marks[p][m] = "done"
             \/ p = Path(c) /\ [what |-> "processed", email |-> m] \in facts
             \/ /\ c = "accounts" /\ p = "accounts" /\ marks["accounts"][m] = "none"
                /\ [what |-> "synced", email |-> m] \in facts
  BY StoredFacts
<1> SUFFICES ASSUME NEW p \in Paths, NEW m \in Emails, marks'[p][m] = "done"
             PROVE  /\ outcomes'[m] # {}
                    /\ Kind[m] # "poison"
                    /\ Kind[m] = "payment" => transactions'[m] > 0
  BY DEF MarkedMeansIngested
<1>2. /\ transactions[m] \in Nat /\ transactions'[m] \in Nat
      /\ transactions[m] <= transactions'[m] /\ outcomes[m] \subseteq outcomes'[m]
  BY <1>1 DEF TypeOK, TablesGrow
<1>3. CASE marks[p][m] = "done"
  BY <1>2, <1>3 DEF MarkedMeansIngested
<1>4. CASE marks[p][m] # "done"
  <2>1. /\ outcomes[m] # {} \/ \E o \in Outcomes : [what |-> o, email |-> m] \in facts
        /\ Kind[m] # "poison"
        /\ Kind[m] = "payment" => transactions[m] > 0 \/ [what |-> "made", email |-> m] \in facts
    BY <1>1, <1>4
  <2>2. outcomes'[m] # {}
    BY <1>1, <1>2, <2>1
  <2>3. [what |-> "made", email |-> m] \in facts => transactions'[m] > 0
    BY <1>1, <1>2
  <2> QED
    BY <1>2, <2>1, <2>2, <2>3
<1> QED
  BY <1>3, <1>4

\* A mark is committed together with, or after, what it tells of.
LEMMA MarkedNext ==
    ASSUME TypeOK, TypeOK', WorkersWork, MarkedMeansIngested, [Next]_vars
    PROVE  MarkedMeansIngested'
<1>0. \A w \in Workers : Working(w) /\ OwnsWhatItWrote(w)
  BY DEF WorkersWork, Working
<1>a. CASE UNCHANGED marks
  <2>1. TablesGrow
    BY WorkersNext
  <2> SUFFICES ASSUME NEW p \in Paths, NEW m \in Emails, marks'[p][m] = "done"
               PROVE  /\ outcomes'[m] # {}
                      /\ Kind[m] # "poison"
                      /\ Kind[m] = "payment" => transactions'[m] > 0
    BY DEF MarkedMeansIngested
  <2>2. outcomes[m] # {} /\ Kind[m] # "poison" /\ (Kind[m] = "payment" => transactions[m] > 0)
    BY <1>a DEF MarkedMeansIngested
  <2>3. /\ transactions[m] \in Nat /\ transactions'[m] \in Nat
        /\ transactions[m] <= transactions'[m] /\ outcomes[m] \subseteq outcomes'[m]
    BY <2>1 DEF TypeOK, TablesGrow
  <2> QED
    BY <2>2, <2>3
<1>b. ASSUME NEW w \in Workers, pc[w] # "idle", NEW what \in Whats, NEW m \in Emails,
             Writes(w, [what |-> what, email |-> m]),
             what = "processed" => Dealt(w, m)
      PROVE  MarkedMeansIngested'
  <2>1. CASE Atomic(call[w])
    BY <1>a, <1>b, <2>1 DEF Writes, tables
  <2>2. CASE ~Atomic(call[w])
    <3> DEFINE facts == {[what |-> what, email |-> m]}
    <3>1. /\ Store(call[w], facts) /\ facts \in SUBSET Facts
          /\ call[w] \in Calls /\ call[w] # "accounts"
      BY <1>0, <1>b, <2>2 DEF Writes, Facts, Whats, OwnsWhatItWrote, Atomic
    <3>2. ASSUME NEW n \in Emails, [what |-> "processed", email |-> n] \in facts
          PROVE  /\ outcomes[n] # {} \/ \E o \in Outcomes : [what |-> o, email |-> n] \in facts
                 /\ Kind[n] # "poison"
                 /\ Kind[n] = "payment" =>
                      transactions[n] > 0 \/ [what |-> "made", email |-> n] \in facts
      <4>1. what = "processed" /\ n = m
        BY <3>2, SameFact
      <4>2. own[w] = {}
        BY <1>0, <1>b, <2>2 DEF OwnsWhatItWrote, Atomic
      <4> QED
        BY <1>b, <4>1, <4>2 DEF Dealt, Wrote, Ingested
    <3> HIDE DEF facts
    <3> QED
      BY <3>1, <3>2, CommitMarksIngested
  <2> QED
    BY <2>1, <2>2
<1>c. ASSUME NEW w \in Workers, pc[w] \in Handling, NEW what \in Whats, Write(w, what),
             what = "processed" => pc[w] = "mark"
      PROVE  MarkedMeansIngested'
  <2>1. pc[w] # "idle" /\ at[w] \in Emails /\ Writes(w, [what |-> what, email |-> at[w]])
    BY <1>0, <1>c, WrittenInHand DEF Handling
  <2>2. what = "processed" => Dealt(w, at[w])
    BY <1>0, <1>c DEF Working, HandlesMessage
  <2> QED
    BY <1>b, <2>1, <2>2
<1>1. ASSUME NEW w \in Workers, Upsert(w) PROVE MarkedMeansIngested'
  <2>1. PICK m \in Emails : Writes(w, [what |-> "synced", email |-> m])
    BY <1>1, UpsertedRow
  <2>2. "synced" \in Whats /\ pc[w] # "idle"
    BY <1>1 DEF Whats, Upsert
  <2> QED
    BY <1>b, <2>1, <2>2
<1>2. ASSUME NEW w \in Workers, Parse(w) PROVE MarkedMeansIngested'
  <2>1. CASE Write(w, "filtered") \/ Write(w, "duplicate")
    BY <1>2, <1>c, <2>1 DEF Parse, Handling, Whats, Outcomes
  <2>2. CASE UNCHANGED tables
    BY <1>a, <2>2 DEF tables
  <2> QED
    BY <1>2, <2>1, <2>2 DEF Parse
<1>3. ASSUME NEW w \in Workers, Create(w) \/ Discover(w) \/ Tell(w) \/ Mark(w)
      PROVE  MarkedMeansIngested'
  BY <1>3, <1>c DEF Create, Discover, Tell, Mark, Handling, Whats, Outcomes
<1>4. ASSUME NEW w \in Workers, Finish(w) PROVE MarkedMeansIngested'
  <2>1. /\ call[w] \in Calls /\ own[w] \in SUBSET Facts /\ pc[w] \notin Handling
        /\ Store(call[w], own[w])
    BY <1>0, <1>4 DEF Finish, Ends, OwnsWhatItWrote, TypeOK, Handling
  <2>2. ASSUME NEW m \in Emails,
               \/ [what |-> "processed", email |-> m] \in own[w]
               \/ /\ call[w] = "accounts" /\ marks["accounts"][m] = "none"
                  /\ [what |-> "synced", email |-> m] \in own[w]
        PROVE  /\ outcomes[m] # {} \/ \E o \in Outcomes : [what |-> o, email |-> m] \in own[w]
               /\ Kind[m] # "poison"
               /\ Kind[m] = "payment" =>
                    transactions[m] > 0 \/ [what |-> "made", email |-> m] \in own[w]
    <3>1. Dealt(w, m)
      BY <1>0, <2>1, <2>2 DEF Working, MarksWhatItDealtWith, InHand, Wrote
    <3> QED
      BY <3>1 DEF Dealt, Wrote, Ingested
  <2> DEFINE c == call[w]
             facts == own[w]
  <2>3. c \in Calls /\ facts \in SUBSET Facts /\ Store(c, facts)
    BY <2>1
  <2>4. \A m \in Emails :
            \/ [what |-> "processed", email |-> m] \in facts
            \/ /\ c = "accounts" /\ marks["accounts"][m] = "none"
               /\ [what |-> "synced", email |-> m] \in facts
            => /\ outcomes[m] # {} \/ \E o \in Outcomes : [what |-> o, email |-> m] \in facts
               /\ Kind[m] # "poison"
               /\ Kind[m] = "payment" =>
                    transactions[m] > 0 \/ [what |-> "made", email |-> m] \in facts
    BY <2>2
  <2> HIDE DEF c, facts
  <2> QED
    BY <2>3, <2>4, CommitMarksIngested
<1>5. ASSUME NEW w \in Workers, Fail(w) PROVE MarkedMeansIngested'
  BY <1>5, <1>a DEF Fail, tables
<1>6. ASSUME NEW w \in Workers, NEW c \in Calls, NEW list \in Listings, Start(w, c, list)
      PROVE  MarkedMeansIngested'
  BY <1>6, <1>a DEF Start, tables
<1>7. ASSUME NEW w \in Workers, Begin(w) PROVE MarkedMeansIngested'
  BY <1>7, <1>a DEF Begin, tables
<1>10. ASSUME NEW w \in Workers, Renew(w) PROVE MarkedMeansIngested'
  BY <1>10, <1>a DEF Renew, tables
<1>8. ASSUME NEW a \in Accounts, DiscoverByHand(a) PROVE MarkedMeansIngested'
  BY <1>8, <1>a DEF DiscoverByHand
<1>9. CASE UNCHANGED vars
  BY <1>9, <1>a DEF vars
<1> QED
  BY <1>1, <1>2, <1>3, <1>4, <1>5, <1>6, <1>7, <1>8, <1>9, <1>10 DEF Next

\* The invariant holds of the empty tables.
LEMMA InvInit == Init => IngestionInv
<1> SUFFICES ASSUME Init PROVE IngestionInv
  OBVIOUS
<1>1. TypeOK
  BY TypeInit
<1>2. \A w \in Workers : pc[w] = "idle" /\ own[w] = {} /\ todo[w] = {}
  BY DEF Init
<1>3. \A w \in Workers : \A a, m : ~Wrote(w, a, m)
  BY <1>2 DEF Wrote
<1>4. \A w \in Workers : OwnsWhatItWrote(w) /\ HandlesMessage(w)
  BY <1>2 DEF OwnsWhatItWrote, HandlesMessage, Handling
<1>5. WorkersWork
  BY <1>2, <1>3, <1>4
     DEF WorkersWork, Working, MarksWhatItDealtWith, TakesInOrder, CountsWhatItMakes
<1>6. MessagesAreHeldOnce
  BY <1>3 DEF MessagesAreHeldOnce
<1>7. MarkedMeansIngested
  BY DEF Init, MarkedMeansIngested
<1> QED
  BY <1>1, <1>5, <1>6, <1>7 DEF IngestionInv

\* Every step keeps the invariant.
LEMMA InvNext == IngestionInv /\ [Next]_vars => IngestionInv'
BY TypeNext, WorkersNext, HeldOnceNext, MarkedNext DEF IngestionInv

\* The invariant holds in every reachable state.
LEMMA InvAlways == Spec => []IngestionInv
BY InvInit, InvNext, PTL DEF Spec

(***************************************************************************)
(* The theorems.                                                           *)
(***************************************************************************)

\* Every variable keeps its type: the tables and transactions of
\* GmailIngestionService and of both syncs stay well formed.
THEOREM TypeCorrect == Spec => []TypeOK
<1>1. IngestionInv => TypeOK
  BY DEF IngestionInv
<1> QED
  BY <1>1, InvAlways, PTL

\* A message that a sync will not look at again was really dealt with: its outcome
\* is on record and a payment has its transaction, for sync_emails, whose rows and
\* transactions commit together, and for sync_messages, whose task commits each
\* statement and may die between any two.
THEOREM MarkedCorrect == Spec => []MarkedMeansIngested
<1>1. IngestionInv => MarkedMeansIngested
  BY DEF IngestionInv
<1> QED
  BY <1>1, InvAlways, PTL

\* The order in which both syncs take the messages, oldest listed first, leaves only
\* account rows to deadlock over: of two calls that wait for each other one is in
\* discover_account, or one has renewed the token and holds the row in which the
\* other, at its end, wants to save last_sync_at.
THEOREM DeadlocksCorrect == Spec => []OnlyAccountsDeadlock
<1>1. IngestionInv => OnlyAccountsDeadlock
  <2> SUFFICES ASSUME IngestionInv, NEW v \in Workers, NEW w \in Workers, v # w,
                      WaitsFor(v, w), WaitsFor(w, v), pc[v] # "discover", pc[w] # "discover",
                      ~(Ends(v) /\ Renewal \in own[w]), ~(Ends(w) /\ Renewal \in own[v])
               PROVE  FALSE
    BY DEF OnlyAccountsDeadlock
  <2> USE DEF IngestionInv
  <2>1. Working(v) /\ Working(w) /\ OwnsWhatItWrote(v) /\ OwnsWhatItWrote(w)
    BY DEF WorkersWork, Working
  \* A worker that waits for the mailbox, or to save its token, has written nothing yet.
  <2>2. ASSUME NEW x \in Workers, NEW y \in Workers, OwnsWhatItWrote(x), WaitsFor(y, x),
               pc[y] # "discover", pc[x] \in {"begin", "renew"}
        PROVE  FALSE
    <3>1. own[x] = {} /\ (pc[x] = "begin" \/ call[x] # "accounts")
      BY <2>2 DEF OwnsWhatItWrote
    <3> QED
      BY <2>2, <3>1 DEF WaitsFor, Wrote
  <2>3. pc[v] \notin {"begin", "renew"} /\ pc[w] \notin {"begin", "renew"}
    BY <2>1, <2>2
  <2>4. PICK m \in Emails :
            /\ pc[v] \in {"list", "mark"} /\ Path(call[v]) = Path(call[w])
            /\ m \in (IF pc[v] = "mark" THEN {at[v]} ELSE NextMessage(todo[v]))
            /\ Wrote(w, "synced", m)
    BY <2>3 DEF WaitsFor
  <2>5. PICK n \in Emails :
            /\ pc[w] \in {"list", "mark"}
            /\ n \in (IF pc[w] = "mark" THEN {at[w]} ELSE NextMessage(todo[w]))
            /\ Wrote(v, "synced", n)
    BY <2>3 DEF WaitsFor
  \* Who has written a message has it to itself, so nobody waits to mark it.
  <2>6. ASSUME NEW x \in Workers, NEW y \in Workers, x # y, NEW k \in Emails,
               OwnsWhatItWrote(x), Path(call[x]) = Path(call[y]), pc[x] = "mark", at[x] = k,
               Wrote(y, "synced", k), NEW l, Wrote(x, "synced", l)
        PROVE  FALSE
    <3>1. call[x] # "task" /\ pc[x] \in Handling
      BY <2>6 DEF OwnsWhatItWrote, Wrote, Handling
    <3>2. Wrote(x, "synced", k)
      BY <2>6, <3>1 DEF OwnsWhatItWrote, Atomic
    <3> QED
      BY <2>6, <3>2 DEF MessagesAreHeldOnce
  <2>7. pc[v] = "list" /\ pc[w] = "list"
    BY <2>1, <2>4, <2>5, <2>6
  \* Each has written what the other still has to come to.
  <2>8. m \in todo[v] /\ n \in todo[w]
    BY <2>4, <2>5, <2>7 DEF NextMessage
  <2>9. n < m /\ m < n /\ m \in Nat /\ n \in Nat
    BY <2>1, <2>4, <2>5, <2>8, EmailsAssumption DEF Working, TakesInOrder
  <2> QED
    BY <2>9
<1> QED
  BY <1>1, InvAlways, PTL

(***************************************************************************)
(* How many transactions a message may have.                               *)
(***************************************************************************)

\* The workers that have looked for a transaction of message m and are about to make
\* one, or have made one that is not committed.
Making(m) == {w \in Workers : Wrote(w, "made", m) \/ (pc[w] = "create" /\ at[w] = m)}

MadeAndMakingAreBounded ==
    \A m \in Emails : transactions[m] + Cardinality(Making(m)) <= Cardinality(Workers)

\* The workers that are about to make a transaction can be counted.
LEMMA MakingIsFinite ==
    \A m : /\ IsFiniteSet(Making(m)) /\ Cardinality(Making(m)) \in Nat
           /\ Cardinality(Making(m)) <= Cardinality(Workers)
           /\ Cardinality(Workers) \in Nat
<1> TAKE m
<1>1. Making(m) \in SUBSET Workers
  BY DEF Making
<1> QED
  BY <1>1, WorkersAssumption, FS_Subset, FS_CardinalityType

\* What a step may do to one message: nobody new makes a transaction of it, one worker
\* is done making one, or there was none and there is none yet.
Unmade(m) == transactions'[m] = transactions[m] /\ Making(m)' \subseteq Making(m)

MadeBy(w, m) ==
    /\ transactions'[m] = transactions[m] + 1
    /\ w \in Making(m)
    /\ Making(m)' \subseteq Making(m) \ {w}

\* The bound is kept by the three kinds of step there are for a message.
LEMMA BoundKept ==
    ASSUME TypeOK, TypeOK', MadeAndMakingAreBounded, NEW m \in Emails,
           \/ Unmade(m)
           \/ \E w \in Workers : MadeBy(w, m)
           \/ transactions'[m] = 0
    PROVE  transactions'[m] + Cardinality(Making(m)') <= Cardinality(Workers)
<1>1. /\ IsFiniteSet(Making(m)) /\ Cardinality(Making(m)) \in Nat /\ Cardinality(Workers) \in Nat
      /\ transactions[m] \in Nat /\ transactions'[m] \in Nat
      /\ transactions[m] + Cardinality(Making(m)) <= Cardinality(Workers)
  BY MakingIsFinite DEF TypeOK, MadeAndMakingAreBounded
<1>2. /\ IsFiniteSet(Making(m)') /\ Cardinality(Making(m)') \in Nat
      /\ Cardinality(Making(m)') <= Cardinality(Workers)
  <2>1. Making(m)' \in SUBSET Workers
    BY DEF Making
  <2> QED
    BY <2>1, WorkersAssumption, FS_Subset, FS_CardinalityType
<1>3. CASE Unmade(m)
  <2>1. Cardinality(Making(m)') <= Cardinality(Making(m))
    BY <1>1, <1>3, FS_Subset DEF Unmade
  <2> QED
    BY <1>1, <1>2, <1>3, <2>1 DEF Unmade
<1>4. ASSUME NEW w \in Workers, MadeBy(w, m)
      PROVE  transactions'[m] + Cardinality(Making(m)') <= Cardinality(Workers)
  <2>1. IsFiniteSet(Making(m) \ {w}) /\ Cardinality(Making(m) \ {w}) = Cardinality(Making(m)) - 1
    BY <1>1, <1>4, FS_RemoveElement DEF MadeBy
  <2>2. Cardinality(Making(m)') <= Cardinality(Making(m) \ {w})
    BY <1>4, <2>1, FS_Subset DEF MadeBy
  <2> QED
    BY <1>1, <1>2, <1>4, <2>1, <2>2 DEF MadeBy
<1>5. CASE transactions'[m] = 0
  BY <1>1, <1>2, <1>5
<1> QED
  BY <1>3, <1>4, <1>5

\* Every step is of one of these kinds for every message.
LEMMA BoundedNext ==
    ASSUME IngestionInv, TypeOK', MadeAndMakingAreBounded, [Next]_vars
    PROVE  MadeAndMakingAreBounded'
<1> USE DEF IngestionInv
<1>0. \A w \in Workers : Working(w) /\ OwnsWhatItWrote(w)
  BY DEF WorkersWork, Working
<1> SUFFICES ASSUME NEW m \in Emails
             PROVE  \/ Unmade(m)
                    \/ \E w \in Workers : MadeBy(w, m)
                    \/ transactions'[m] = 0
  BY BoundKept DEF MadeAndMakingAreBounded
<1>a. transactions[m] \in Nat
  BY DEF TypeOK
\* A step of w after which it makes no more than before.
<1>b. ASSUME NEW w \in Workers, OnlySteps(w), w \in Making(m)' => w \in Making(m)
      PROVE  Making(m)' \subseteq Making(m)
  <2>1. ASSUME NEW v \in Workers \ {w}, v \in Making(m)' PROVE v \in Making(m)
    BY <1>b, <2>1 DEF Making, OnlySteps, Wrote
  <2>2. Making(m)' \subseteq Workers
    BY DEF Making
  <2> QED
    BY <1>b, <2>1, <2>2
<1>c. ASSUME NEW w \in Workers, pc[w] # "idle", NEW what \in Whats \ {"made"}, NEW n \in Emails,
             Writes(w, [what |-> what, email |-> n]),
             pc'[w] # "create", call' = call,
             \A v \in Workers \ {w} : todo'[v] = todo[v] /\ at'[v] = at[v] /\ pc'[v] = pc[v]
      PROVE  Unmade(m)
  <2>1. /\ \A k : Wrote(w, "made", k)' <=> Wrote(w, "made", k)
        /\ Atomic(call[w]) => UNCHANGED tables
    BY <1>0, <1>c, WroteMore
  <2>2. OnlySteps(w)
    BY <1>0, <1>c, WriteGrows DEF OnlySteps
  <2>3. w \in Making(m)' => w \in Making(m)
    BY <1>c, <2>1 DEF Making
  <2>4. transactions'[m] = transactions[m]
    <3>1. CASE Atomic(call[w])
      BY <2>1, <3>1 DEF tables
    <3>2. CASE ~Atomic(call[w])
      <4>1. /\ Store(call[w], {[what |-> what, email |-> n]}) /\ call[w] \in Calls
            /\ [what |-> what, email |-> n] \in Facts
        BY <1>0, <1>c, <3>2 DEF Writes, OwnsWhatItWrote, Facts, Whats
      <4>2. [what |-> "made", email |-> m] \notin {[what |-> what, email |-> n]}
        BY <1>c, SameFact
      <4>3. transactions'[m] = transactions[m] + 0
        BY <4>1, <4>2, StoredFacts
      <4> QED
        BY <1>a, <4>3
    <3> QED
      BY <3>1, <3>2
  <2> QED
    BY <1>b, <2>2, <2>3, <2>4 DEF Unmade
<1>d. ASSUME NEW w \in Workers, pc[w] \in Handling, NEW what \in Whats \ {"made"},
             Write(w, what), pc'[w] # "create", call' = call, todo' = todo,
             \A v \in Workers \ {w} : at'[v] = at[v] /\ pc'[v] = pc[v]
      PROVE  Unmade(m)
  <2>1. pc[w] # "idle" /\ at[w] \in Emails /\ Writes(w, [what |-> what, email |-> at[w]])
    BY <1>0, <1>d, WrittenInHand DEF Handling
  <2> QED
    BY <1>c, <1>d, <2>1
<1>e. ASSUME NEW w \in Workers, transactions'[m] = transactions[m], OnlySteps(w),
             own'[w] = {}, pc'[w] # "create"
      PROVE  Unmade(m)
  <2>1. w \notin Making(m)'
    BY <1>e DEF Making, Wrote
  <2> QED
    BY <1>b, <1>e, <2>1 DEF Unmade
<1>1. ASSUME NEW w \in Workers, NEW c \in Calls, NEW list \in Listings, Start(w, c, list)
      PROVE  Unmade(m)
  <2>1. own'[w] = {} /\ OnlySteps(w) /\ transactions' = transactions /\ pc'[w] # "create"
    BY <1>0, <1>1 DEF Start, Goto, OnlySteps, OwnsWhatItWrote, TypeOK, tables
  <2> QED
    BY <1>e, <2>1
<1>2. ASSUME NEW w \in Workers, Begin(w) PROVE Unmade(m)
  <2>1. own'[w] = {} /\ OnlySteps(w) /\ transactions' = transactions /\ pc'[w] # "create"
    BY <1>0, <1>2 DEF Begin, Goto, OnlySteps, OwnsWhatItWrote, TypeOK, tables
  <2> QED
    BY <1>e, <2>1
<1>3. ASSUME NEW w \in Workers, Upsert(w) PROVE Unmade(m)
  <2>1. PICK n \in Emails :
              /\ todo' = [todo EXCEPT ![w] = @ \ {n}]
              /\ IF Fresh(call[w], n)
                 THEN at' = [at EXCEPT ![w] = n] /\ Goto(w, "parse")
                 ELSE UNCHANGED <<at, pc>>
              /\ Writes(w, [what |-> "synced", email |-> n])
              /\ UNCHANGED <<crashes, call>>
    BY <1>3, UpsertedRow
  <2>2. "synced" \in Whats \ {"made"} /\ pc[w] = "list"
    BY <1>3 DEF Whats, Upsert
  <2>3. /\ pc'[w] # "create"
        /\ \A v \in Workers \ {w} : todo'[v] = todo[v] /\ at'[v] = at[v] /\ pc'[v] = pc[v]
    BY <2>1, <2>2 DEF Goto, TypeOK
  <2> QED
    BY <1>c, <2>1, <2>2, <2>3
<1>4. ASSUME NEW w \in Workers, Parse(w) PROVE Unmade(m) \/ transactions'[m] = 0
  <2>0. /\ pc[w] \in Handling /\ call' = call /\ todo' = todo
        /\ \A v \in Workers \ {w} : at'[v] = at[v] /\ pc'[v] = pc[v]
    BY <1>4 DEF Parse, Return, Continue, Goto, Handling, TypeOK
  <2>1. CASE (Write(w, "filtered") \/ Write(w, "duplicate")) /\ Return(w)
    <3>1. pc'[w] # "create"
      BY <2>1 DEF Return, Continue, Goto, TypeOK
    <3>2. "filtered" \in Whats \ {"made"} /\ "duplicate" \in Whats \ {"made"}
      BY DEF Whats, Outcomes
    <3> QED
      BY <1>d, <2>0, <2>1, <3>1, <3>2
  <2>2. CASE ~Ingested(w, at[w]) /\ Goto(w, "create") /\ UNCHANGED <<tables, at, own>>
    <3>1. transactions' = transactions /\ OnlySteps(w)
      BY <2>0, <2>2 DEF tables, OnlySteps
    <3>2. CASE at[w] = m
      BY <1>a, <2>2, <3>1, <3>2 DEF Ingested
    <3>3. CASE at[w] # m
      <4>1. w \in Making(m)' => w \in Making(m)
        BY <2>2, <3>3 DEF Making, Wrote
      <4> QED
        BY <1>b, <3>1, <4>1 DEF Unmade
    <3> QED
      BY <3>2, <3>3
  <2> QED
    BY <1>4, <2>1, <2>2 DEF Parse
<1>5. ASSUME NEW w \in Workers, Create(w) PROVE Unmade(m) \/ MadeBy(w, m)
  <2>1. /\ pc[w] = "create" /\ pc[w] \in Handling /\ pc[w] # "idle" /\ "made" \in Whats
        /\ Write(w, "made") /\ UNCHANGED <<call, todo, at>> /\ pc'[w] = "discover"
        /\ \A v \in Workers \ {w} : pc'[v] = pc[v]
    BY <1>5 DEF Create, Goto, Handling, Whats, TypeOK
  <2>2. PICK n \in Emails : n = at[w] /\ Writes(w, [what |-> "made", email |-> n])
    BY <1>0, <2>1, WrittenInHand
  <2>3. /\ \A k : Wrote(w, "made", k)' <=> Wrote(w, "made", k) \/ (Atomic(call[w]) /\ k = n)
        /\ Atomic(call[w]) => UNCHANGED tables
        /\ ~Atomic(call[w]) => own'[w] = {}
    BY <1>0, <2>1, <2>2, WroteMore
  <2>4. OnlySteps(w)
    BY <1>0, <2>1, <2>2, WriteGrows DEF OnlySteps
  <2>5. w \in Making(n)
    BY <2>1, <2>2 DEF Making
  <2>6. CASE Atomic(call[w])
    <3>1. w \in Making(m)' => w \in Making(m)
      BY <2>1, <2>3, <2>5 DEF Making
    <3> QED
      BY <1>b, <2>3, <2>4, <2>6, <3>1 DEF Unmade, tables
  <2>7. CASE ~Atomic(call[w])
    <3>1. w \notin Making(m)'
      BY <2>1, <2>3, <2>7 DEF Making, Wrote
    <3>2. Making(m)' \subseteq Making(m) \ {w}
      BY <1>b, <2>4, <3>1
    <3>3. /\ Store(call[w], {[what |-> "made", email |-> n]}) /\ call[w] \in Calls
          /\ [what |-> "made", email |-> n] \in Facts
      BY <1>0, <2>1, <2>2, <2>7 DEF Writes, OwnsWhatItWrote, Facts, Whats
    <3>4. transactions'[m] = transactions[m] +
              (IF [what |-> "made", email |-> m] \in {[what |-> "made", email |-> n]} THEN 1 ELSE 0)
      BY <3>3, StoredFacts
    <3>5. CASE m = n
      BY <1>a, <2>5, <3>2, <3>4, <3>5 DEF MadeBy
    <3>6. CASE m # n
      <4>1. transactions'[m] = transactions[m] + 0
        BY <3>4, <3>6, SameFact
      <4> QED
        BY <1>a, <3>2, <4>1 DEF Unmade
    <3> QED
      BY <3>5, <3>6
  <2> QED
    BY <2>6, <2>7
<1>6. ASSUME NEW w \in Workers, Discover(w) \/ Tell(w) \/ Mark(w) PROVE Unmade(m)
  <2>1. /\ pc[w] \in Handling /\ pc'[w] # "create" /\ call' = call /\ todo' = todo
        /\ \A v \in Workers \ {w} : at'[v] = at[v] /\ pc'[v] = pc[v]
    BY <1>6 DEF Discover, Tell, Mark, Return, Continue, Goto, Handling, TypeOK
  <2>2. Write(w, "counted") \/ Write(w, "parsed") \/ Write(w, "processed")
    BY <1>6 DEF Discover, Tell, Mark
  <2> QED
    BY <1>d, <2>1, <2>2 DEF Whats, Outcomes
<1>7. ASSUME NEW w \in Workers, Finish(w) PROVE Unmade(m) \/ MadeBy(w, m)
  <2>1. own'[w] = {} /\ pc'[w] = "idle" /\ OnlySteps(w)
    BY <1>7 DEF Finish, Leave, Goto, OnlySteps, TypeOK
  <2>2. call[w] \in Calls /\ own[w] \in SUBSET Facts /\ Store(call[w], own[w])
    BY <1>0, <1>7 DEF Finish, Ends, OwnsWhatItWrote, TypeOK
  <2>3. transactions'[m] =
            transactions[m] + (IF [what |-> "made", email |-> m] \in own[w] THEN 1 ELSE 0)
    BY <2>2, StoredFacts
  <2>4. CASE Wrote(w, "made", m)
    <3>1. w \in Making(m) /\ w \notin Making(m)'
      BY <2>1, <2>4 DEF Making, Wrote
    <3>2. Making(m)' \subseteq Making(m) \ {w}
      BY <1>b, <2>1, <3>1
    <3> QED
      BY <2>3, <2>4, <3>1, <3>2 DEF MadeBy, Wrote
  <2>5. CASE ~Wrote(w, "made", m)
    <3>1. transactions'[m] = transactions[m]
      BY <1>a, <2>3, <2>5 DEF Wrote
    <3> QED
      BY <1>e, <2>1, <3>1
  <2> QED
    BY <2>4, <2>5
<1>8. ASSUME NEW w \in Workers, Fail(w) PROVE Unmade(m)
  <2>1. own'[w] = {} /\ pc'[w] = "idle" /\ OnlySteps(w) /\ transactions' = transactions
    BY <1>8 DEF Fail, Leave, Goto, OnlySteps, TypeOK, tables
  <2> QED
    BY <1>e, <2>1
<1>9. ASSUME UNCHANGED <<transactions, at, pc, own>> PROVE Unmade(m)
  BY <1>9 DEF Unmade, Making, Wrote
<1>12. ASSUME NEW w \in Workers, Renew(w) PROVE Unmade(m)
  <2>1. /\ pc'[w] = "list" /\ ~Wrote(w, "made", m)' /\ OnlySteps(w)
        /\ transactions' = transactions
    BY <1>0, <1>12, RenewStep DEF tables
  <2>2. w \notin Making(m)'
    BY <2>1 DEF Making
  <2> QED
    BY <1>b, <2>1, <2>2 DEF Unmade
<1>10. ASSUME NEW a \in Accounts, DiscoverByHand(a) PROVE Unmade(m)
  <2>1. UNCHANGED <<transactions, at, pc, own>>
    BY <1>10 DEF DiscoverByHand
  <2> QED
    BY <1>9, <2>1
<1>11. CASE UNCHANGED vars
  <2>1. UNCHANGED <<transactions, at, pc, own>>
    BY <1>11 DEF vars
  <2> QED
    BY <1>9, <2>1
<1> QED
  BY <1>1, <1>2, <1>3, <1>4, <1>5, <1>6, <1>7, <1>8, <1>10, <1>11, <1>12 DEF Next

\* There are no transactions at first.
LEMMA BoundedInit == Init => MadeAndMakingAreBounded
<1> SUFFICES ASSUME Init, NEW m \in Emails
             PROVE  transactions[m] + Cardinality(Making(m)) <= Cardinality(Workers)
  BY DEF MadeAndMakingAreBounded
<1>1. transactions[m] = 0
  BY DEF Init
<1>2. /\ Cardinality(Making(m)) \in Nat /\ Cardinality(Workers) \in Nat
      /\ Cardinality(Making(m)) <= Cardinality(Workers)
  BY MakingIsFinite
<1> HIDE DEF Making
<1> QED
  BY <1>1, <1>2

\* However often a mailbox is synced, by either path, and whatever dies, a message has
\* at most one transaction per worker: the look-up of ingest_message stops whoever
\* looks after a commit, not those that look at the same time.
THEOREM DuplicatesBounded == Spec => []DuplicatesAreBounded
<1>1. Init => MadeAndMakingAreBounded
  BY BoundedInit
<1>2. IngestionInv /\ MadeAndMakingAreBounded /\ [Next]_vars => MadeAndMakingAreBounded'
  BY BoundedNext, InvNext DEF IngestionInv
<1>3. IngestionInv /\ MadeAndMakingAreBounded => DuplicatesAreBounded
  <2> SUFFICES ASSUME IngestionInv, MadeAndMakingAreBounded, NEW m \in Emails
               PROVE  transactions[m] <= Cardinality(Workers)
    BY DEF DuplicatesAreBounded
  <2>1. transactions[m] \in Nat /\ transactions[m] + Cardinality(Making(m)) <= Cardinality(Workers)
    BY DEF IngestionInv, TypeOK, MadeAndMakingAreBounded
  <2> QED
    BY <2>1, MakingIsFinite
<1> QED
  BY <1>1, <1>2, <1>3, InvAlways, PTL DEF Spec

(***************************************************************************)
(* How supporting_email_count and the transactions of an account grow.     *)
(***************************************************************************)

\* The messages about account a of which the facts tell something.
About(facts, what, a) ==
    {m \in Emails : [what |-> what, email |-> m] \in facts /\ Account[m] = a}

\* The facts of one kind about an account can be counted.
LEMMA AboutIsFinite ==
    \A facts, what, a : /\ IsFiniteSet(About(facts, what, a))
                        /\ Cardinality(About(facts, what, a)) \in Nat
<1> TAKE facts, what, a
<1>1. About(facts, what, a) \in SUBSET Emails
  BY DEF About
<1> QED
  BY <1>1, EmailsAssumption, FS_Subset, FS_CardinalityType

\* The transactions of an account can be counted.
LEMMA MadeIsFinite ==
    ASSUME TypeOK, NEW a
    PROVE  IsFiniteSet(Made(a)) /\ Cardinality(Made(a)) \in Nat
<1> DEFINE about == {e \in Emails : Account[e] = a}
           rows(m) == {m} \X (1 .. transactions[m])
           f == [m \in about |-> rows(m)]
           all == {rows(m) : m \in about}
<1>1. IsFiniteSet(about)
  BY EmailsAssumption, FS_Subset
<1>2. f \in Surjection(about, all)
  BY DEF Surjection
<1>3. IsFiniteSet(all)
  BY <1>1, <1>2, FS_Surjection
<1>4. \A m \in about : IsFiniteSet(rows(m))
  <2> TAKE m \in about
  <2>1. transactions[m] \in Int /\ 1 \in Int
    BY DEF TypeOK
  <2>2. IsFiniteSet({m}) /\ IsFiniteSet(1 .. transactions[m])
    BY <2>1, FS_Singleton, FS_Interval
  <2> QED
    BY <2>2, FS_Product
<1>5. IsFiniteSet(UNION all)
  BY <1>3, <1>4, FS_UNION
<1>6. Made(a) = UNION all
  BY DEF Made
<1> QED
  BY <1>5, <1>6, FS_CardinalityType

\* A commit adds as many transactions and supporting emails as its facts tell.
LEMMA StoredMade ==
    ASSUME TypeOK, NEW c \in Calls, NEW facts \in SUBSET Facts, Store(c, facts), NEW a
    PROVE  Cardinality(Made(a)') = Cardinality(Made(a)) + Cardinality(About(facts, "made", a))
<1> DEFINE made == About(facts, "made", a)
           row(m) == <<m, transactions[m] + 1>>
           g == [m \in made |-> row(m)]
           rows == {row(m) : m \in made}
<1>0. \A m \in Emails :
          /\ transactions[m] \in Nat
          /\ transactions'[m] = IF Account[m] = a /\ m \in made THEN transactions[m] + 1
                                ELSE IF Account[m] = a THEN transactions[m] ELSE transactions'[m]
  <2> SUFFICES ASSUME NEW m \in Emails, Account[m] = a
               PROVE  transactions'[m] = IF m \in made THEN transactions[m] + 1 ELSE transactions[m]
    BY DEF TypeOK
  <2>1. transactions[m] \in Nat
    BY DEF TypeOK
  <2>2. m \in made <=> [what |-> "made", email |-> m] \in facts
    BY DEF About
  <2>3. transactions'[m] =
            transactions[m] + (IF [what |-> "made", email |-> m] \in facts THEN 1 ELSE 0)
    BY StoredFacts
  <2> HIDE DEF made
  <2> QED
    BY <2>1, <2>2, <2>3
<1>1. \A p : p \in Made(a) <=>
          \E m \in Emails : Account[m] = a /\ \E i \in 1 .. transactions[m] : p = <<m, i>>
  BY DEF Made
<1>2. \A p : p \in Made(a)' <=>
          \E m \in Emails : Account[m] = a /\ \E i \in 1 .. transactions'[m] : p = <<m, i>>
  BY DEF Made
<1>3. \A m \in Emails : \A i : i \in 1 .. (transactions[m] + 1) <=>
          i \in 1 .. transactions[m] \/ i = transactions[m] + 1
  BY <1>0
<1>4. \A m \in Emails : Account[m] = a => \A i : i \in 1 .. transactions'[m] <=>
          i \in 1 .. transactions[m] \/ (m \in made /\ i = transactions[m] + 1)
  <2> SUFFICES ASSUME NEW m \in Emails, Account[m] = a, NEW i
               PROVE  i \in 1 .. transactions'[m] <=>
                          i \in 1 .. transactions[m] \/ (m \in made /\ i = transactions[m] + 1)
    OBVIOUS
  <2>1. CASE m \in made
    BY <1>0, <1>3, <2>1
  <2>2. CASE m \notin made
    BY <1>0, <2>2
  <2> QED
    BY <2>1, <2>2
<1>5. \A m \in made : m \in Emails /\ Account[m] = a
  BY DEF About
<1>6. Made(a)' = Made(a) \cup rows
  <2> HIDE DEF made
  <2>1. ASSUME NEW p \in Made(a)' PROVE p \in Made(a) \cup rows
    <3>1. PICK m \in Emails : Account[m] = a /\ \E i \in 1 .. transactions'[m] : p = <<m, i>>
      BY <1>2
    <3>2. PICK i \in 1 .. transactions'[m] : p = <<m, i>>
      BY <3>1
    <3>3. i \in 1 .. transactions[m] \/ (m \in made /\ i = transactions[m] + 1)
      BY <1>4, <3>1
    <3> QED
      BY <1>1, <3>1, <3>2, <3>3
  <2>2. ASSUME NEW p \in Made(a) PROVE p \in Made(a)'
    BY <1>1, <1>2, <1>4
  <2>3. ASSUME NEW p \in rows PROVE p \in Made(a)'
    <3>1. PICK m \in made : p = <<m, transactions[m] + 1>>
      OBVIOUS
    <3>2. m \in Emails /\ Account[m] = a
      BY <1>5
    <3>3. transactions[m] + 1 \in 1 .. transactions'[m]
      BY <1>4, <3>2
    <3> QED
      BY <1>2, <3>1, <3>2, <3>3
  <2> QED
    BY <2>1, <2>2, <2>3
<1>7. Made(a) \cap rows = {}
  <2> SUFFICES ASSUME NEW p \in Made(a), p \in rows PROVE FALSE
    OBVIOUS
  <2>1. PICK m \in made : p = <<m, transactions[m] + 1>>
    OBVIOUS
  <2>2. PICK n \in Emails : \E i \in 1 .. transactions[n] : p = <<n, i>>
    BY <1>1
  <2>3. PICK i \in 1 .. transactions[n] : p = <<n, i>>
    BY <2>2
  <2>4. n = m /\ i = transactions[m] + 1 /\ transactions[m] \in Nat
    BY <1>0, <1>5, <2>1, <2>3
  <2> QED
    BY <2>3, <2>4
<1>8. IsFiniteSet(rows) /\ Cardinality(rows) = Cardinality(made)
  <2>1. IsFiniteSet(made)
    BY AboutIsFinite
  <2> HIDE DEF made
  <2>2. g \in [made -> rows] /\ \A p \in rows : \E m \in made : g[m] = p
    OBVIOUS
  <2>3. \A m, n \in made : g[m] = g[n] => m = n
    OBVIOUS
  <2>4. g \in Bijection(made, rows)
    BY <2>2, <2>3 DEF Bijection, Injection, IsInjective, Surjection
  <2> QED
    BY <2>1, <2>4, FS_Bijection DEF ExistsBijection
<1>9. IsFiniteSet(Made(a)) /\ Cardinality(Made(a)) \in Nat
  BY MadeIsFinite
<1>10. Cardinality(made) \in Nat
  BY AboutIsFinite
<1> HIDE DEF made, rows
<1>11. Cardinality(Made(a) \cup rows) =
          Cardinality(Made(a)) + Cardinality(rows) - Cardinality(Made(a) \cap rows)
  BY <1>8, <1>9, FS_Union
<1>12. Cardinality(Made(a) \cap rows) = 0
  BY <1>7, FS_EmptySet
<1>13. Cardinality(Made(a)') = Cardinality(Made(a)) + Cardinality(made)
  BY <1>6, <1>8, <1>9, <1>10, <1>11, <1>12
<1> QED
  BY <1>13 DEF made

\* Storing facts adds to the supporting count the counts among them.
LEMMA StoredSupport ==
    ASSUME TypeOK, NEW c \in Calls, NEW facts \in SUBSET Facts, Store(c, facts),
           NEW a \in Accounts
    PROVE  support'[a] = support[a] + Cardinality(About(facts, "counted", a))
<1> DEFINE counted == About(facts, "counted", a)
           told == {f \in facts : f.what = "counted" /\ Account[f.email] = a}
           fact(m) == [what |-> "counted", email |-> m]
           h == [m \in counted |-> fact(m)]
<1>1. h \in Bijection(counted, told)
  <2>1. h \in [counted -> told]
    BY DEF About
  <2>2. \A m, n \in counted : h[m] = h[n] => m = n
    BY SameFact
  <2>3. ASSUME NEW f \in told PROVE \E m \in counted : h[m] = f
    <3>1. f \in Facts /\ f.what = "counted" /\ Account[f.email] = a /\ f \in facts
      OBVIOUS
    <3>2. f.email \in Emails /\ f = [what |-> "counted", email |-> f.email]
      BY <3>1 DEF Facts, Renewal
    <3>3. f.email \in counted
      BY <3>1, <3>2 DEF About
    <3> QED
      BY <3>2, <3>3
  <2> QED
    BY <2>1, <2>2, <2>3 DEF Bijection, Injection, IsInjective, Surjection
<1>2. IsFiniteSet(counted)
  BY AboutIsFinite
<1> HIDE DEF counted, told
<1>3. Cardinality(told) = Cardinality(counted)
  BY <1>1, <1>2, FS_Bijection DEF ExistsBijection
<1>4. support'[a] = support[a] + Cardinality(told)
  BY DEF Store, Support, told
<1> QED
  BY <1>3, <1>4 DEF counted

\* The count of an account, with what tasks still have to count, is ahead of its
\* transactions by one at most, for the account added by hand, and behind by what
\* tasks left uncounted when they died.
Between(a) ==
    /\ support[a] + Cardinality(Open(a)) <= Cardinality(Made(a)) + (IF support[a] = 0 THEN 0 ELSE 1)
    /\ Cardinality(Made(a)) <= support[a] + Cardinality(Open(a)) + crashes

CountsAreBetween == \A a \in Accounts : Between(a)

\* The transactions still to be counted can be counted themselves.
LEMMA OpenIsFinite ==
    ASSUME NEW a
    PROVE  IsFiniteSet(Open(a)) /\ Cardinality(Open(a)) \in Nat
<1>1. Open(a) \in SUBSET Workers
  BY DEF Open
<1> QED
  BY <1>1, WorkersAssumption, FS_Subset, FS_CardinalityType

\* And so they can after a step.
LEMMA OpenIsFiniteNext ==
    ASSUME NEW a
    PROVE  IsFiniteSet(Open(a)') /\ Cardinality(Open(a)') \in Nat
<1>1. Open(a)' \in SUBSET Workers
  BY DEF Open
<1> QED
  BY <1>1, WorkersAssumption, FS_Subset, FS_CardinalityType

\* What a step may do to the numbers of one account: commit as many counts as
\* transactions, make one that is left to count, count one that was left, die before
\* counting, or have the account added by hand.
SameAdded(a) == \E k \in Nat :
    /\ support'[a] = support[a] + k
    /\ Cardinality(Made(a)') = Cardinality(Made(a)) + k
    /\ Open(a)' = Open(a) /\ crashes' >= crashes

MadeUncounted(a, w) ==
    /\ support'[a] = support[a] /\ crashes' = crashes
    /\ Cardinality(Made(a)') = Cardinality(Made(a)) + 1
    /\ w \notin Open(a) /\ Open(a)' = Open(a) \cup {w}

CountedMade(a, w) ==
    /\ support'[a] = support[a] + 1 /\ crashes' = crashes
    /\ Cardinality(Made(a)') = Cardinality(Made(a))
    /\ w \in Open(a) /\ Open(a)' = Open(a) \ {w}

DiedUncounted(a, w) ==
    /\ support'[a] = support[a] /\ crashes' = crashes + 1
    /\ Cardinality(Made(a)') = Cardinality(Made(a))
    /\ w \in Open(a) /\ Open(a)' = Open(a) \ {w}

AddedByHand(a) ==
    /\ support[a] = 0 /\ support'[a] = 1 /\ crashes' = crashes
    /\ Cardinality(Made(a)') = Cardinality(Made(a))
    /\ Open(a)' = Open(a)

\* The count stays between its bounds in the five kinds of step there are for an account.
LEMMA BetweenKept ==
    ASSUME TypeOK, TypeOK', NEW a \in Accounts, Between(a),
           \/ SameAdded(a)
           \/ \E w \in Workers : MadeUncounted(a, w) \/ CountedMade(a, w) \/ DiedUncounted(a, w)
           \/ AddedByHand(a)
    PROVE  Between(a)'
<1> DEFINE S == support[a]
           S1 == support'[a]
           M == Cardinality(Made(a))
           M1 == Cardinality(Made(a)')
           O == Cardinality(Open(a))
           O1 == Cardinality(Open(a)')
           C == crashes
           C1 == crashes'
<1>1. S \in Nat /\ S1 \in Nat /\ C \in Nat /\ C1 \in Nat
  BY CrashesAssumption DEF TypeOK
<1>2. M \in Nat /\ O \in Nat /\ O1 \in Nat
  BY MadeIsFinite, OpenIsFinite, OpenIsFiniteNext
<1>3. S + O <= M + (IF S = 0 THEN 0 ELSE 1) /\ M <= S + O + C
  BY DEF Between
<1>a. S1 + O1 <= M1 + (IF S1 = 0 THEN 0 ELSE 1) /\ M1 <= S1 + O1 + C1 => Between(a)'
  BY DEF Between
<1>4. CASE SameAdded(a)
  <2>1. PICK k \in Nat : S1 = S + k /\ M1 = M + k /\ O1 = O /\ C1 >= C
    BY <1>4 DEF SameAdded
  <2> HIDE DEF S, S1, M, M1, O, O1, C, C1
  <2>2. CASE S1 = 0
    BY <1>1, <1>2, <1>3, <1>a, <2>1, <2>2
  <2>3. CASE S1 # 0
    BY <1>1, <1>2, <1>3, <1>a, <2>1, <2>3
  <2> QED
    BY <2>2, <2>3
<1>5. ASSUME NEW w \in Workers, MadeUncounted(a, w) PROVE Between(a)'
  <2>1. O1 = O + 1
    BY <1>5, OpenIsFinite, FS_AddElement DEF MadeUncounted
  <2>2. S1 = S /\ M1 = M + 1 /\ C1 = C
    BY <1>5 DEF MadeUncounted
  <2> HIDE DEF S, S1, M, M1, O, O1, C, C1
  <2> QED
    BY <1>1, <1>2, <1>3, <1>a, <2>1, <2>2
<1>6. ASSUME NEW w \in Workers, CountedMade(a, w) PROVE Between(a)'
  <2>1. O1 = O - 1
    BY <1>6, OpenIsFinite, FS_RemoveElement DEF CountedMade
  <2>2. S1 = S + 1 /\ M1 = M /\ C1 = C
    BY <1>6 DEF CountedMade
  <2> HIDE DEF S, S1, M, M1, O, O1, C, C1
  <2> QED
    BY <1>1, <1>2, <1>3, <1>a, <2>1, <2>2
<1>7. ASSUME NEW w \in Workers, DiedUncounted(a, w) PROVE Between(a)'
  <2>1. O1 = O - 1
    BY <1>7, OpenIsFinite, FS_RemoveElement DEF DiedUncounted
  <2>2. S1 = S /\ M1 = M /\ C1 = C + 1
    BY <1>7 DEF DiedUncounted
  <2> HIDE DEF S, S1, M, M1, O, O1, C, C1
  <2> QED
    BY <1>1, <1>2, <1>3, <1>a, <2>1, <2>2
<1>8. CASE AddedByHand(a)
  <2>1. S = 0 /\ S1 = 1 /\ M1 = M /\ O1 = O /\ C1 = C
    BY <1>8 DEF AddedByHand
  <2> HIDE DEF S, S1, M, M1, O, O1, C, C1
  <2> QED
    BY <1>1, <1>2, <1>3, <1>a, <2>1
<1> QED
  BY <1>4, <1>5, <1>6, <1>7, <1>8

\* What a write does to the numbers: nothing, unless a task makes or counts one.
LEMMA WrittenCounts ==
    ASSUME TypeOK, NEW w \in Workers, OwnsWhatItWrote(w), pc[w] # "idle",
           NEW what \in Whats, NEW n \in Emails, Writes(w, [what |-> what, email |-> n]),
           NEW a \in Accounts
    PROVE  /\ Cardinality(Made(a)') = Cardinality(Made(a)) +
                  (IF ~Atomic(call[w]) /\ what = "made" /\ Account[n] = a THEN 1 ELSE 0)
           /\ support'[a] = support[a] +
                  (IF ~Atomic(call[w]) /\ what = "counted" /\ Account[n] = a THEN 1 ELSE 0)
<1>1. Cardinality(Made(a)) \in Nat /\ support[a] \in Nat
  BY MadeIsFinite DEF TypeOK
<1>2. CASE Atomic(call[w])
  <2>1. Made(a)' = Made(a) /\ support' = support
    BY <1>2 DEF Writes, tables, Made
  <2> HIDE DEF Made
  <2> QED
    BY <1>1, <1>2, <2>1
<1>3. CASE ~Atomic(call[w])
  <2> DEFINE facts == {[what |-> what, email |-> n]}
  <2>1. call[w] \in Calls /\ facts \in SUBSET Facts /\ Store(call[w], facts)
    BY <1>3 DEF Writes, OwnsWhatItWrote, Facts, Whats
  <2>2. ASSUME NEW b
        PROVE  Cardinality(About(facts, b, a)) = IF what = b /\ Account[n] = a THEN 1 ELSE 0
    <3>1. CASE what = b /\ Account[n] = a
      <4>1. About(facts, b, a) = {n}
        BY <3>1, SameFact DEF About
      <4> QED
        BY <3>1, <4>1, FS_Singleton
    <3>2. CASE ~(what = b /\ Account[n] = a)
      <4>1. About(facts, b, a) = {}
        BY <3>2, SameFact DEF About
      <4> QED
        BY <3>2, <4>1, FS_EmptySet
    <3> QED
      BY <3>1, <3>2
  <2> HIDE DEF facts
  <2>3. Cardinality(Made(a)') = Cardinality(Made(a)) + Cardinality(About(facts, "made", a))
    BY <2>1, StoredMade
  <2>4. support'[a] = support[a] + Cardinality(About(facts, "counted", a))
    BY <2>1, StoredSupport
  <2> QED
    BY <1>1, <1>3, <2>2, <2>3, <2>4
<1> QED
  BY <1>2, <1>3

\* Every step is of one of these kinds for every account.
LEMMA CountsNext ==
    ASSUME IngestionInv, TypeOK', CountsAreBetween, [Next]_vars
    PROVE  CountsAreBetween'
<1> USE DEF IngestionInv
<1>0. \A w \in Workers : Working(w) /\ OwnsWhatItWrote(w)
  BY DEF WorkersWork, Working
<1> SUFFICES ASSUME NEW a \in Accounts
             PROVE  \/ SameAdded(a)
                    \/ \E w \in Workers :
                          MadeUncounted(a, w) \/ CountedMade(a, w) \/ DiedUncounted(a, w)
                    \/ AddedByHand(a)
  BY BetweenKept DEF CountsAreBetween
<1>a. Cardinality(Made(a)) \in Nat /\ support[a] \in Nat /\ crashes \in Nat
  BY MadeIsFinite, CrashesAssumption DEF TypeOK
<1>b. ASSUME support'[a] = support[a], Cardinality(Made(a)') = Cardinality(Made(a)),
             Open(a)' = Open(a), crashes' >= crashes
      PROVE  SameAdded(a)
  <2>1. support'[a] = support[a] + 0 /\ Cardinality(Made(a)') = Cardinality(Made(a)) + 0
    BY <1>a, <1>b
  <2> QED
    BY <1>b, <2>1 DEF SameAdded
<1>c. ASSUME NEW w \in Workers, OnlySteps(w)
      PROVE  Open(a)' = IF w \in Open(a)' THEN (Open(a) \ {w}) \cup {w} ELSE Open(a) \ {w}
  <2>1. \A v \in Workers \ {w} : v \in Open(a)' <=> v \in Open(a)
    BY <1>c DEF Open, OnlySteps
  <2>2. Open(a) \subseteq Workers /\ Open(a)' \subseteq Workers
    BY DEF Open
  <2> QED
    BY <2>1, <2>2
<1>d. ASSUME NEW w \in Workers, OnlySteps(w), w \notin Open(a), w \notin Open(a)'
      PROVE  Open(a)' = Open(a)
  BY <1>c, <1>d
<1>e. ASSUME UNCHANGED transactions PROVE Cardinality(Made(a)') = Cardinality(Made(a))
  <2>1. Made(a)' = Made(a)
    BY <1>e DEF Made
  <2> QED
    BY <2>1
\* A write that neither makes nor counts, and steps that write nothing.
<1>f. ASSUME NEW w \in Workers, pc[w] \notin {"idle", "discover"}, pc'[w] # "discover",
             NEW what \in Whats \ {"made", "counted"}, NEW n \in Emails,
             Writes(w, [what |-> what, email |-> n]), UNCHANGED <<call, crashes>>,
             \A v \in Workers \ {w} : todo'[v] = todo[v] /\ at'[v] = at[v] /\ pc'[v] = pc[v]
      PROVE  SameAdded(a)
  <2>1. support'[a] = support[a] /\ Cardinality(Made(a)') = Cardinality(Made(a))
    BY <1>0, <1>a, <1>f, WrittenCounts
  <2>2. OnlySteps(w)
    BY <1>0, <1>f, WriteGrows DEF OnlySteps
  <2>3. w \notin Open(a) /\ w \notin Open(a)'
    BY <1>f DEF Open
  <2> QED
    BY <1>a, <1>b, <1>d, <1>f, <2>1, <2>2, <2>3
<1>g. ASSUME NEW w \in Workers, OnlySteps(w), pc[w] # "discover", pc'[w] # "discover",
             UNCHANGED <<support, transactions>>, crashes' >= crashes
      PROVE  SameAdded(a)
  <2>1. w \notin Open(a) /\ w \notin Open(a)'
    BY <1>g DEF Open
  <2> QED
    BY <1>b, <1>d, <1>e, <1>g, <2>1
<1>1. ASSUME NEW w \in Workers, NEW c \in Calls, NEW list \in Listings, Start(w, c, list)
      PROVE  SameAdded(a)
  <2>1. /\ OnlySteps(w) /\ pc[w] # "discover" /\ pc'[w] # "discover"
        /\ UNCHANGED <<support, transactions, crashes>>
    BY <1>1 DEF Start, Goto, OnlySteps, TypeOK, tables
  <2> QED
    BY <1>a, <1>g, <2>1
<1>2. ASSUME NEW w \in Workers, Begin(w) PROVE SameAdded(a)
  <2>1. /\ OnlySteps(w) /\ pc[w] # "discover" /\ pc'[w] # "discover"
        /\ UNCHANGED <<support, transactions, crashes>>
    BY <1>2 DEF Begin, Goto, OnlySteps, TypeOK, tables
  <2> QED
    BY <1>a, <1>g, <2>1
<1>12. ASSUME NEW w \in Workers, Renew(w) PROVE SameAdded(a)
  <2>1. /\ OnlySteps(w) /\ pc[w] # "discover" /\ pc'[w] # "discover"
        /\ UNCHANGED <<support, transactions, crashes>>
    BY <1>0, <1>12, RenewStep DEF tables
  <2> QED
    BY <1>a, <1>g, <2>1
<1>3. ASSUME NEW w \in Workers, Upsert(w) PROVE SameAdded(a)
  <2>1. PICK n \in Emails :
              /\ todo' = [todo EXCEPT ![w] = @ \ {n}]
              /\ IF Fresh(call[w], n)
                 THEN at' = [at EXCEPT ![w] = n] /\ Goto(w, "parse")
                 ELSE UNCHANGED <<at, pc>>
              /\ Writes(w, [what |-> "synced", email |-> n])
              /\ UNCHANGED <<crashes, call>>
    BY <1>3, UpsertedRow
  <2>2. "synced" \in Whats \ {"made", "counted"} /\ pc[w] = "list"
    BY <1>3 DEF Whats, Upsert
  <2>3. /\ pc'[w] # "discover"
        /\ \A v \in Workers \ {w} : todo'[v] = todo[v] /\ at'[v] = at[v] /\ pc'[v] = pc[v]
    BY <2>1, <2>2 DEF Goto, TypeOK
  <2> QED
    BY <1>f, <2>1, <2>2, <2>3
<1>h. ASSUME NEW w \in Workers, pc[w] \in Handling \ {"discover"}, pc'[w] # "discover",
             NEW what \in Whats \ {"made", "counted"}, Write(w, what),
             UNCHANGED <<crashes, call, todo>>,
             \A v \in Workers \ {w} : at'[v] = at[v] /\ pc'[v] = pc[v]
      PROVE  SameAdded(a)
  <2>1. /\ pc[w] \notin {"idle", "discover"} /\ at[w] \in Emails
        /\ Writes(w, [what |-> what, email |-> at[w]])
    BY <1>0, <1>h, WrittenInHand DEF Handling
  <2> QED
    BY <1>f, <1>h, <2>1
<1>4. ASSUME NEW w \in Workers, Parse(w) PROVE SameAdded(a)
  <2>1. /\ pc[w] \in Handling \ {"discover"} /\ pc'[w] # "discover"
        /\ UNCHANGED <<crashes, call, todo>>
        /\ \A v \in Workers \ {w} : at'[v] = at[v] /\ pc'[v] = pc[v]
    BY <1>4 DEF Parse, Return, Continue, Goto, Handling, TypeOK
  <2>2. CASE Write(w, "filtered") \/ Write(w, "duplicate")
    BY <1>h, <2>1, <2>2 DEF Whats, Outcomes
  <2>3. CASE UNCHANGED <<tables, own>>
    <3>1. OnlySteps(w) /\ UNCHANGED <<support, transactions>> /\ crashes' >= crashes
      BY <1>a, <2>1, <2>3 DEF OnlySteps, tables
    <3> QED
      BY <1>g, <2>1, <3>1
  <2> QED
    BY <1>4, <2>2, <2>3 DEF Parse
<1>5. ASSUME NEW w \in Workers, Create(w) PROVE SameAdded(a) \/ MadeUncounted(a, w)
  <2>1. /\ pc[w] = "create" /\ pc[w] \in Handling /\ pc[w] # "idle" /\ "made" \in Whats
        /\ Write(w, "made") /\ UNCHANGED <<crashes, call, todo, at>> /\ pc'[w] = "discover"
        /\ \A v \in Workers \ {w} : pc'[v] = pc[v]
    BY <1>5 DEF Create, Goto, Handling, Whats, TypeOK
  <2>2. PICK n \in Emails : n = at[w] /\ Writes(w, [what |-> "made", email |-> n])
    BY <1>0, <2>1, WrittenInHand
  <2>3. /\ Cardinality(Made(a)') = Cardinality(Made(a)) +
              (IF ~Atomic(call[w]) /\ Account[n] = a THEN 1 ELSE 0)
        /\ support'[a] = support[a]
    BY <1>0, <1>a, <2>1, <2>2, WrittenCounts
  <2>4. OnlySteps(w)
    BY <1>0, <2>1, <2>2, WriteGrows DEF OnlySteps
  <2>5. w \notin Open(a) /\ (w \in Open(a)' <=> ~Atomic(call[w]) /\ Account[n] = a)
    BY <2>1, <2>2 DEF Open, Atomic
  <2>6. CASE ~Atomic(call[w]) /\ Account[n] = a
    <3>1. Open(a)' = Open(a) \cup {w}
      BY <1>c, <2>4, <2>5, <2>6
    <3> QED
      BY <2>1, <2>3, <2>5, <2>6, <3>1 DEF MadeUncounted
  <2>7. CASE ~(~Atomic(call[w]) /\ Account[n] = a)
    <3>1. Open(a)' = Open(a)
      BY <1>d, <2>4, <2>5, <2>7
    <3> QED
      BY <1>a, <1>b, <2>1, <2>3, <2>7, <3>1
  <2> QED
    BY <2>6, <2>7
<1>6. ASSUME NEW w \in Workers, Discover(w) PROVE SameAdded(a) \/ CountedMade(a, w)
  <2>1. /\ pc[w] = "discover" /\ pc[w] \in Handling /\ pc[w] # "idle" /\ "counted" \in Whats
        /\ Write(w, "counted") /\ UNCHANGED <<crashes, call, todo, at>> /\ pc'[w] = "tell"
        /\ \A v \in Workers \ {w} : pc'[v] = pc[v]
    BY <1>6 DEF Discover, Goto, Handling, Whats, TypeOK
  <2>2. PICK n \in Emails : n = at[w] /\ Writes(w, [what |-> "counted", email |-> n])
    BY <1>0, <2>1, WrittenInHand
  <2>3. /\ Cardinality(Made(a)') = Cardinality(Made(a))
        /\ support'[a] = support[a] +
              (IF ~Atomic(call[w]) /\ Account[n] = a THEN 1 ELSE 0)
    BY <1>0, <1>a, <2>1, <2>2, WrittenCounts
  <2>4. OnlySteps(w)
    BY <1>0, <2>1, <2>2, WriteGrows DEF OnlySteps
  <2>5. w \notin Open(a)' /\ (w \in Open(a) <=> ~Atomic(call[w]) /\ Account[n] = a)
    BY <1>0, <2>1, <2>2 DEF Open, Atomic, OwnsWhatItWrote, Calls, Paths
  <2>6. CASE ~Atomic(call[w]) /\ Account[n] = a
    <3>1. Open(a)' = Open(a) \ {w}
      BY <1>c, <2>4, <2>5, <2>6
    <3> QED
      BY <2>1, <2>3, <2>5, <2>6, <3>1 DEF CountedMade
  <2>7. CASE ~(~Atomic(call[w]) /\ Account[n] = a)
    <3>1. Open(a)' = Open(a)
      BY <1>d, <2>4, <2>5, <2>7
    <3> QED
      BY <1>a, <1>b, <2>1, <2>3, <2>7, <3>1
  <2> QED
    BY <2>6, <2>7
<1>7. ASSUME NEW w \in Workers, Tell(w) \/ Mark(w) PROVE SameAdded(a)
  <2>1. /\ pc[w] \in Handling \ {"discover"} /\ pc'[w] # "discover"
        /\ UNCHANGED <<crashes, call, todo>>
        /\ \A v \in Workers \ {w} : at'[v] = at[v] /\ pc'[v] = pc[v]
    BY <1>7 DEF Tell, Mark, Return, Continue, Goto, Handling, TypeOK
  <2>2. Write(w, "parsed") \/ Write(w, "processed")
    BY <1>7 DEF Tell, Mark
  <2> QED
    BY <1>h, <2>1, <2>2 DEF Whats, Outcomes
\* A transaction that commits has counted what it has made.
<1>8. ASSUME NEW w \in Workers, Finish(w) PROVE SameAdded(a)
  <2>1. pc[w] = "list" /\ pc'[w] = "idle" /\ OnlySteps(w) /\ crashes' = crashes
    BY <1>8 DEF Finish, Ends, Leave, Goto, OnlySteps, TypeOK
  <2> DEFINE facts == own[w]
  <2>2. call[w] \in Calls /\ facts \in SUBSET Facts /\ Store(call[w], facts)
    BY <1>0, <1>8 DEF Finish, Ends, OwnsWhatItWrote, TypeOK
  <2>3. About(facts, "made", a) = About(facts, "counted", a)
    BY <1>0, <2>1 DEF Working, CountsWhatItMakes, About, Wrote
  <2>4. w \notin Open(a) /\ w \notin Open(a)'
    BY <2>1 DEF Open
  <2>5. Open(a)' = Open(a)
    BY <1>d, <2>1, <2>4
  <2> HIDE DEF facts
  <2>6. /\ Cardinality(Made(a)') = Cardinality(Made(a)) + Cardinality(About(facts, "made", a))
        /\ support'[a] = support[a] + Cardinality(About(facts, "counted", a))
        /\ Cardinality(About(facts, "counted", a)) \in Nat
    BY <2>2, StoredMade, StoredSupport, AboutIsFinite
  <2> QED
    BY <1>a, <2>1, <2>3, <2>5, <2>6 DEF SameAdded
<1>9. ASSUME NEW w \in Workers, Fail(w) PROVE SameAdded(a) \/ DiedUncounted(a, w)
  <2>1. /\ pc'[w] = "idle" /\ OnlySteps(w) /\ UNCHANGED <<support, transactions>>
        /\ w \notin Open(a)'
    BY <1>9 DEF Fail, Leave, Goto, OnlySteps, TypeOK, tables, Open
  <2>2. crashes' >= crashes
    BY <1>9, <1>a DEF Fail
  <2>3. CASE w \in Open(a)
    <3>1. pc[w] = "discover" /\ call[w] = "task"
      BY <2>3 DEF Open
    <3>2. crashes' = crashes + 1
      BY <1>9, <3>1 DEF Fail, Atomic
    <3>3. Open(a)' = Open(a) \ {w}
      BY <1>c, <2>1
    <3> QED
      BY <1>e, <2>1, <2>3, <3>2, <3>3 DEF DiedUncounted
  <2>4. CASE w \notin Open(a)
    BY <1>b, <1>d, <1>e, <2>1, <2>2, <2>4
  <2> QED
    BY <2>3, <2>4
<1>10. ASSUME NEW b \in Accounts, DiscoverByHand(b) PROVE SameAdded(a) \/ AddedByHand(a)
  <2>1. /\ support[b] = 0 /\ support' = [support EXCEPT ![b] = 1]
        /\ UNCHANGED <<transactions, crashes, call, at, pc>>
    BY <1>10 DEF DiscoverByHand
  <2>2. Open(a)' = Open(a) /\ Cardinality(Made(a)') = Cardinality(Made(a))
    BY <1>e, <2>1 DEF Open
  <2>3. CASE a = b
    <3>1. support'[a] = 1
      BY <2>1, <2>3 DEF TypeOK
    <3> QED
      BY <2>1, <2>2, <2>3, <3>1 DEF AddedByHand
  <2>4. CASE a # b
    <3>1. support'[a] = support[a]
      BY <2>1, <2>4 DEF TypeOK
    <3> QED
      BY <1>a, <1>b, <2>1, <2>2, <3>1
  <2> QED
    BY <2>3, <2>4
<1>11. CASE UNCHANGED vars
  <2>1. UNCHANGED <<transactions, support, crashes, call, at, pc>>
    BY <1>11 DEF vars
  <2>2. Open(a)' = Open(a) /\ Cardinality(Made(a)') = Cardinality(Made(a))
    BY <1>e, <2>1 DEF Open
  <2> QED
    BY <1>a, <1>b, <2>1, <2>2
<1> QED
  BY <1>1, <1>2, <1>3, <1>4, <1>5, <1>6, <1>7, <1>8, <1>9, <1>10, <1>11, <1>12 DEF Next

\* Nothing is made or counted at first.
LEMMA CountsInit == Init => CountsAreBetween
<1> SUFFICES ASSUME Init, NEW a \in Accounts PROVE Between(a)
  BY DEF CountsAreBetween
<1>1. support[a] = 0 /\ crashes = 0
  BY DEF Init
<1>2. Made(a) = {}
  BY DEF Init, Made
<1>3. Open(a) = {}
  BY DEF Init, Open
<1> QED
  BY <1>1, <1>2, <1>3, FS_EmptySet DEF Between

\* supporting_email_count tells how many transactions a bank account has: at most one
\* more, for the account that was added by hand, and fewer only by what tasks have
\* made and not counted, or left uncounted when they died.
THEOREM SupportCorrect == Spec => []SupportTellsTransactions
<1>1. Init => CountsAreBetween
  BY CountsInit
<1>2. IngestionInv /\ CountsAreBetween /\ [Next]_vars => CountsAreBetween'
  BY CountsNext, InvNext DEF IngestionInv
<1>3. IngestionInv /\ CountsAreBetween => SupportTellsTransactions
  <2> SUFFICES ASSUME IngestionInv, CountsAreBetween, NEW a \in Accounts
               PROVE  /\ support[a] <= Cardinality(Made(a)) + 1
                      /\ Cardinality(Made(a)) <= support[a] + Cardinality(Open(a)) + crashes
    BY DEF SupportTellsTransactions
  <2>1. /\ support[a] \in Nat /\ Cardinality(Made(a)) \in Nat /\ Cardinality(Open(a)) \in Nat
        /\ Between(a)
    BY MadeIsFinite, OpenIsFinite DEF IngestionInv, TypeOK, CountsAreBetween
  <2>2. support[a] + Cardinality(Open(a)) <= Cardinality(Made(a)) + 1
    <3>1. CASE support[a] = 0
      BY <2>1, <3>1 DEF Between
    <3>2. CASE support[a] # 0
      BY <2>1, <3>2 DEF Between
    <3> QED
      BY <3>1, <3>2
  <2>3. support[a] <= Cardinality(Made(a)) + 1
    BY <2>1, <2>2
  <2> QED
    BY <2>1, <2>3 DEF Between
<1> QED
  BY <1>1, <1>2, <1>3, InvAlways, PTL DEF Spec
=============================================================================
