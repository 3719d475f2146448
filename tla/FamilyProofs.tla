---------------------------- MODULE FamilyProofs ----------------------------
(***************************************************************************)
(* Theorems about Family, for any users, any finite set of workers and any *)
(* numbers of families and invitations.                                    *)
(***************************************************************************)
EXTENDS Family, FiniteSetTheorems, TLAPS

(***************************************************************************)
(* The inductive invariant.                                                *)
(***************************************************************************)

\* What a worker between two steps of a call relies on: the lock it took is still
\* its own, and what it read under the lock still holds.
HeldRows(w) ==
    /\ tx[w].step \in {"look", "invite", "remove"} =>
        /\ tx[w].family \in Families
        /\ familyLock[tx[w].family] = w
        /\ owner[tx[w].family] \notin {None, tx[w].user}
    /\ tx[w].step = "invite" => <<tx[w].family, tx[w].user>> \notin members
    /\ tx[w].step \in {"accept", "reject"} =>
        /\ tx[w].invitation \in Invitations
        /\ tx[w].family \in Families
        /\ invitationLock[tx[w].invitation] = w
        /\ Pending(tx[w].invitation, tx[w].family, tx[w].user)

HeldRowsAreStable == \A w \in Workers : HeldRows(w)

\* Memberships and invitations are of families that exist, and no invitation is
\* for the owner.
RowsOfFamilies ==
    /\ \A f \in Families, u \in Users : <<f, u>> \in members => owner[f] # None
    /\ \A i \in Invitations, f \in Families, u \in Users :
        Pending(i, f, u) => owner[f] \notin {None, u}

\* A user has at most one pending invitation to a family.
OnePendingInvitation ==
    \A i, j \in Invitations, f \in Families, u \in Users :
        Pending(i, f, u) /\ Pending(j, f, u) => i = j

FamilyInv ==
    /\ TypeOK
    /\ HeldRowsAreStable
    /\ RowsOfFamilies
    /\ OnePendingInvitation
    /\ MembersAreNotInvited
    /\ LedgerTellsMembers

(***************************************************************************)
(* Facts about the operators.                                              *)
(***************************************************************************)

\* A worker in a transaction is described by a record of Transactions.
LEMMA BusyWorker ==
    ASSUME TypeOK, NEW w \in Workers, tx[w].step # "idle"
    PROVE  /\ tx[w] \in Transactions
           /\ tx[w].user \in Users
BY DEF TypeOK, Idle, Transactions

\* The end of a transaction keeps the types of the transactions and the locks,
\* makes its worker idle, and takes nothing from the other workers.
LEMMA EndOfTransaction ==
    ASSUME TypeOK, NEW w \in Workers, End(w)
    PROVE  /\ tx' \in [Workers -> Transactions \cup {Idle}]
           /\ familyLock' \in [Families -> Workers \cup {None}]
           /\ invitationLock' \in [Invitations -> Workers \cup {None}]
           /\ tx'[w] = Idle
           /\ \A v \in Workers \ {w} :
                /\ tx'[v] = tx[v]
                /\ \A f \in Families : familyLock[f] = v => familyLock'[f] = v
                /\ \A i \in Invitations : invitationLock[i] = v => invitationLock'[i] = v
<1>1. tx' = [tx EXCEPT ![w] = Idle]
  BY DEF End
<1>2. familyLock' = [f \in Families |-> IF familyLock[f] = w THEN None ELSE familyLock[f]]
  BY DEF End
<1>3. invitationLock' = [i \in Invitations |-> IF invitationLock[i] = w THEN None ELSE invitationLock[i]]
  BY DEF End
<1> QED
  BY <1>1, <1>2, <1>3 DEF TypeOK

\* An action more in the ledger.
LEMMA LedgerEntry ==
    ASSUME TypeOK, NEW f \in Families, NEW u \in Users, NEW a \in Actions,
           ledger' = [ledger EXCEPT ![<<f, u>>] = Append(@, a)]
    PROVE  /\ ledger' \in [Families \X Users -> Seq(Actions)]
           /\ ledger'[f, u] = Append(ledger[f, u], a)
           /\ \A g \in Families, v \in Users : <<g, v>> # <<f, u>> => ledger'[g, v] = ledger[g, v]
<1> DEFINE p == <<f, u>>
<1>1. p \in Families \X Users
  OBVIOUS
<1>2. ledger \in [Families \X Users -> Seq(Actions)]
  BY DEF TypeOK
<1>3. Append(ledger[p], a) \in Seq(Actions)
  BY <1>1, <1>2
<1>4. ledger' = [ledger EXCEPT ![p] = Append(ledger[p], a)]
  OBVIOUS
<1>5. \A g \in Families, v \in Users : <<g, v>> \in Families \X Users
  OBVIOUS
<1>6. ledger'[p] = Append(ledger[p], a) /\ \A q \in Families \X Users : q # p => ledger'[q] = ledger[q]
  BY <1>1, <1>2, <1>4
<1>7. ledger' \in [Families \X Users -> Seq(Actions)]
  <2> HIDE DEF p
  <2> QED
    BY <1>1, <1>2, <1>3, <1>4
<1> QED
  BY <1>5, <1>6, <1>7

\* An answer changes the status of the worker's invitation and nothing else.
LEMMA AnsweredInvitation ==
    ASSUME TypeOK, HeldRowsAreStable, NEW w \in Workers, NEW a \in {"accepted", "rejected"},
           tx[w].step \in {"accept", "reject"},
           invitations' = [invitations EXCEPT ![tx[w].invitation].status = a]
    PROVE  /\ invitations' \in [Invitations -> InvitationRows \cup {NoInvitation}]
           /\ invitations'[tx[w].invitation].status = a
           /\ invitations'[tx[w].invitation].family = tx[w].family
           /\ invitations'[tx[w].invitation].user = tx[w].user
           /\ \A i \in Invitations \ {tx[w].invitation} : invitations'[i] = invitations[i]
<1> DEFINE i == tx[w].invitation
           row == [invitations[i] EXCEPT !.status = a]
<1>1. i \in Invitations /\ Pending(i, tx[w].family, tx[w].user)
  BY DEF HeldRowsAreStable, HeldRows
<1>2. invitations[i] \in InvitationRows
  BY <1>1 DEF TypeOK, Pending, NoInvitation
<1>3. /\ row \in InvitationRows
      /\ row.status = a
      /\ row.family = tx[w].family
      /\ row.user = tx[w].user
  BY <1>1, <1>2 DEF InvitationRows, Pending
<1>4. invitations' = [invitations EXCEPT ![i] = row]
  OBVIOUS
<1>5. invitations \in [Invitations -> InvitationRows \cup {NoInvitation}]
  BY DEF TypeOK
<1> HIDE DEF i, row
<1>6. /\ invitations' \in [Invitations -> InvitationRows \cup {NoInvitation}]
      /\ invitations'[i] = row
      /\ \A j \in Invitations \ {i} : invitations'[j] = invitations[j]
  BY <1>1, <1>3, <1>4, <1>5
<1> QED
  BY <1>3, <1>6 DEF i

(***************************************************************************)
(* Type correctness.                                                       *)
(***************************************************************************)

\* The types hold of the empty tables.
LEMMA TypeInit == Init => TypeOK
<1> SUFFICES ASSUME Init PROVE TypeOK
  OBVIOUS
<1>1. <<>> \in Seq(Actions)
  OBVIOUS
<1>2. ledger \in [Families \X Users -> Seq(Actions)]
  BY <1>1 DEF Init
<1> QED
  BY <1>2 DEF Init, TypeOK

\* Steps keep the types; a row that is written is the one the worker has locked.
LEMMA TypeNext == TypeOK /\ HeldRowsAreStable /\ [Next]_vars => TypeOK'
<1> SUFFICES ASSUME TypeOK, HeldRowsAreStable, [Next]_vars PROVE TypeOK'
  OBVIOUS
<1>1. ASSUME NEW w \in Workers, NEW u \in Users, CheckOwner(w, u) PROVE TypeOK'
  <2>1. [step |-> "create", user |-> u, family |-> 0, invitation |-> 0] \in Transactions
    BY DEF Transactions
  <2> QED
    BY <1>1, <2>1 DEF TypeOK, CheckOwner, rows, locks
<1>2. ASSUME NEW w \in Workers, CreateFamily(w) PROVE TypeOK'
  BY <1>2, BusyWorker, EndOfTransaction DEF TypeOK, CreateFamily
<1>3. ASSUME NEW w \in Workers, NEW actor \in Users, NEW u \in Users,
             NEW step \in {"look", "remove"}, LockFamily(w, actor, u, step)
      PROVE  TypeOK'
  <2>1. PICK f \in Families :
            /\ familyLock' = [familyLock EXCEPT ![f] = w]
            /\ tx' = [tx EXCEPT ![w] = [step |-> step, user |-> u, family |-> f, invitation |-> 0]]
    BY <1>3 DEF LockFamily
  <2>2. [step |-> step, user |-> u, family |-> f, invitation |-> 0] \in Transactions
    BY DEF Transactions
  <2> QED
    BY <1>3, <2>1, <2>2 DEF TypeOK, LockFamily, rows
<1>4. ASSUME NEW w \in Workers, LookForMember(w) PROVE TypeOK'
  <2>1. [tx[w] EXCEPT !.step = "invite"] \in Transactions
    BY <1>4, BusyWorker DEF LookForMember, Transactions
  <2> QED
    BY <1>4, <2>1 DEF TypeOK, LookForMember, rows, locks
<1>5. ASSUME NEW w \in Workers, Invite(w) PROVE TypeOK'
  <2>1. [family |-> tx[w].family, user |-> tx[w].user, status |-> "pending"] \in InvitationRows
    BY <1>5, BusyWorker DEF Invite, InvitationRows, HeldRowsAreStable, HeldRows
  <2> QED
    BY <1>5, <2>1, EndOfTransaction DEF TypeOK, Invite
<1>6. ASSUME NEW w \in Workers, Remove(w) PROVE TypeOK'
  <2>1. ledger' \in [Families \X Users -> Seq(Actions)]
    BY <1>6, BusyWorker, LedgerEntry DEF Remove, Actions, HeldRowsAreStable, HeldRows
  <2> QED
    BY <1>6, <2>1, EndOfTransaction DEF TypeOK, Remove
<1>7. ASSUME NEW w \in Workers, NEW i \in Invitations, NEW u \in Users,
             NEW step \in {"accept", "reject"}, LockInvitation(w, i, u, step)
      PROVE  TypeOK'
  <2>1. invitations[i] \in InvitationRows
    BY <1>7 DEF TypeOK, LockInvitation, NoInvitation
  <2>2. [step |-> step, user |-> u, family |-> invitations[i].family, invitation |-> i] \in Transactions
    BY <2>1 DEF Transactions, InvitationRows
  <2> QED
    BY <1>7, <2>2 DEF TypeOK, LockInvitation, rows
<1>8. ASSUME NEW w \in Workers, Accept(w) PROVE TypeOK'
  <2>1. tx[w].step = "accept" /\ tx[w].family \in Families
    BY <1>8 DEF Accept, HeldRowsAreStable, HeldRows
  <2>3. invitations' \in [Invitations -> InvitationRows \cup {NoInvitation}]
    BY <1>8, <2>1, AnsweredInvitation DEF Accept, Answer
  <2>4. ledger' \in [Families \X Users -> Seq(Actions)]
    BY <1>8, <2>1, BusyWorker, LedgerEntry DEF Accept, Actions
  <2> QED
    BY <1>8, <2>1, <2>3, <2>4, BusyWorker, EndOfTransaction DEF TypeOK, Accept
<1>9. ASSUME NEW w \in Workers, Reject(w) PROVE TypeOK'
  <2>1. tx[w].step = "reject"
    BY <1>9 DEF Reject
  <2>3. invitations' \in [Invitations -> InvitationRows \cup {NoInvitation}]
    BY <1>9, <2>1, AnsweredInvitation DEF Reject, Answer
  <2> QED
    BY <1>9, <2>3, EndOfTransaction DEF TypeOK, Reject
<1>10. ASSUME NEW w \in Workers, Rollback(w) PROVE TypeOK'
  BY <1>10, EndOfTransaction DEF TypeOK, Rollback, rows
<1>11. CASE UNCHANGED vars
  BY <1>11 DEF TypeOK, vars
<1> QED
  BY <1>1, <1>2, <1>3, <1>4, <1>5, <1>6, <1>7, <1>8, <1>9, <1>10, <1>11 DEF Next

(***************************************************************************)
(* The steps of the inductive invariant.                                   *)
(***************************************************************************)

\* What a worker has read of a row it holds stays so, whoever takes the step.
LEMMA HeldNext ==
    TypeOK /\ HeldRowsAreStable /\ RowsOfFamilies /\ OnePendingInvitation /\ [Next]_vars
        => HeldRowsAreStable'
<1> SUFFICES ASSUME TypeOK, HeldRowsAreStable, RowsOfFamilies, OnePendingInvitation, [Next]_vars
             PROVE  HeldRowsAreStable'
  OBVIOUS
<1>1. ASSUME NEW w \in Workers, NEW u \in Users, CheckOwner(w, u) PROVE HeldRowsAreStable'
  BY <1>1 DEF CheckOwner, HeldRowsAreStable, HeldRows, Pending, TypeOK, rows, locks
<1>2. ASSUME NEW w \in Workers, CreateFamily(w) PROVE HeldRowsAreStable'
  <2>1. HeldRows(w)'
    BY <1>2, EndOfTransaction DEF CreateFamily, HeldRows, Idle
  <2>2. PICK f \in Families :
            /\ owner[f] = None
            /\ owner' = [owner EXCEPT ![f] = tx[w].user]
            /\ members' = members \cup {<<f, tx[w].user>>}
    BY <1>2 DEF CreateFamily
  <2>3. \A g \in Families : owner[g] # None => owner'[g] = owner[g]
    BY <2>2 DEF TypeOK
  <2>4. ASSUME NEW v \in Workers, v # w PROVE HeldRows(v)'
    <3>1. HeldRows(v) /\ invitations' = invitations
      BY <1>2 DEF HeldRowsAreStable, CreateFamily
    <3>2. /\ tx'[v] = tx[v]
          /\ \A g \in Families : familyLock[g] = v => familyLock'[g] = v
          /\ \A i \in Invitations : invitationLock[i] = v => invitationLock'[i] = v
      BY <1>2, <2>4, EndOfTransaction DEF CreateFamily
    <3> QED
      BY <2>2, <2>3, <3>1, <3>2 DEF HeldRows, Pending
  <2> QED
    BY <2>1, <2>4 DEF HeldRowsAreStable
<1>3. ASSUME NEW w \in Workers, NEW actor \in Users, NEW u \in Users,
             NEW step \in {"look", "remove"}, LockFamily(w, actor, u, step)
      PROVE  HeldRowsAreStable'
  <2>1. PICK f \in Families :
            /\ owner[f] = actor
            /\ familyLock[f] = None
            /\ familyLock' = [familyLock EXCEPT ![f] = w]
            /\ tx' = [tx EXCEPT ![w] = [step |-> step, user |-> u, family |-> f, invitation |-> 0]]
    BY <1>3 DEF LockFamily, Manages
  <2>2. None \notin Workers /\ actor # None /\ actor # u
    BY <1>3, NamesAssumption DEF LockFamily
  <2>3. UNCHANGED <<rows, invitationLock>>
    BY <1>3 DEF LockFamily
  <2>4. HeldRows(w)'
    BY <2>1, <2>2, <2>3 DEF HeldRows, TypeOK, rows
  <2>5. ASSUME NEW v \in Workers, v # w PROVE HeldRows(v)'
    <3>1. tx'[v] = tx[v] /\ \A g \in Families : familyLock[g] = v => familyLock'[g] = v
      BY <2>1, <2>2, <2>5 DEF TypeOK
    <3> QED
      BY <2>3, <3>1 DEF HeldRowsAreStable, HeldRows, Pending, rows
  <2> QED
    BY <2>4, <2>5 DEF HeldRowsAreStable
<1>4. ASSUME NEW w \in Workers, LookForMember(w) PROVE HeldRowsAreStable'
  BY <1>4 DEF LookForMember, HeldRowsAreStable, HeldRows, Pending, TypeOK, rows, locks
<1>5. ASSUME NEW w \in Workers, Invite(w) PROVE HeldRowsAreStable'
  BY <1>5, EndOfTransaction DEF Invite, HeldRowsAreStable, HeldRows, Pending, TypeOK, Idle, NoInvitation
<1>6. ASSUME NEW w \in Workers, Remove(w) PROVE HeldRowsAreStable'
  BY <1>6, EndOfTransaction DEF Remove, HeldRowsAreStable, HeldRows, Pending, TypeOK, Idle
<1>7. ASSUME NEW w \in Workers, NEW i \in Invitations, NEW u \in Users,
             NEW step \in {"accept", "reject"}, LockInvitation(w, i, u, step)
      PROVE  HeldRowsAreStable'
  <2>1. invitations[i] \in InvitationRows
    BY <1>7 DEF TypeOK, LockInvitation, NoInvitation
  <2>2. /\ tx' = [tx EXCEPT ![w] =
                [step |-> step, user |-> u, family |-> invitations[i].family, invitation |-> i]]
        /\ invitationLock' = [invitationLock EXCEPT ![i] = w]
        /\ invitations[i].status = "pending" /\ invitations[i].user = u
        /\ UNCHANGED <<owner, members, invitations, familyLock>>
    BY <1>7 DEF LockInvitation, rows
  <2>3. HeldRows(w)'
    BY <2>1, <2>2 DEF HeldRows, Pending, TypeOK, InvitationRows
  <2>4. ASSUME NEW v \in Workers, v # w PROVE HeldRows(v)'
    <3>1. HeldRows(v) /\ v # None /\ invitationLock[i] # v
      BY <1>7, <2>4, NamesAssumption DEF HeldRowsAreStable, LockInvitation, InvitationFree
    <3>2. /\ tx'[v] = tx[v]
          /\ \A j \in Invitations : invitationLock[j] = v => invitationLock'[j] = v
      BY <2>2, <2>4, <3>1 DEF TypeOK
    <3> QED
      BY <2>2, <3>1, <3>2 DEF HeldRows, Pending
  <2> QED
    BY <2>3, <2>4 DEF HeldRowsAreStable
<1>8. ASSUME NEW w \in Workers, Accept(w) PROVE HeldRowsAreStable'
  <2>1. HeldRows(w)'
    BY <1>8, EndOfTransaction DEF Accept, HeldRows, Idle
  <2>2. tx[w].step = "accept" /\ owner' = owner /\ members' = members \cup {<<tx[w].family, tx[w].user>>}
    BY <1>8 DEF Accept
  <2>3. familyLock[tx[w].family] \in {None, w}
    BY <1>8 DEF Accept, FamilyFree
  <2>4. \A i \in Invitations \ {tx[w].invitation} : invitations'[i] = invitations[i]
    BY <1>8, <2>2, AnsweredInvitation DEF Accept, Answer
  <2>5. ASSUME NEW v \in Workers, v # w PROVE HeldRows(v)'
    <3>1. HeldRows(v) /\ HeldRows(w)
      BY DEF HeldRowsAreStable
    <3>2. v # None
      BY NamesAssumption
    <3>3. /\ tx'[v] = tx[v]
          /\ \A f \in Families : familyLock[f] = v => familyLock'[f] = v
          /\ \A i \in Invitations : invitationLock[i] = v => invitationLock'[i] = v
      BY <1>8, <2>5, EndOfTransaction DEF Accept
    <3> QED
      BY <2>2, <2>3, <2>4, <2>5, <3>1, <3>2, <3>3 DEF HeldRows, Pending
  <2> QED
    BY <2>1, <2>5 DEF HeldRowsAreStable
<1>9. ASSUME NEW w \in Workers, Reject(w) PROVE HeldRowsAreStable'
  <2>1. HeldRows(w)'
    BY <1>9, EndOfTransaction DEF Reject, HeldRows, Idle
  <2>2. tx[w].step = "reject" /\ owner' = owner /\ members' = members
    BY <1>9 DEF Reject
  <2>4. \A i \in Invitations \ {tx[w].invitation} : invitations'[i] = invitations[i]
    BY <1>9, <2>2, AnsweredInvitation DEF Reject, Answer
  <2>5. ASSUME NEW v \in Workers, v # w PROVE HeldRows(v)'
    <3>1. HeldRows(v) /\ HeldRows(w)
      BY DEF HeldRowsAreStable
    <3>3. /\ tx'[v] = tx[v]
          /\ \A f \in Families : familyLock[f] = v => familyLock'[f] = v
          /\ \A i \in Invitations : invitationLock[i] = v => invitationLock'[i] = v
      BY <1>9, <2>5, EndOfTransaction DEF Reject
    <3> QED
      BY <2>2, <2>4, <2>5, <3>1, <3>3 DEF HeldRows, Pending
  <2> QED
    BY <2>1, <2>5 DEF HeldRowsAreStable
<1>10. ASSUME NEW w \in Workers, Rollback(w) PROVE HeldRowsAreStable'
  <2>1. HeldRows(w)'
    BY <1>10, EndOfTransaction DEF Rollback, HeldRows, Idle
  <2>2. UNCHANGED <<owner, members, invitations>>
    BY <1>10 DEF Rollback, rows
  <2>3. ASSUME NEW v \in Workers, v # w PROVE HeldRows(v)'
    BY <1>10, <2>2, <2>3, EndOfTransaction DEF Rollback, HeldRowsAreStable, HeldRows, Pending
  <2> QED
    BY <2>1, <2>3 DEF HeldRowsAreStable
<1>11. CASE UNCHANGED vars
  BY <1>11 DEF HeldRowsAreStable, HeldRows, Pending, vars
<1> QED
  BY <1>1, <1>2, <1>3, <1>4, <1>5, <1>6, <1>7, <1>8, <1>9, <1>10, <1>11 DEF Next

\* Rows stay rows of families that exist, and an invitation is made only when none
\* is pending.
LEMMA RowsNext == FamilyInv /\ [Next]_vars => RowsOfFamilies' /\ OnePendingInvitation'
<1> SUFFICES ASSUME FamilyInv, [Next]_vars PROVE RowsOfFamilies' /\ OnePendingInvitation'
  OBVIOUS
<1> USE DEF FamilyInv
<1>1. ASSUME NEW w \in Workers, CreateFamily(w) PROVE RowsOfFamilies' /\ OnePendingInvitation'
  <2>1. PICK f \in Families :
            /\ owner[f] = None
            /\ owner' = [owner EXCEPT ![f] = tx[w].user]
            /\ members' = members \cup {<<f, tx[w].user>>}
    BY <1>1 DEF CreateFamily
  <2>2. invitations' = invitations /\ tx[w].user # None
    BY <1>1, BusyWorker, NamesAssumption DEF CreateFamily
  <2> QED
    BY <2>1, <2>2 DEF RowsOfFamilies, OnePendingInvitation, Pending, TypeOK
<1>2. ASSUME NEW w \in Workers, Invite(w) PROVE RowsOfFamilies' /\ OnePendingInvitation'
  <2>1. /\ tx[w].step = "invite"
        /\ \A i \in Invitations : ~Pending(i, tx[w].family, tx[w].user)
        /\ UNCHANGED <<owner, members>>
    BY <1>2 DEF Invite
  <2>2. PICK i \in Invitations :
            invitations' = [invitations EXCEPT ![i] =
                [family |-> tx[w].family, user |-> tx[w].user, status |-> "pending"]]
    BY <1>2 DEF Invite
  <2>5. /\ \A j \in Invitations \ {i} : invitations'[j] = invitations[j]
        /\ invitations'[i].family = tx[w].family
        /\ invitations'[i].user = tx[w].user
    BY <2>2 DEF TypeOK
  <2>3. \A j \in Invitations, f \in Families, u \in Users :
            Pending(j, f, u)' => \/ j # i /\ Pending(j, f, u)
                                 \/ j = i /\ f = tx[w].family /\ u = tx[w].user
    BY <2>5 DEF Pending
  <2>4. owner[tx[w].family] \notin {None, tx[w].user}
    BY <2>1 DEF HeldRowsAreStable, HeldRows
  <2> QED
    BY <2>1, <2>3, <2>4 DEF RowsOfFamilies, OnePendingInvitation
<1>3. ASSUME NEW w \in Workers, Remove(w) PROVE RowsOfFamilies' /\ OnePendingInvitation'
  BY <1>3 DEF Remove, RowsOfFamilies, OnePendingInvitation, Pending
<1>4. ASSUME NEW w \in Workers, Accept(w) PROVE RowsOfFamilies' /\ OnePendingInvitation'
  <2>1. tx[w].step = "accept" /\ owner' = owner /\ members' = members \cup {<<tx[w].family, tx[w].user>>}
    BY <1>4 DEF Accept
  <2>2. tx[w].user \in Users
    BY <2>1, BusyWorker
  <2>4. owner[tx[w].family] # None
    <3>1. tx[w].invitation \in Invitations /\ tx[w].family \in Families
          /\ Pending(tx[w].invitation, tx[w].family, tx[w].user)
      BY <2>1 DEF HeldRowsAreStable, HeldRows
    <3> QED
      BY <2>2, <3>1 DEF RowsOfFamilies
  <2>3. \A j \in Invitations, f \in Families, u \in Users : Pending(j, f, u)' => Pending(j, f, u)
    BY <1>4, <2>1, AnsweredInvitation DEF Accept, Answer, Pending
  <2> QED
    BY <2>1, <2>2, <2>3, <2>4 DEF RowsOfFamilies, OnePendingInvitation
<1>5. ASSUME NEW w \in Workers, Reject(w) PROVE RowsOfFamilies' /\ OnePendingInvitation'
  <2>1. tx[w].step = "reject" /\ UNCHANGED <<owner, members>>
    BY <1>5 DEF Reject
  <2>2. \A j \in Invitations, f \in Families, u \in Users : Pending(j, f, u)' => Pending(j, f, u)
    BY <1>5, <2>1, AnsweredInvitation DEF Reject, Answer, Pending
  <2> QED
    BY <2>1, <2>2 DEF RowsOfFamilies, OnePendingInvitation
<1>6. CASE UNCHANGED <<owner, members, invitations>>
  BY <1>6 DEF RowsOfFamilies, OnePendingInvitation, Pending
<1> QED
  BY <1>1, <1>2, <1>3, <1>4, <1>5, <1>6
     DEF Next, CheckOwner, LockFamily, LookForMember, LockInvitation, Rollback, rows, vars

\* Nobody joins a family while he has another invitation, and no member is invited.
LEMMA NotInvitedNext == FamilyInv /\ [Next]_vars => MembersAreNotInvited'
<1> SUFFICES ASSUME FamilyInv, [Next]_vars PROVE MembersAreNotInvited'
  OBVIOUS
<1> USE DEF FamilyInv
<1>1. ASSUME NEW w \in Workers, CreateFamily(w) PROVE MembersAreNotInvited'
  BY <1>1 DEF CreateFamily, MembersAreNotInvited, RowsOfFamilies, Pending
<1>2. ASSUME NEW w \in Workers, Invite(w) PROVE MembersAreNotInvited'
  <2>1. tx[w].step = "invite" /\ members' = members
    BY <1>2 DEF Invite
  <2>2. PICK i \in Invitations :
            invitations' = [invitations EXCEPT ![i] =
                [family |-> tx[w].family, user |-> tx[w].user, status |-> "pending"]]
    BY <1>2 DEF Invite
  <2>3. <<tx[w].family, tx[w].user>> \notin members
    BY <2>1 DEF HeldRowsAreStable, HeldRows
  <2> QED
    BY <2>1, <2>2, <2>3 DEF MembersAreNotInvited, Pending, TypeOK
<1>3. ASSUME NEW w \in Workers, Remove(w) PROVE MembersAreNotInvited'
  BY <1>3 DEF Remove, MembersAreNotInvited, Pending
<1>4. ASSUME NEW w \in Workers, Accept(w) PROVE MembersAreNotInvited'
  <2>1. tx[w].step = "accept" /\ members' = members \cup {<<tx[w].family, tx[w].user>>}
    BY <1>4 DEF Accept
  <2>2. /\ invitations'[tx[w].invitation].status = "accepted"
        /\ \A i \in Invitations \ {tx[w].invitation} : invitations'[i] = invitations[i]
    BY <1>4, <2>1, AnsweredInvitation DEF Accept, Answer
  <2>3. tx[w].invitation \in Invitations /\ Pending(tx[w].invitation, tx[w].family, tx[w].user)
    BY <2>1 DEF HeldRowsAreStable, HeldRows
  <2>4. \A i \in Invitations, f \in Families, u \in Users :
            Pending(i, f, u)' => Pending(i, f, u) /\ i # tx[w].invitation
    BY <2>2 DEF Pending
  <2>5. tx[w].family \in Families /\ tx[w].user \in Users
    BY <2>1, BusyWorker DEF HeldRowsAreStable, HeldRows
  <2>6. \A i \in Invitations, f \in Families, u \in Users :
            Pending(i, f, u)' => <<f, u>> # <<tx[w].family, tx[w].user>>
    BY <2>3, <2>4, <2>5 DEF OnePendingInvitation
  <2> QED
    BY <2>1, <2>4, <2>6 DEF MembersAreNotInvited
<1>5. ASSUME NEW w \in Workers, Reject(w) PROVE MembersAreNotInvited'
  <2>1. tx[w].step = "reject" /\ members' = members
    BY <1>5 DEF Reject
  <2>2. \A j \in Invitations, f \in Families, u \in Users : Pending(j, f, u)' => Pending(j, f, u)
    BY <1>5, <2>1, AnsweredInvitation DEF Reject, Answer, Pending
  <2> QED
    BY <2>1, <2>2 DEF MembersAreNotInvited
<1>6. CASE UNCHANGED <<members, invitations>>
  BY <1>6 DEF MembersAreNotInvited, Pending
<1> QED
  BY <1>1, <1>2, <1>3, <1>4, <1>5, <1>6
     DEF Next, CheckOwner, LockFamily, LookForMember, LockInvitation, Rollback, rows, vars

\* What LedgerTellsMembers says of one user and one family.
TakeTurns(s) == \A k \in DOMAIN s : s[k] = IF k % 2 = 1 THEN "member_added" ELSE "member_removed"

Odd(s) == Len(s) % 2 = 1

LedgerTells(f, u) ==
    /\ TakeTurns(ledger[f, u])
    /\ <<f, u>> \in members <=> Odd(ledger[f, u]) \/ owner[f] = u

\* The property of the ledger, family by family and user by user.
LEMMA LedgerTellsAll ==
    LedgerTellsMembers <=> \A f \in Families, u \in Users : LedgerTells(f, u)
BY DEF LedgerTellsMembers, LedgerTells, TakeTurns, Odd

\* The ledger of a user in a family is a sequence of what was done.
LEMMA LedgerType ==
    ASSUME TypeOK, NEW f \in Families, NEW u \in Users
    PROVE  ledger[f, u] \in Seq(Actions)
<1>1. <<f, u>> \in Families \X Users
  OBVIOUS
<1> QED
  BY <1>1 DEF TypeOK

\* The lengths take turns.
LEMMA Turns ==
    ASSUME NEW n \in Nat
    PROVE  n % 2 = 1 <=> (n + 1) % 2 # 1
OBVIOUS

\* An entry more in a ledger whose entries take turns.
LEMMA LongerLedger ==
    ASSUME NEW s \in Seq(Actions), NEW a \in Actions, TakeTurns(s),
           a = IF Odd(s) THEN "member_removed" ELSE "member_added"
    PROVE  /\ TakeTurns(Append(s, a))
           /\ Odd(Append(s, a)) <=> ~Odd(s)
<1>1. Len(Append(s, a)) = Len(s) + 1 /\ DOMAIN Append(s, a) = 1 .. Len(s) + 1
  OBVIOUS
<1>3. /\ Len(s) \in Nat
      /\ Len(s) % 2 = 1 <=> (Len(s) + 1) % 2 # 1
  BY Turns
<1>2. ASSUME NEW k \in 1 .. Len(s) + 1
      PROVE  Append(s, a)[k] = IF k % 2 = 1 THEN "member_added" ELSE "member_removed"
  <2>1. CASE k \in 1 .. Len(s)
    <3>1. Append(s, a)[k] = s[k] /\ k \in DOMAIN s
      BY <2>1
    <3> QED
      BY <3>1 DEF TakeTurns
  <2>2. CASE k = Len(s) + 1
    BY <2>2, <1>3 DEF Odd
  <2> QED
    BY <2>1, <2>2
<1> QED
  BY <1>1, <1>2, <1>3 DEF TakeTurns, Odd

\* Each arrival and each departure adds its entry to the ledger of its user only.
LEMMA LedgerNext == FamilyInv /\ [Next]_vars => LedgerTellsMembers'
<1> SUFFICES ASSUME FamilyInv, [Next]_vars PROVE LedgerTellsMembers'
  OBVIOUS
<1>0. LedgerTellsMembers' <=> \A f \in Families, u \in Users : LedgerTells(f, u)'
  BY DEF LedgerTellsMembers, LedgerTells, TakeTurns, Odd
<1>a. TypeOK /\ HeldRowsAreStable /\ RowsOfFamilies /\ MembersAreNotInvited
  BY DEF FamilyInv
<1>b. \A f \in Families, u \in Users : LedgerTells(f, u)
  BY LedgerTellsAll DEF FamilyInv
<1>c. \A f \in Families, u \in Users : ledger[f, u] \in Seq(Actions)
  BY <1>a, LedgerType
<1>1. ASSUME NEW w \in Workers, CreateFamily(w) PROVE LedgerTellsMembers'
  <2>1. PICK g \in Families :
            /\ owner[g] = None
            /\ owner' = [owner EXCEPT ![g] = tx[w].user]
            /\ members' = members \cup {<<g, tx[w].user>>}
    BY <1>1 DEF CreateFamily
  <2>2. UNCHANGED ledger
    BY <1>1 DEF CreateFamily
  <2>3. ASSUME NEW f \in Families, NEW u \in Users PROVE LedgerTells(f, u)'
    <3>1. u # None
      BY NamesAssumption
    <3>2. owner'[f] = IF f = g THEN tx[w].user ELSE owner[f]
      BY <1>a, <2>1 DEF TypeOK
    <3> QED
      BY <1>b, <2>1, <2>2, <3>1, <3>2 DEF LedgerTells
  <2> QED
    BY <1>0, <2>3
<1>2. ASSUME NEW w \in Workers, Remove(w) PROVE LedgerTellsMembers'
  <2> DEFINE g == tx[w].family
             v == tx[w].user
  <2>1. /\ tx[w].step = "remove"
        /\ <<g, v>> \in members
        /\ members' = members \ {<<g, v>>}
        /\ ledger' = [ledger EXCEPT ![<<g, v>>] = Append(@, "member_removed")]
        /\ owner' = owner
    BY <1>2 DEF Remove, Removable
  <2>2. g \in Families /\ v \in Users /\ owner[g] # v
    BY <1>a, <2>1, BusyWorker DEF HeldRowsAreStable, HeldRows
  <2>4. /\ ledger'[g, v] = Append(ledger[g, v], "member_removed")
        /\ \A f \in Families, u \in Users : <<f, u>> # <<g, v>> => ledger'[f, u] = ledger[f, u]
    BY <1>a, <2>1, <2>2, LedgerEntry DEF Actions
  <2> HIDE DEF g, v
  <2>5. ASSUME NEW f \in Families, NEW u \in Users, <<f, u>> # <<g, v>> PROVE LedgerTells(f, u)'
    BY <1>b, <2>1, <2>4, <2>5 DEF LedgerTells
  <2>6. Odd(ledger[g, v]) /\ TakeTurns(ledger[g, v])
    BY <1>b, <2>1, <2>2 DEF LedgerTells
  <2>7. TakeTurns(ledger'[g, v]) /\ ~Odd(ledger'[g, v])
    BY <1>c, <2>2, <2>4, <2>6, LongerLedger DEF Actions
  <2>8. \A f \in Families, u \in Users : <<f, u>> = <<g, v>> => LedgerTells(f, u)'
    BY <2>1, <2>2, <2>7 DEF LedgerTells
  <2> QED
    BY <1>0, <2>5, <2>8
<1>3. ASSUME NEW w \in Workers, Accept(w) PROVE LedgerTellsMembers'
  <2> DEFINE g == tx[w].family
             v == tx[w].user
  <2>1. /\ tx[w].step = "accept"
        /\ <<g, v>> \notin members
        /\ members' = members \cup {<<g, v>>}
        /\ ledger' = [ledger EXCEPT ![<<g, v>>] = Append(@, "member_added")]
        /\ owner' = owner
    BY <1>3 DEF Accept
  <2>2. g \in Families /\ v \in Users
    BY <1>a, <2>1, BusyWorker DEF HeldRowsAreStable, HeldRows
  <2>4. /\ ledger'[g, v] = Append(ledger[g, v], "member_added")
        /\ \A f \in Families, u \in Users : <<f, u>> # <<g, v>> => ledger'[f, u] = ledger[f, u]
    BY <1>a, <2>1, <2>2, LedgerEntry DEF Actions
  <2> HIDE DEF g, v
  <2>5. ASSUME NEW f \in Families, NEW u \in Users, <<f, u>> # <<g, v>> PROVE LedgerTells(f, u)'
    BY <1>b, <2>1, <2>4, <2>5 DEF LedgerTells
  <2>6. ~Odd(ledger[g, v]) /\ TakeTurns(ledger[g, v])
    BY <1>b, <2>1, <2>2 DEF LedgerTells
  <2>7. TakeTurns(ledger'[g, v]) /\ Odd(ledger'[g, v])
    BY <1>c, <2>2, <2>4, <2>6, LongerLedger DEF Actions
  <2>8. \A f \in Families, u \in Users : <<f, u>> = <<g, v>> => LedgerTells(f, u)'
    BY <2>1, <2>2, <2>7 DEF LedgerTells
  <2> QED
    BY <1>0, <2>5, <2>8
<1>4. CASE UNCHANGED <<owner, members, ledger>>
  BY <1>0, <1>b, <1>4 DEF LedgerTells
<1> QED
  BY <1>1, <1>2, <1>3, <1>4
     DEF Next, CheckOwner, LockFamily, LookForMember, LockInvitation, Invite, Reject, Rollback, rows, vars

(***************************************************************************)
(* The theorems.                                                           *)
(***************************************************************************)

\* The invariant holds of the empty tables.
LEMMA FamilyInvInit == Init => FamilyInv
<1> SUFFICES ASSUME Init PROVE FamilyInv
  OBVIOUS
<1>1. TypeOK
  BY TypeInit
<1>2. HeldRowsAreStable
  BY DEF Init, HeldRowsAreStable, HeldRows, Idle
<1>3. \A i \in Invitations, f \in Families, u \in Users : ~Pending(i, f, u)
  BY DEF Init, Pending, NoInvitation
<1>4. RowsOfFamilies /\ OnePendingInvitation /\ MembersAreNotInvited
  BY <1>3 DEF Init, RowsOfFamilies, OnePendingInvitation, MembersAreNotInvited
<1>5. \A f \in Families, u \in Users : ledger[f, u] = <<>> /\ owner[f] # u /\ members = {}
  BY NamesAssumption DEF Init
<1>6. LedgerTellsMembers
  <2>1. Len(<<>>) = 0 /\ DOMAIN <<>> = {} /\ 0 \in Nat
    OBVIOUS
  <2>2. ~Odd(<<>>) /\ TakeTurns(<<>>)
    BY <2>1, Turns DEF Odd, TakeTurns
  <2> QED
    <3>1. ~(Len(<<>>) > 1)
      BY <2>1
    <3>2. ASSUME NEW f \in Families, NEW u \in Users PROVE LedgerTells(f, u)
      BY <1>5, <2>2, <3>1 DEF LedgerTells
    <3> QED
      BY <3>2, LedgerTellsAll
<1> QED
  BY <1>1, <1>2, <1>4, <1>6 DEF FamilyInv

\* Every step keeps the invariant.
LEMMA FamilyInvNext == FamilyInv /\ [Next]_vars => FamilyInv'
BY TypeNext, HeldNext, RowsNext, NotInvitedNext, LedgerNext DEF FamilyInv

\* Every reachable state is well typed, for any users, workers and bounds.
THEOREM TypeCorrect == Spec => []TypeOK
<1>1. FamilyInv => TypeOK
  BY DEF FamilyInv
<1> QED
  BY <1>1, FamilyInvInit, FamilyInvNext, PTL DEF Spec

\* No member of a family has a pending invitation to it: accept_invitation and
\* create_invitation never hold the family row together.
THEOREM NobodyInvitedTwice == Spec => []MembersAreNotInvited
<1>1. FamilyInv => MembersAreNotInvited
  BY DEF FamilyInv
<1> QED
  BY <1>1, FamilyInvInit, FamilyInvNext, PTL DEF Spec

\* The family ledger tells who is a member, through removals and returns.
THEOREM LedgerCorrect == Spec => []LedgerTellsMembers
<1>1. FamilyInv => LedgerTellsMembers
  BY DEF FamilyInv
<1> QED
  BY <1>1, FamilyInvInit, FamilyInvNext, PTL DEF Spec

(***************************************************************************)
(* Arrivals and the invitations they answer.                               *)
(***************************************************************************)

Arrivals(s) == {k \in DOMAIN s : s[k] = "member_added"}

Accepted(f, u) ==
    {i \in Invitations :
        /\ invitations[i].status = "accepted"
        /\ invitations[i].family = f
        /\ invitations[i].user = u}

\* An arrival more is counted once, and a removal is not counted.
LEMMA OneArrivalMore ==
    ASSUME NEW s \in Seq(Actions)
    PROVE  /\ Cardinality(Arrivals(Append(s, "member_added"))) = Cardinality(Arrivals(s)) + 1
           /\ Arrivals(Append(s, "member_removed")) = Arrivals(s)
<1>1. Len(s) \in Nat /\ DOMAIN s = 1 .. Len(s)
  OBVIOUS
<1>2. IsFiniteSet(1 .. Len(s))
  BY <1>1, FS_Interval
<1>3. IsFiniteSet(Arrivals(s)) /\ Len(s) + 1 \notin Arrivals(s)
  BY <1>1, <1>2, FS_Subset DEF Arrivals
<1>4. Arrivals(Append(s, "member_added")) = Arrivals(s) \cup {Len(s) + 1}
  BY <1>1 DEF Arrivals
<1>5. Arrivals(Append(s, "member_removed")) = Arrivals(s)
  BY <1>1 DEF Arrivals
<1> QED
  BY <1>3, <1>4, <1>5, FS_AddElement

\* An acceptance adds one arrival and one accepted invitation, other steps neither.
LEMMA ArrivalsNext == FamilyInv /\ ArrivalsWereInvited /\ [Next]_vars => ArrivalsWereInvited'
<1> SUFFICES ASSUME FamilyInv, ArrivalsWereInvited, [Next]_vars PROVE ArrivalsWereInvited'
  OBVIOUS
<1>0. ArrivalsWereInvited' <=>
        \A f \in Families, u \in Users :
            Cardinality(Arrivals(ledger'[f, u])) = Cardinality(Accepted(f, u)')
  BY DEF ArrivalsWereInvited, Arrivals, Accepted
<1>a. TypeOK /\ HeldRowsAreStable
  BY DEF FamilyInv
<1>b. \A f \in Families, u \in Users :
        Cardinality(Arrivals(ledger[f, u])) = Cardinality(Accepted(f, u))
  BY DEF ArrivalsWereInvited, Arrivals, Accepted
<1>1. ASSUME NEW w \in Workers, Invite(w) PROVE ArrivalsWereInvited'
  <2>1. PICK i \in Invitations :
            /\ invitations[i] = NoInvitation
            /\ invitations' = [invitations EXCEPT ![i] =
                    [family |-> tx[w].family, user |-> tx[w].user, status |-> "pending"]]
    BY <1>1 DEF Invite
  <2>2. /\ invitations[i].status # "accepted" /\ invitations'[i].status # "accepted"
        /\ \A j \in Invitations \ {i} : invitations'[j] = invitations[j]
    BY <1>a, <2>1 DEF TypeOK, NoInvitation
  <2>3. \A f \in Families, u \in Users : Accepted(f, u)' = Accepted(f, u)
    BY <2>2 DEF Accepted
  <2>4. ledger' = ledger
    BY <1>1 DEF Invite
  <2> QED
    BY <1>0, <1>b, <2>3, <2>4
<1>2. ASSUME NEW w \in Workers, Remove(w) PROVE ArrivalsWereInvited'
  <2> DEFINE g == tx[w].family
             v == tx[w].user
  <2>1. /\ tx[w].step = "remove"
        /\ ledger' = [ledger EXCEPT ![<<g, v>>] = Append(@, "member_removed")]
        /\ invitations' = invitations
    BY <1>2 DEF Remove
  <2>2. g \in Families /\ v \in Users
    BY <1>a, <2>1, BusyWorker DEF HeldRowsAreStable, HeldRows
  <2>3. /\ ledger'[g, v] = Append(ledger[g, v], "member_removed")
        /\ \A f \in Families, u \in Users : <<f, u>> # <<g, v>> => ledger'[f, u] = ledger[f, u]
    BY <1>a, <2>1, <2>2, LedgerEntry DEF Actions
  <2> HIDE DEF g, v
  <2>4. Arrivals(ledger'[g, v]) = Arrivals(ledger[g, v])
    BY <1>a, <2>2, <2>3, LedgerType, OneArrivalMore
  <2>5. \A f \in Families, u \in Users : Arrivals(ledger'[f, u]) = Arrivals(ledger[f, u])
    BY <2>3, <2>4
  <2>6. \A f \in Families, u \in Users : Accepted(f, u)' = Accepted(f, u)
    BY <2>1 DEF Accepted
  <2> QED
    BY <1>0, <1>b, <2>5, <2>6
<1>3. ASSUME NEW w \in Workers, Accept(w) PROVE ArrivalsWereInvited'
  <2> DEFINE g == tx[w].family
             v == tx[w].user
             i == tx[w].invitation
  <2>1. /\ tx[w].step = "accept"
        /\ ledger' = [ledger EXCEPT ![<<g, v>>] = Append(@, "member_added")]
        /\ invitations' = [invitations EXCEPT ![i].status = "accepted"]
    BY <1>3 DEF Accept, Answer
  <2>2. g \in Families /\ v \in Users /\ i \in Invitations /\ invitations[i].status = "pending"
    BY <1>a, <2>1, BusyWorker DEF HeldRowsAreStable, HeldRows, Pending
  <2>3. /\ ledger'[g, v] = Append(ledger[g, v], "member_added")
        /\ \A f \in Families, u \in Users : <<f, u>> # <<g, v>> => ledger'[f, u] = ledger[f, u]
    BY <1>a, <2>1, <2>2, LedgerEntry DEF Actions
  <2>4. /\ invitations'[i].status = "accepted"
        /\ invitations'[i].family = g
        /\ invitations'[i].user = v
        /\ \A j \in Invitations \ {i} : invitations'[j] = invitations[j]
    BY <1>a, <2>1, AnsweredInvitation
  <2> HIDE DEF g, v, i
  <2>5. Cardinality(Arrivals(ledger'[g, v])) = Cardinality(Arrivals(ledger[g, v])) + 1
    BY <1>a, <2>2, <2>3, LedgerType, OneArrivalMore
  <2>6. ASSUME NEW f \in Families, NEW u \in Users, <<f, u>> # <<g, v>>
        PROVE  Cardinality(Arrivals(ledger'[f, u])) = Cardinality(Accepted(f, u)')
    <3>1. Accepted(f, u)' = Accepted(f, u)
      BY <2>2, <2>4, <2>6 DEF Accepted
    <3> QED
      BY <1>b, <2>3, <2>6, <3>1
  <2>7. ASSUME NEW f \in Families, NEW u \in Users, <<f, u>> = <<g, v>>
        PROVE  Cardinality(Arrivals(ledger'[f, u])) = Cardinality(Accepted(f, u)')
    <3>1. Accepted(f, u)' = Accepted(f, u) \cup {i} /\ i \notin Accepted(f, u)
      BY <2>2, <2>4, <2>7 DEF Accepted
    <3>2. IsFiniteSet(Invitations)
      BY BoundsAssumption, FS_Interval DEF Invitations
    <3>3. IsFiniteSet(Accepted(f, u))
      BY <3>2, FS_Subset DEF Accepted
    <3>4. Cardinality(Accepted(f, u)') = Cardinality(Accepted(f, u)) + 1
      BY <3>1, <3>3, FS_AddElement
    <3>5. f = g /\ u = v
      BY <2>7
    <3> QED
      BY <1>b, <2>5, <3>4, <3>5
  <2> QED
    BY <1>0, <2>6, <2>7
<1>4. ASSUME NEW w \in Workers, Reject(w) PROVE ArrivalsWereInvited'
  <2>1. tx[w].step = "reject" /\ ledger' = ledger
    BY <1>4 DEF Reject
  <2>2. tx[w].invitation \in Invitations /\ invitations[tx[w].invitation].status = "pending"
    BY <1>a, <2>1 DEF HeldRowsAreStable, HeldRows, Pending
  <2>3. /\ invitations'[tx[w].invitation].status = "rejected"
        /\ \A j \in Invitations \ {tx[w].invitation} : invitations'[j] = invitations[j]
    BY <1>4, <1>a, <2>1, AnsweredInvitation DEF Reject, Answer
  <2>4. \A f \in Families, u \in Users : Accepted(f, u)' = Accepted(f, u)
    BY <2>2, <2>3 DEF Accepted
  <2> QED
    BY <1>0, <1>b, <2>1, <2>4
<1>5. CASE UNCHANGED <<ledger, invitations>>
  BY <1>0, <1>b, <1>5 DEF Accepted
<1> QED
  BY <1>1, <1>2, <1>3, <1>4, <1>5
     DEF Next, CheckOwner, CreateFamily, LockFamily, LookForMember, LockInvitation, Rollback, rows, vars

\* Every arrival in the ledger answers an accepted invitation of its own.
THEOREM ArrivalsCorrect == Spec => []ArrivalsWereInvited
<1>1. Init => ArrivalsWereInvited
  <2> SUFFICES ASSUME Init PROVE ArrivalsWereInvited
    OBVIOUS
  <2>1. ASSUME NEW f \in Families, NEW u \in Users PROVE Arrivals(ledger[f, u]) = {}
    <3>1. ledger[f, u] = <<>>
      BY DEF Init
    <3>2. Len(<<>>) = 0 /\ DOMAIN <<>> = {}
      OBVIOUS
    <3> QED
      BY <3>1, <3>2 DEF Arrivals
  <2>2. \A f \in Families, u \in Users : Accepted(f, u) = {}
    BY DEF Init, Accepted, NoInvitation
  <2> QED
    BY <2>1, <2>2 DEF ArrivalsWereInvited, Arrivals, Accepted
<1> QED
  BY <1>1, ArrivalsNext, FamilyInvInit, FamilyInvNext, PTL DEF Spec

(***************************************************************************)
(* The race of create_family.                                              *)
(***************************************************************************)

Owned(u) == {f \in Families : owner[f] = u}

\* The workers that saw that u owns no family and have not created one yet.
Creators(u) == {w \in Workers : tx[w].step = "create" /\ tx[w].user = u}

\* What a user owns and what he is about to own is bounded together: the look at
\* his families is only let through while he owns none.
OwnedAndComingAreBounded ==
    \A u \in Users : Cardinality(Owned(u)) + Cardinality(Creators(u)) <= Cardinality(Workers)

\* The families a user owns, and the workers about to create one, can be counted.
LEMMA FiniteOwned ==
    ASSUME NEW u
    PROVE  /\ IsFiniteSet(Owned(u)) /\ Cardinality(Owned(u)) \in Nat
           /\ IsFiniteSet(Creators(u)) /\ Cardinality(Creators(u)) \in Nat
           /\ Cardinality(Creators(u)) <= Cardinality(Workers)
           /\ Cardinality(Workers) \in Nat
<1>1. IsFiniteSet(Families)
  BY BoundsAssumption, FS_Interval DEF Families
<1>2. Owned(u) \in SUBSET Families /\ Creators(u) \in SUBSET Workers
  BY DEF Owned, Creators
<1> QED
  BY <1>1, <1>2, WorkersAssumption, FS_Subset, FS_CardinalityType

\* A family that is created was counted before as one to come, and a worker counts
\* only when it looked while there was none.
LEMMA OwnedNext == TypeOK /\ OwnedAndComingAreBounded /\ [Next]_vars => OwnedAndComingAreBounded'
<1> SUFFICES ASSUME TypeOK, OwnedAndComingAreBounded, [Next]_vars,
                    NEW u \in Users
             PROVE  Cardinality(Owned(u)') + Cardinality(Creators(u)') <= Cardinality(Workers)
  BY DEF OwnedAndComingAreBounded
<1>0. Cardinality(Owned(u)) + Cardinality(Creators(u)) <= Cardinality(Workers)
  BY DEF OwnedAndComingAreBounded
<1>a. u # None
  BY NamesAssumption
<1>1. ASSUME NEW w \in Workers, CheckOwner(w, u)
      PROVE  Cardinality(Owned(u)') + Cardinality(Creators(u)') <= Cardinality(Workers)
  <2>1. Owned(u)' = {}
    BY <1>1 DEF CheckOwner, OwnsNone, Owned, rows
  <2>2. Creators(u)' \in SUBSET Workers
    BY DEF Creators
  <2>3. Cardinality(Creators(u)') <= Cardinality(Workers) /\ Cardinality(Creators(u)') \in Nat
    BY <2>2, WorkersAssumption, FS_Subset, FS_CardinalityType
  <2> QED
    BY <2>1, <2>3, FS_EmptySet, FiniteOwned
<1>2. ASSUME NEW w \in Workers, CreateFamily(w), tx[w].user = u
      PROVE  Cardinality(Owned(u)') + Cardinality(Creators(u)') <= Cardinality(Workers)
  <2>1. PICK f \in Families : owner[f] = None /\ owner' = [owner EXCEPT ![f] = u]
    BY <1>2 DEF CreateFamily
  <2>2. Owned(u)' = Owned(u) \cup {f} /\ f \notin Owned(u)
    BY <1>a, <2>1 DEF Owned, TypeOK
  <2>3. tx[w].step = "create" /\ tx' = [tx EXCEPT ![w] = Idle]
    BY <1>2 DEF CreateFamily, End
  <2>4. Creators(u)' = Creators(u) \ {w} /\ w \in Creators(u)
    BY <1>2, <2>3 DEF Creators, TypeOK, Idle
  <2>5. Cardinality(Owned(u)') = Cardinality(Owned(u)) + 1
    BY <2>2, FiniteOwned, FS_AddElement
  <2>6. Cardinality(Creators(u)') = Cardinality(Creators(u)) - 1
    BY <2>4, FiniteOwned, FS_RemoveElement
  <2> QED
    BY <1>0, <2>5, <2>6, FiniteOwned
<1>3. ASSUME Owned(u)' = Owned(u), Creators(u)' \in SUBSET Creators(u)
      PROVE  Cardinality(Owned(u)') + Cardinality(Creators(u)') <= Cardinality(Workers)
  <2>1. /\ Cardinality(Creators(u)') <= Cardinality(Creators(u))
        /\ Cardinality(Creators(u)') \in Nat
    BY <1>3, FiniteOwned, FS_Subset, FS_CardinalityType
  <2> QED
    BY <1>0, <1>3, <2>1, FiniteOwned
<1>4. ASSUME NEW w \in Workers, NEW v \in Users, CheckOwner(w, v), v # u
      PROVE  Owned(u)' = Owned(u) /\ Creators(u)' \in SUBSET Creators(u)
  BY <1>4 DEF CheckOwner, Owned, Creators, TypeOK, rows
<1>5. ASSUME NEW w \in Workers, CreateFamily(w), tx[w].user # u
      PROVE  Owned(u)' = Owned(u) /\ Creators(u)' \in SUBSET Creators(u)
  <2>1. PICK f \in Families : owner[f] = None /\ owner' = [owner EXCEPT ![f] = tx[w].user]
    BY <1>5 DEF CreateFamily
  <2>2. Owned(u)' = Owned(u)
    BY <1>5, <1>a, <2>1 DEF Owned, TypeOK
  <2>3. Creators(u)' \in SUBSET Creators(u)
    BY <1>5 DEF CreateFamily, End, Creators, TypeOK, Idle
  <2> QED
    BY <2>2, <2>3
<1>6. ASSUME NEW w \in Workers, End(w), owner' = owner
      PROVE  Owned(u)' = Owned(u) /\ Creators(u)' \in SUBSET Creators(u)
  BY <1>6 DEF End, Owned, Creators, TypeOK, Idle
<1>7. ASSUME NEW w \in Workers, NEW actor \in Users, NEW v \in Users,
             NEW step \in {"look", "remove"}, LockFamily(w, actor, v, step)
      PROVE  Owned(u)' = Owned(u) /\ Creators(u)' \in SUBSET Creators(u)
  BY <1>7 DEF LockFamily, Owned, Creators, TypeOK, rows
<1>8. ASSUME NEW w \in Workers, LookForMember(w)
      PROVE  Owned(u)' = Owned(u) /\ Creators(u)' \in SUBSET Creators(u)
  <2>1. /\ tx[w].step = "look" /\ owner' = owner
        /\ tx' = [tx EXCEPT ![w] = [tx[w] EXCEPT !.step = "invite"]]
    BY <1>8 DEF LookForMember, rows
  <2>2. [tx[w] EXCEPT !.step = "invite"].step = "invite"
    BY <2>1, BusyWorker DEF Transactions
  <2> HIDE DEF Transactions
  <2>3. \A x \in Workers : tx'[x].step = "create" => tx'[x] = tx[x]
    BY <2>1, <2>2 DEF TypeOK
  <2> QED
    BY <2>1, <2>3 DEF Owned, Creators
<1>9. ASSUME NEW w \in Workers, NEW i \in Invitations, NEW v \in Users,
             NEW step \in {"accept", "reject"}, LockInvitation(w, i, v, step)
      PROVE  Owned(u)' = Owned(u) /\ Creators(u)' \in SUBSET Creators(u)
  BY <1>9 DEF LockInvitation, Owned, Creators, TypeOK, rows
<1>10. CASE UNCHANGED vars
  BY <1>3, <1>10 DEF vars, Owned, Creators
<1> QED
  BY <1>1, <1>2, <1>3, <1>4, <1>5, <1>6, <1>7, <1>8, <1>9, <1>10
     DEF Next, Invite, Remove, Accept, Reject, Rollback, rows

\* A user never owns more families than there are workers to race.
THEOREM OwnersBounded == Spec => []OwnedFamiliesAreBounded
<1>1. Init => OwnedAndComingAreBounded
  <2> SUFFICES ASSUME Init, NEW u \in Users
               PROVE  Cardinality(Owned(u)) + Cardinality(Creators(u)) <= Cardinality(Workers)
    BY DEF OwnedAndComingAreBounded
  <2>1. Owned(u) = {} /\ Creators(u) = {}
    BY NamesAssumption DEF Init, Owned, Creators, Idle
  <2> QED
    BY <2>1, FS_EmptySet, FiniteOwned
<1>2. OwnedAndComingAreBounded => OwnedFamiliesAreBounded
  <2> SUFFICES ASSUME OwnedAndComingAreBounded, NEW u \in Users
               PROVE  Cardinality(Owned(u)) <= Cardinality(Workers)
    BY DEF OwnedFamiliesAreBounded, Owned
  <2> QED
    BY FiniteOwned DEF OwnedAndComingAreBounded
<1> QED
  BY <1>1, <1>2, OwnedNext, TypeCorrect, PTL DEF Spec
=============================================================================
