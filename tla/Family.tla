------------------------------- MODULE Family -------------------------------
(***************************************************************************)
(* FamilyService: families, their members, invitations and the membership  *)
(* part of the family ledger.  Web workers run its calls side by side, each *)
(* call one transaction.  Managing a family locks its row; answering an    *)
(* invitation locks the invitation, and inserting the member waits for the *)
(* family row too, because of the foreign key.  The call that creates a    *)
(* family locks nothing.  No code hands out the role admin, so only owners *)
(* manage members.                                                         *)
(***************************************************************************)
EXTENDS Integers, Sequences, FiniteSets

CONSTANTS
    Users,          \* active users
    Workers,        \* web workers
    None,           \* nobody, nothing
    MaxFamilies,    \* bound on the families
    MaxInvitations  \* bound on the invitations

ASSUME BoundsAssumption == {MaxFamilies, MaxInvitations} \subseteq Nat
ASSUME NamesAssumption == None \notin Users \cup Workers
ASSUME WorkersAssumption == IsFiniteSet(Workers)

VARIABLES
    owner,      \* per family: the user who owns it, or None before it is created
    members,    \* the pairs of a family and a user that have a FamilyMember row
    invitations,\* per invitation: the committed row, or NoInvitation
    ledger,     \* per family and user: the membership actions, oldest first
    tx,         \* per worker: the transaction it is in, or Idle
    familyLock, \* per family: the worker that holds its row lock, or None
    invitationLock \* per invitation: the worker that holds its row lock, or None

rows == <<owner, members, invitations, ledger>>
locks == <<familyLock, invitationLock>>
vars == <<owner, members, invitations, ledger, tx, familyLock, invitationLock>>
-----------------------------------------------------------------------------
Families == 1 .. MaxFamilies
Invitations == 1 .. MaxInvitations

InvitationRows == [family : Families, user : Users, status : {"pending", "accepted", "rejected"}]

NoInvitation == [status |-> "none"]

Actions == {"member_added", "member_removed"}

\* What a worker is about to do, for which user, in which family or on which
\* invitation (0 where there is none).
Transactions ==
    [step : {"create", "look", "invite", "remove", "accept", "reject"},
     user : Users, family : Families \cup {0}, invitation : Invitations \cup {0}]

Idle == [step |-> "idle"]

\* Faulty: create_family does not look for a family of the owner.
OwnsNoneUnchecked(u) == TRUE

OwnsNone(u) == \A f \in Families : owner[f] # u

\* A user manages the first of the families he owns.
Manages(u, f) == owner[f] = u /\ \A g \in Families : owner[g] = u => f <= g

Pending(i, f, u) ==
    /\ invitations[i].status = "pending"
    /\ invitations[i].family = f
    /\ invitations[i].user = u

\* Faulty: the invitation is read without FOR UPDATE.
InvitationUnguarded(w, i) == TRUE

\* A row lock is free when nobody else holds it.
InvitationFree(w, i) == invitationLock[i] \in {None, w}

\* Faulty: no foreign key, no wait.
FamilyUnguarded(w, f) == TRUE

\* The foreign key of an inserted row takes FOR KEY SHARE on the family, which
\* waits for a worker that holds it FOR UPDATE.
FamilyFree(w, f) == familyLock[f] \in {None, w}

\* A commit or a rollback releases what the worker locked.
End(w) ==
    /\ tx' = [tx EXCEPT ![w] = Idle]
    /\ familyLock' = [f \in Families |-> IF familyLock[f] = w THEN None ELSE familyLock[f]]
    /\ invitationLock' =
        [i \in Invitations |-> IF invitationLock[i] = w THEN None ELSE invitationLock[i]]
-----------------------------------------------------------------------------
Init ==
    /\ owner = [f \in Families |-> None]
    /\ members = {}
    /\ invitations = [i \in Invitations |-> NoInvitation]
    /\ ledger = [p \in Families \X Users |-> <<>>]
    /\ tx = [w \in Workers |-> Idle]
    /\ familyLock = [f \in Families |-> None]
    /\ invitationLock = [i \in Invitations |-> None]

\* create_family finds no family that u owns; there is no row to lock.
CheckOwner(w, u) ==
    /\ tx[w] = Idle
    /\ OwnsNone(u)
    /\ tx' = [tx EXCEPT ![w] = [step |-> "create", user |-> u, family |-> 0, invitation |-> 0]]
    /\ UNCHANGED <<rows, locks>>

\* create_family inserts the family and its owner's membership, and commits.
CreateFamily(w) ==
    /\ tx[w].step = "create"
    /\ \E f \in Families :
        /\ owner[f] = None
        /\ \A g \in Families : g < f => owner[g] # None
        /\ owner' = [owner EXCEPT ![f] = tx[w].user]
        /\ members' = members \cup {<<f, tx[w].user>>}
    /\ End(w)
    /\ UNCHANGED <<invitations, ledger>>

\* create_invitation and remove_member lock the family that the actor manages,
\* to invite or remove u.
LockFamily(w, actor, u, step) ==
    /\ tx[w] = Idle
    /\ actor # u
    /\ \E f \in Families :
        /\ Manages(actor, f)
        /\ familyLock[f] = None
        /\ familyLock' = [familyLock EXCEPT ![f] = w]
        /\ tx' = [tx EXCEPT ![w] = [step |-> step, user |-> u, family |-> f, invitation |-> 0]]
    /\ UNCHANGED <<rows, invitationLock>>

\* create_invitation sees no membership of the invited user.
LookForMember(w) ==
    /\ tx[w].step = "look"
    /\ <<tx[w].family, tx[w].user>> \notin members
    /\ tx' = [tx EXCEPT ![w].step = "invite"]
    /\ UNCHANGED <<rows, locks>>

\* create_invitation waits for the locks of the pending invitations it looks
\* for, finds none, inserts its own, and commits.
Invite(w) ==
    /\ tx[w].step = "invite"
    /\ \A i \in Invitations : ~Pending(i, tx[w].family, tx[w].user)
    /\ \E i \in Invitations :
        /\ invitations[i] = NoInvitation
        /\ \A j \in Invitations : j < i => invitations[j] # NoInvitation
        /\ invitations' = [invitations EXCEPT ![i] =
                [family |-> tx[w].family, user |-> tx[w].user, status |-> "pending"]]
    /\ End(w)
    /\ UNCHANGED <<owner, members, ledger>>

\* Faulty: a membership that is gone already is removed again.
RemovableAlways(f, u) == TRUE

Removable(f, u) == <<f, u>> \in members

\* remove_member deletes the membership, keeps the ledger, and commits.  The
\* notification that it queues is a task for another worker (Notifications).
Remove(w) ==
    LET f == tx[w].family
        u == tx[w].user
    IN  /\ tx[w].step = "remove"
        /\ Removable(f, u)
        /\ members' = members \ {<<f, u>>}
        /\ ledger' = [ledger EXCEPT ![<<f, u>>] = Append(@, "member_removed")]
        /\ End(w)
        /\ UNCHANGED <<owner, invitations>>

\* accept_invitation and reject_invitation lock the invitation, which is still
\* pending and is the actor's.
LockInvitation(w, i, u, step) ==
    /\ tx[w] = Idle
    /\ InvitationFree(w, i)
    /\ invitations[i].status = "pending"
    /\ invitations[i].user = u
    /\ invitationLock' = [invitationLock EXCEPT ![i] = w]
    /\ tx' = [tx EXCEPT ![w] =
            [step |-> step, user |-> u, family |-> invitations[i].family, invitation |-> i]]
    /\ UNCHANGED <<rows, familyLock>>

\* Faulty: a rejected invitation gets a status of its own kind.
AnswerDeclined == [accept |-> "accepted", reject |-> "declined"]

Answer == [accept |-> "accepted", reject |-> "rejected"]

\* accept_invitation finds no membership, adds the member, keeps the ledger, marks
\* the invitation, and commits.
Accept(w) ==
    LET f == tx[w].family
        u == tx[w].user
    IN  /\ tx[w].step = "accept"
        /\ FamilyFree(w, f)
        /\ <<f, u>> \notin members
        /\ members' = members \cup {<<f, u>>}
        /\ ledger' = [ledger EXCEPT ![<<f, u>>] = Append(@, "member_added")]
        /\ invitations' = [invitations EXCEPT ![tx[w].invitation].status = Answer["accept"]]
        /\ End(w)
        /\ UNCHANGED owner

Reject(w) ==
    /\ tx[w].step = "reject"
    /\ invitations' = [invitations EXCEPT ![tx[w].invitation].status = Answer["reject"]]
    /\ End(w)
    /\ UNCHANGED <<owner, members, ledger>>

\* A call that is refused, or whose worker dies, is rolled back.
Rollback(w) ==
    /\ tx[w] # Idle
    /\ End(w)
    /\ UNCHANGED rows

Next ==
    \E w \in Workers :
        \/ \E u \in Users : CheckOwner(w, u)
        \/ CreateFamily(w)
        \/ \E actor, u \in Users, step \in {"look", "remove"} : LockFamily(w, actor, u, step)
        \/ LookForMember(w)
        \/ Invite(w)
        \/ Remove(w)
        \/ \E i \in Invitations, u \in Users, step \in {"accept", "reject"} :
                LockInvitation(w, i, u, step)
        \/ Accept(w)
        \/ Reject(w)
        \/ Rollback(w)

Spec == Init /\ [][Next]_vars
-----------------------------------------------------------------------------
TypeOK ==
    /\ owner \in [Families -> Users \cup {None}]
    /\ members \subseteq Families \X Users
    /\ invitations \in [Invitations -> InvitationRows \cup {NoInvitation}]
    /\ ledger \in [Families \X Users -> Seq(Actions)]
    /\ tx \in [Workers -> Transactions \cup {Idle}]
    /\ familyLock \in [Families -> Workers \cup {None}]
    /\ invitationLock \in [Invitations -> Workers \cup {None}]

\* The ledger of a family tells who is in it: the actions of a user take turns,
\* and the last one is his arrival exactly when he is a member now - through
\* removals and returns, and though a removal and the acceptance of an old
\* invitation start from different locks.
LedgerTellsMembers ==
    \A f \in Families, u \in Users :
        /\ \A k \in DOMAIN ledger[f, u] :
            ledger[f, u][k] = IF k % 2 = 1 THEN "member_added" ELSE "member_removed"
        /\ <<f, u>> \in members <=> Len(ledger[f, u]) % 2 = 1 \/ owner[f] = u

\* Nobody is invited to a family he is in, though the acceptance of one invitation
\* and the making of the next lock different rows: the one waits for the other at
\* the foreign key.
MembersAreNotInvited ==
    \A i \in Invitations, f \in Families, u \in Users :
        Pending(i, f, u) => <<f, u>> \notin members

\* Every arrival answers an invitation of its own, which stays accepted, however
\* the answers of impatient users meet.
ArrivalsWereInvited ==
    \A f \in Families, u \in Users :
        Cardinality({k \in DOMAIN ledger[f, u] : ledger[f, u][k] = "member_added"}) =
        Cardinality({i \in Invitations :
            /\ invitations[i].status = "accepted"
            /\ invitations[i].family = f
            /\ invitations[i].user = u})

\* Nothing but the look before the insert keeps a user from owning two families;
\* it lets him own at most as many as there are workers to race.
OwnedFamiliesAreBounded ==
    \A u \in Users : Cardinality({f \in Families : owner[f] = u}) <= Cardinality(Workers)
=============================================================================
