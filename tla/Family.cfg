SPECIFICATION Spec
CONSTANTS
    u1 = u1
    u2 = u2
    w1 = w1
    w2 = w2
    None = None
    Users <- MCUsers
    Workers <- MCWorkers
    MaxFamilies = 3
    MaxInvitations = 4
SYMMETRY Symmetry
INVARIANTS
    TypeOK
    LedgerTellsMembers
    MembersAreNotInvited
    ArrivalsWereInvited
    OwnedFamiliesAreBounded
CHECK_DEADLOCK FALSE
