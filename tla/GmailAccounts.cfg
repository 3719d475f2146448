SPECIFICATION Spec
CONSTANTS
    u1 = u1
    u2 = u2
    a1 = a1
    a2 = a2
    a3 = a3
    w1 = w1
    w2 = w2
    None = None
    Users <- MCUsers
    Addresses <- MCAddresses
    Workers <- MCWorkers
    MaxTokens = 2
SYMMETRY Symmetry
INVARIANTS
    TypeOK
    PrimariesAreBounded
PROPERTIES
    OnlyOverlapsRegress
