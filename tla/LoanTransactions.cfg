SPECIFICATION Spec
CONSTANTS
    u1 = u1
    u2 = u2
    l1 = l1
    r1 = r1
    r2 = r2
    w1 = w1
    w2 = w2
    w3 = w3
    None = None
    Users <- MCUsers
    Loans = {l1}
    Repayments <- MCRepayments
    Installments = {1, 2}
    Amounts = {1, 2}
    LastDay = 1
    Workers <- ThreeWorkers
    Requests <- AllCalls
SYMMETRY MCSymmetry3
INVARIANTS
    TypeOK
    DecidesOnCurrentRows
    OnlyInstallmentsAndSweepsDeadlock
PROPERTIES
    KeepsTheBook
CHECK_DEADLOCK FALSE
