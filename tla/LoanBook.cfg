SPECIFICATION FairSpec
CONSTANTS
    u1 = u1
    u2 = u2
    l1 = l1
    l2 = l2
    r1 = r1
    r2 = r2
    Users <- MCUsers
    Loans <- MCLoans
    Repayments <- MCRepayments
    Installments = {1, 2}
    Amounts = {1, 2}
    LastDay = 1
    Principal <- MCPrincipal
CHECK_DEADLOCK FALSE
INVARIANTS
    TypeOK
    StatusTellsPayment
    ClosedIffSettled
    RowsReferToRows
    TrailsAccountForStatus
PROPERTIES
    FinishedLoansAreFrozen
    PositionsFollowPayments
    OverdueIsNoticed
