SPECIFICATION Spec
CONSTANTS
    a1 = a1
    w1 = w1
    w2 = w2
    None = None
    Emails <- MCEmails
    Kind <- MCKind
    Accounts <- MCAccounts
    Account <- MCAccount
    Listings <- MCListings
    Workers <- MCWorkers
    MaxCrashes = 1
SYMMETRY WorkerSymmetry
INVARIANTS
    TypeOK
    MarkedMeansIngested
    DuplicatesAreBounded
    SupportTellsTransactions
    OnlyAccountsDeadlock
