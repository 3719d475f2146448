SPECIFICATION RCSpec
CONSTANTS
    savings = savings
    current = current
    w1 = w1
    w2 = w2
    r1 = r1
    ref = ref
    None = None
    Transactions <- MCTransactions
    Amount <- MCAmount
    Date <- MCDate
    Account <- MCAccount
    Mentions <- MCMentions
    Eligible <- MCEligible
    BankAccounts <- MCBankAccounts
    RepaymentIds <- MCRepayments
    Due = 2
    References <- MCReferences
    PaymentDays = {2, 4, 9}
    Workers <- MCWorkers
    MaxEvents <- MCMaxEvents
SYMMETRY Symmetry
CHECK_DEADLOCK FALSE
INVARIANTS
    RCTypeOK
    MatchesAreBest
    MatchesTellTheRow
