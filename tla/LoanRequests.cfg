SPECIFICATION Spec
CONSTANTS
    u1 = u1
    u2 = u2
    l1 = l1
    l2 = l2
    k1 = k1
    t1 = t1
    t2 = t2
    w1 = w1
    w2 = w2
    None = None
    MayExpire = TRUE
    Users = {u1, u2}
    Loans = {l1}
    Keys = {k1}
    Terms = {t1, t2}
    Reasons = {"no"}
    Calls <- KeyAndDecisionCalls
    Workers <- MCWorkers
SYMMETRY MCSymmetry
INVARIANTS
    TypeOK
    AnswersFitCalls
PROPERTIES
    OneDecision
    ChangesAreTold
CHECK_DEADLOCK FALSE
