SPECIFICATION RTFairSpec
CONSTANTS
    tab = tab
    Pages <- MCPages
    Decisions = {"active"}
    MaxFaults = 2
    MaxLoads = 2
CHECK_DEADLOCK FALSE
INVARIANTS
    RTTypeOK
    QuietMeansCurrent
PROPERTIES
    SocketComesBack
