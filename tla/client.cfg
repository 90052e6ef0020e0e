CONSTANTS
    Count = 3
    Reach <- AnyReach
    MaxRequests = 3
SPECIFICATION FairSpec
INVARIANTS
    ClientInv
    Truthful
    LeavesBehind
PROPERTY Returns
CHECK_DEADLOCK FALSE
