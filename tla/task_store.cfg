CONSTANTS
    Replica = {r1, r2}
    hash_table_len = 2
    Keys = {1, 2, 3}
    Task <- MCTask
    KeyOf <- MCKeyOf
    TaskLen <- MCTaskLen
    Status = {0, 1}
    MaxRequests = 3
    MaxTaken = 1
SYMMETRY MCSymmetry
SPECIFICATION Spec
INVARIANTS
    StoreInv
    SizeMatches
    Agreement
PROPERTY IsTaskList
CHECK_DEADLOCK FALSE
