SPECIFICATION Spec
CONSTANTS
    Node = {n1, n2, n3, n4}
    Type = {"NORMAL", "CONTROL"}
    Limit <- MCLimit
    NULL = NULL
SYMMETRY NodeSymmetry
INVARIANTS
    QueueInv
    DerefsQueued
PROPERTY IsFifo
