\* A failed checkpoint request leaves the lock held and the process stuck.
SPECIFICATION Spec
CONSTANT N = 3
CHECK_DEADLOCK FALSE
INVARIANTS
    RMInv
    DonorExists
    RoleAgreement
    RejoinerCovered
    CountCoversMembers
