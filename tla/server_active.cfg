SPECIFICATION Spec
CONSTANTS
    Req = {r1}
    Chk = {k1}
    Cmd = {c1, c2, c3, c4}
    Tid = {t1}
    None = None
    NrlLimit = 2
    CtrlLimit = 4
    DeployedMode = "ACTIVE_REP"
    ServerId = 1
    SleepsSuffice = TRUE
    Heartbeats = FALSE
SYMMETRY Interchangeable
INVARIANTS
    ServerInv
    NoAbort
    AtMostOneStraggler
    ResumesAfterQuiesce
