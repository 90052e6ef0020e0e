SPECIFICATION Spec
CONSTANTS
    Req = {r1, r2}
    Chk = {k1}
    Cmd = {c1, c2}
    Tid = {t1, t2}
    None = None
    NrlLimit = 1
    CtrlLimit = 1
    DeployedMode = "PASSIVE_REP"
    ServerId = 1
    SleepsSuffice = TRUE
    Heartbeats = FALSE
SYMMETRY Interchangeable
INVARIANTS
    ServerInv
    AtMostOneChkptThread
    NoAbort
    ReleasedOnce
