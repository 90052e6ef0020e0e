SPECIFICATION Spec
CONSTANTS
    Req = {r1}
    Chk = {k1}
    Cmd = {c1}
    Tid = {t1, t2}
    None = None
    NrlLimit = 2
    CtrlLimit = 2
    DeployedMode = "PASSIVE_REP"
    ServerId = 1
    SleepsSuffice = TRUE
    Heartbeats = TRUE
PROPERTY DiscardedOnlyIfCovered
