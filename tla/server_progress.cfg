SPECIFICATION FairSpec
CONSTANTS
    Req = {r1}
    Chk = {}
    Cmd = {c1, c2}
    Tid = {t1}
    None = None
    NrlLimit = 2
    CtrlLimit = 2
    DeployedMode = "PASSIVE_REP"
    ServerId = 1
    SleepsSuffice = TRUE
    Heartbeats = TRUE
PROPERTIES
    PromotionCompletes
    LoggedIsReleased
