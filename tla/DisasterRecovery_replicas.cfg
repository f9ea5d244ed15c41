SPECIFICATION JointSpec
CONSTANTS
    g1 = g1  r1 = r1  r2 = r2  w1 = w1  w2 = w2
    Stray = Stray  Asked = Asked  Free = Free
    Guest = {g1}
    Order <- OneGuest
    Kind <- ToProxmox
    Worker = {w1}
    Run = {r1, r2}
    MaxId = 1
    Timeout = 1
    LongPause = 1
    ShortPause = 1
    Ops = {"auto", "cancel"}
    Outages = {"source"}
    Losses = TRUE
    Refusals = FALSE
    Crashes = FALSE
    Restarts = TRUE
PROPERTIES AutoFindsReplicas
SYMMETRY Runs
