SPECIFICATION Spec
CONSTANTS
    g1 = g1  g2 = g2  w1 = w1  w2 = w2
    Guest = {g1}
    Order <- OneGuest
    Worker = {w1, w2}
    Kind <- ToXcpng
    Timeout = 1
    LongPause = 1
    ShortPause = 1
    Ops = {"planned", "emergency", "failback", "test", "cleanup", "cancel", "delete", "force", "auto", "toggle"}
    Outages = {"source"}
    Refusals = TRUE
    Crashes = TRUE
    Restarts = TRUE
INVARIANTS RunningHasWorker
PROPERTIES RunningEnds
