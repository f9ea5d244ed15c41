SPECIFICATION Spec
CONSTANTS
    g1 = g1  g2 = g2  w1 = w1  w2 = w2
    Guest = {g1, g2}
    Order <- TwoGuests
    Worker = {w1, w2}
    Kind <- ToProxmox
    Timeout = 2
    LongPause = 2
    ShortPause = 1
    Ops = {"planned", "emergency", "failback", "auto", "delete"}
    Outages = {"source", "target"}
    Refusals = TRUE
    Crashes = TRUE
    Restarts = FALSE
INVARIANTS TypeOK OneFailover 
PROPERTIES AutoAfterTimeout FailsOverInOrder AutoFailoverHappens
