SPECIFICATION FairSpec
CONSTANTS
    a = a  b = b  n1 = n1  n2 = n2  n3 = n3  v1 = v1  v2 = v2
    w1 = w1  w2 = w2  w3 = w3  ha = ha  hb = hb
    NoHolder = NoHolder  NoNode = NoNode  NoVM = NoVM
    Inst = {a, b}
    Node = {n1, n2}
    VM = {v1, v2}
    Worker = {w1, w2}
    Holder = {ha, hb}
    HolderOf <- OneHolderEach
    HomeOf <- BothOnN1
    Threshold = 3
    UseLock = TRUE
    DualNetwork = FALSE
    Strict = TRUE
    ForceQuorum = TRUE
    Fencing = {n1}
    LocalVMs = {v2}
    Failing = {n1}
    Modes = {"down"}
    Returns = FALSE
    Crashes = FALSE
    AliveSeen = TRUE
    PillTrue = TRUE
    Reliable = TRUE
    Toggles = FALSE
    MaintNodes = {}
PROPERTIES FlagDropped GuestsRestarted
CHECK_DEADLOCK FALSE
