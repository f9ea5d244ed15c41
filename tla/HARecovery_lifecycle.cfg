SPECIFICATION Spec
CONSTANTS
    a = a  b = b  n1 = n1  n2 = n2  n3 = n3  v1 = v1  v2 = v2
    w1 = w1  w2 = w2  w3 = w3  ha = ha  hb = hb
    NoHolder = NoHolder  NoNode = NoNode  NoVM = NoVM
    Inst = {a}
    Node = {n1, n2}
    VM = {v1}
    Worker = {w1, w2}
    Holder = {ha}
    HolderOf <- OneInst
    HomeOf <- HomeN1
    Threshold = 2
    UseLock = FALSE
    DualNetwork = TRUE
    Strict = FALSE
    ForceQuorum = FALSE
    Fencing = {}
    LocalVMs = {}
    Failing = {n1}
    Modes = {"down"}
    Returns = TRUE
    Crashes = TRUE
    AliveSeen = TRUE
    PillTrue = FALSE
    Reliable = FALSE
    Toggles = TRUE
    MaintNodes = {n1, n2}
INVARIANTS FlagHasWorker OneRecoveryPerOutage
SYMMETRY Workers
CHECK_DEADLOCK FALSE
