SPECIFICATION Spec
CONSTANTS
    a = a  b = b  n1 = n1  n2 = n2  n3 = n3  v1 = v1  v2 = v2
    w1 = w1  w2 = w2  w3 = w3  ha = ha  hb = hb
    NoHolder = NoHolder  NoNode = NoNode  NoVM = NoVM
    Inst = {a, b}
    Node = {n1, n2, n3}
    VM = {v1}
    Worker = {w1, w2}
    Holder = {ha, hb}
    HolderOf <- OneHolderEach
    HomeOf <- HomeN1
    Threshold = 2
    UseLock = TRUE
    DualNetwork = FALSE
    Strict = TRUE
    ForceQuorum = FALSE
    Fencing = {}
    LocalVMs = {}
    Failing = {n1}
    Modes = {"down", "split"}
    Returns = FALSE
    Crashes = FALSE
    AliveSeen = FALSE
    PillTrue = FALSE
    Reliable = FALSE
    Toggles = FALSE
    MaintNodes = {}
INVARIANTS LockHasOwner OnlyUnstoppedRunTwice
PROPERTIES MovesOnlyOffFailedNode PlacesGuests
SYMMETRY Workers
CHECK_DEADLOCK FALSE
