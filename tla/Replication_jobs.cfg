SPECIFICATION Spec
CONSTANTS
    g1 = g1  g2 = g2  r1 = r1  r2 = r2
    Stray = Stray  Asked = Asked  Free = Free
    Guest = {g1, g2}
    Run = {r1, r2}
    MaxId = 2
    Outages = {}
    Losses = FALSE
    Restarts = TRUE
INVARIANTS TypeOK
PROPERTIES DeletesOwnClone SnapshotAskedFor
SYMMETRY Runs
