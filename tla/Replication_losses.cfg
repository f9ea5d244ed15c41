SPECIFICATION Spec
CONSTANTS
    g1 = g1  g2 = g2  r1 = r1  r2 = r2
    Stray = Stray  Asked = Asked  Free = Free
    Guest = {g1}
    Run = {r1, r2}
    MaxId = 2
    Outages = {"source", "target"}
    Losses = TRUE
    Restarts = FALSE
INVARIANTS OkMeansReplica
PROPERTIES DueIsReported
