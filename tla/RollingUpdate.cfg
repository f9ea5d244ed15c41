SPECIFICATION Spec
CONSTANTS
  n1 = n1  n2 = n2
  Nodes = {n1, n2}
  Order <- TwoNodes
  OptionSet <- SomeOptions
  MaxStarts = 2
  Overlaps = FALSE
INVARIANTS OneNodeOut NoneLeftBehind
PROPERTIES OneAfterAnother CancelStops WorkersEnd
