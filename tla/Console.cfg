SPECIFICATION Spec
CONSTANTS
  MaxRuns = 3
  MaxRetries = 3
  NoRun = NoRun
INVARIANTS TypeOK NoZombies ConnectedIsTrue
PROPERTIES Rests Closes
CHECK_DEADLOCK FALSE
