SPECIFICATION Spec
CONSTANTS
  Paths = {"p"}
  Contents = {0, 1, 2}
  MaxEdits = 1
  MaxFaults = 1
  MaxActions = 1
INVARIANTS CommitsAreOffered
CHECK_DEADLOCK FALSE
