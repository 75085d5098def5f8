SPECIFICATION Spec
CONSTANTS
  Paths = {"p"}
  MaxTrail = 2
  MaxCount = 2
  MaxEdits = 2
INVARIANTS ContradictionBlocksCommit
CHECK_DEADLOCK FALSE
