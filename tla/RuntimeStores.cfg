SPECIFICATION StoresSpec
CONSTANTS
  Items <- MCItems
  Clients = {"leader"}
  Paths <- MCPaths
  Blank = "blank"
  Inside <- MCInside
  Below <- MCBelow
  Unnamed = {}
  Deps <- MCDeps
  Drafts <- MCDrafts
  Caps <- MCCaps
  Limits = {1, 2}
  Marks <- MCMarks
  MaxPuts = 1
  MaxChecks = 1
INVARIANTS
  StoresTyped
  StoresAgree
  PlanIsSound
PROPERTIES
  OnlyOwnersWrite
  ReservesAreProtected
  WaitsEnd
CHECK_DEADLOCK FALSE
