SPECIFICATION Spec
INVARIANTS
  TypeOK
  ClaimsAreBacked
  EvidenceIsKept
PROPERTIES
  HistoryStays
  UserIsServed
CHECK_DEADLOCK FALSE
