SPECIFICATION FairSpec
CONSTANTS
  Clients = {"w", "v"}
  Owner = "w"
  Pollers = {"v"}
  MaxEvents = 2
  LivePolls = 2
  Kinds = {"loss", "crash", "reload", "delete", "unlisted"}
  MaxFaults = 1
INVARIANTS
  CountTrailsLog
  
PROPERTIES
  DeletedStaysDeleted
  EventsAreAccounted
  StaleRunningClears
CHECK_DEADLOCK FALSE
