SPECIFICATION FairSpec
CONSTANTS
    Jobs = {1, 2}
    Linked = {1}
    Shared = {2}
    Tabs = {"t1"}
    Limits = {1, 2}
    Revocable = {1}
    MaxReloads = 0
    MaxFaults = 0
    LostAnswers = FALSE
    SyncBacklog = 0
INVARIANTS RowsMatchRunners
PROPERTIES QueuedIsServed RunnersEnd CapacityRespected CancelStopsLaunch
CHECK_DEADLOCK FALSE
