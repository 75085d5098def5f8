SPECIFICATION Spec
CONSTANTS
    Jobs = {1}
    Linked = {}
    Shared = {}
    Tabs = {"t1", "t2"}
    Limits = {1}
    Revocable = {}
    MaxReloads = 1
    MaxFaults = 0
    LostAnswers = FALSE
    SyncBacklog = 0
INVARIANTS AtMostOneLaunch
CHECK_DEADLOCK FALSE
