SPECIFICATION Spec
CONSTANTS
    Jobs = {1}
    Linked = {}
    Shared = {}
    Tabs = {"t1", "t2"}
    Limits = {1}
    Revocable = {}
    MaxReloads = 0
    MaxFaults = 0
    LostAnswers = FALSE
    SyncBacklog = 0
INVARIANTS InterruptedIsStale
CHECK_DEADLOCK FALSE
