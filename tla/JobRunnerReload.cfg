SPECIFICATION Spec
CONSTANTS
    Jobs = {1}
    Linked = {}
    Shared = {}
    Tabs = {"t1"}
    Limits = {1}
    Revocable = {1}
    MaxReloads = 2
    MaxFaults = 1
    LostAnswers = FALSE
    SyncBacklog = 1
INVARIANTS TypeOK SettledOutcomesAgree
PROPERTIES OutcomeIsStable ImplementsLifecycle
CHECK_DEADLOCK FALSE
