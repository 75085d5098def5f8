SPECIFICATION FairSpec
CONSTANTS
    a = a
    b = b
    s1 = s1
    s2 = s2
    NoRun = NoRun
    Runs = {a, b}
    Sessions = {s1, s2}
    SessionOf <- Apart
    Managed = {a}
    Gated = {a}
    Asking = {a}
    Revocable = TRUE
    MaxFaults = 1
    MaxRestarts = 0
INVARIANTS AgentsAreStoppable StopReachesAgent
PROPERTIES CallsEnd SessionIsReleased StopIsScoped
CHECK_DEADLOCK FALSE
