SPECIFICATION Spec
CONSTANTS
    a = a
    b = b
    s1 = s1
    s2 = s2
    NoRun = NoRun
    Runs = {a, b}
    Sessions = {s1}
    SessionOf <- Together
    Managed = {a, b}
    Gated = {a}
    Asking = {b}
    Revocable = FALSE
    MaxFaults = 1
    MaxRestarts = 1
INVARIANTS TypeOK RefusedNeverLaunches RegistryIsCurrent PromptOutlivesAgent
PROPERTIES Consent
CHECK_DEADLOCK FALSE
