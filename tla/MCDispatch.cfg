SPECIFICATION LiveSpec
CONSTANTS
    s1 = s1
    n1 = n1
    j1 = j1
    Sync = {s1}
    Job = {j1}
    Nested = {n1}
    Poller = {q1}
    Setups <- MCSetups
    Timeout = 2
    SlotWait = 1
    CredentialWait = 1
    Prelaunch = 1
    KillWindow = 1
    MinRetry = 1
    MaxCrashes = 1
    None = None
INVARIANTS
    DispatchTypeOK
    CapHolds
    NoHoldAndWait
    JobVerdicts
PROPERTIES
    JobsSettle
CHECK_DEADLOCK FALSE
