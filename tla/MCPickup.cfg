SPECIFICATION LiveSpec
CONSTANTS
    c1 = c1
    c2 = c2
    Caller = {c1}
    Formation = {f1, f2}
    Call = {k1, k2}
    CallerOf <- MCCallerOf
    NoCaller = NoCaller
    NoFormation = NoFormation
    NoHandle = NoHandle
    Ttl = 1
    MaxTime = 1
    MaxHandles = 1
    MaxRevisions = 3
    MaxCrashes = 1
INVARIANTS
    PickupTypeOK
    OrchestratorAdmits
    OneAdmitter
PROPERTIES
    PickupsEnd
CHECK_DEADLOCK FALSE
