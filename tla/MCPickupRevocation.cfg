SPECIFICATION Spec
CONSTANTS
    c1 = c1
    c2 = c2
    Caller = {c1}
    Formation = {f1}
    Call = {k1}
    CallerOf <- MCCallerOf
    NoCaller = NoCaller
    NoFormation = NoFormation
    NoHandle = NoHandle
    Ttl = 1
    MaxTime = 1
    MaxHandles = 1
    MaxRevisions = 1
    MaxCrashes = 1
INVARIANTS
    RevokedHasNoEndpoint
CHECK_DEADLOCK FALSE
