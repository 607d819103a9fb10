SPECIFICATION Spec
CONSTANTS
    w1 = w1
    w2 = w2
    p1 = p1
    p2 = p2
    Id = {1}
    Worker = {w1, w2}
    Process = {p1, p2}
    ProcOf <- OneProcess
    NoClaim = NoClaim
    MaxAttempts = 2
    MaxCrashes = 0
INVARIANTS
    OneReplayAtATime
CHECK_DEADLOCK FALSE
