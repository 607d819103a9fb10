SPECIFICATION Spec
CONSTANTS
    mA = mA
    mB = mB
    pA = pA
    pB1 = pB1
    pB2 = pB2
    mC = mC
    pC = pC
    Nobody = Nobody
    NoPointer = NoPointer
    Member = {mA, mB, mC}
    Senders = {mA}
    Receivers = {mB, mC}
    MemberOf <- MCMemberOf
    Process = {pA, pB1, pC}
    MaxCalls = 1
    MaxRestarts = 0
    Key = {k1, k2}
    Kind = {"note"}
    Pointer = {}
    Ttl = 1
    Grace = 1
    GroupLimit = 4
    OutstandingLimit = 1
    BodyBudget = 2
    RateWindow = 3
    RateLimit = 3
    MaxRecipients = 2
    FetchMax = 1
    InitRoster <- AllJoined
    Changing = {}
    Revivable = {}
    MaxTime = 5
    ClockSteps = TRUE
INVARIANTS
    AccountingHolds
    FactsWithinClock
    KeyNamesOneMessage
    SenderRateHolds
SYMMETRY LimitSymmetry
