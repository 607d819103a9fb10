SPECIFICATION LiveSpec
CONSTANTS
    mA = mA
    mB = mB
    pA = pA
    pB1 = pB1
    pB2 = pB2
    mC = mC
    pC = pC
    Nobody = Nobody
    NoPointer = NoPointer
    Member = {mA, mB}
    Senders = {mA, mB}
    Receivers = {mA, mB}
    MemberOf <- MCMemberOf
    Process = {pA, pB1}
    MaxCalls = 1
    MaxRestarts = 0
    Key = {k1}
    Kind = {"request", "note"}
    Pointer = {n1}
    Ttl = 1
    Grace = 1
    GroupLimit = 1
    OutstandingLimit = 2
    BodyBudget = 2
    RateWindow = 2
    RateLimit = 2
    MaxRecipients = 0
    FetchMax = 2
    InitRoster <- FirstJoined
    Changing = {mA, mB}
    Revivable = {mB}
    MaxTime = 3
    ClockSteps = FALSE
INVARIANTS
    ClosedGroupIsDrained
    MailboxTypeOK
    TerminalFactsAgree
    HandoffChain
PROPERTIES
    ClosedGroupIsFrozen
    ImplementsLifecycle
    EveryBodyIsFreed
