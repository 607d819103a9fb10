SPECIFICATION EndpointSpec
CONSTANTS
    mA = mA
    mB = mB
    pA1 = pA1
    pA2 = pA2
    pB = pB
    Member = {mA, mB}
    Process = {pA1, pA2, pB}
    MemberOf <- MCMemberOf
    Nobody = Nobody
    MaxCalls = 2
    MaxRestarts = 0
INVARIANTS
    DisplacedByAnother
