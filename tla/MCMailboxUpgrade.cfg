CONSTANTS
    Opener = {p1, p2}
    Operator = {o1, o2}
    Nobody = Nobody
    NoRecord = NoRecord
    MaxWrites = 3
    MaxCalls = 6
SPECIFICATION Spec
SYMMETRY ProcessSymmetry
INVARIANTS
    UpgradeTypeOK
    NothingDropped
    RecordsAreEvidence
    RestoreIsSafe
CHECK_DEADLOCK FALSE
