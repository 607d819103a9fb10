SPECIFICATION SyncLiveSpec
CONSTANTS
    loop = loop
    command = command
    Actor = {loop, command}
    CallsOf <- MCCallsOf
    Nobody = Nobody
    Row = {1, 2}
    DirtyLimit = 1
    BatchSize = 1
    PageSize = 1
    NoDoc = NoDoc
    NoReplay = NoReplay
    NoTag = NoTag
    FirstFeed <- MCFirstFeed
    MaxFeed <- MCMaxFeed
    MaxEdits = 1
    MaxFaults = 1
CHECK_DEADLOCK FALSE
INVARIANTS
    SyncTypeOK
    CursorsPassOnlyJudged
    EtagIsJudged
    WithheldWasDecided
PROPERTIES
    SyncCatchesUp
