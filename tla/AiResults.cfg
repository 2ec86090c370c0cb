CONSTANTS
    Places = {p1}
    MaxFrames = 2
    MaxPending = 1
    PublishRoom = 1
    AcceptGap = 0
    MoveGap = 0
    DetGap = 1
    DebugGap = 0
    DebugTtl = 1
    WarmGap = 1
    Clients = {c1}
SPECIFICATION FairResults
INVARIANTS
    BudgetIsKept
    SentIsReadable
    StopIsClean
PROPERTIES
    QueuesAreFresh
    StopReturns
CHECK_DEADLOCK FALSE
