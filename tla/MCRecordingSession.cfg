CONSTANTS
    PreMotion = 2
    PostMotion = 1
    MaxTime = 5
    MaxSegments = 4
SPECIFICATION Spec
INVARIANTS
    SegmentsAccountedFor
    EventFootageKept
    RowsSayWhatTheyShow
CHECK_DEADLOCK FALSE
