CONSTANTS
    Jobs = {j1, j2}
    MotionUsed = TRUE
    WarmupFrames = 2
    StaleTicks = 2
SPECIFICATION FairSpec
INVARIANTS
    RuntimeIsSound
    DetectorOutlivesCalls
PROPERTIES
    FramesRecover
    SharedIsPreferred
