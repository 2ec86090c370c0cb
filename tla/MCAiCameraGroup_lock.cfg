CONSTANTS
    Jobs = {j1}
    MotionUsed = TRUE
    WarmupFrames = 1
    StaleTicks = 1
SPECIFICATION Spec
INVARIANTS
    NoCircularWait
