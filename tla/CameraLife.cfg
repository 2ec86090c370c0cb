CONSTANTS
    Cameras = {c1}
    Jobs = {j1}
    Callers = {http}
    Boot = boot
    None = none
    Early = {"create", "start", "createJob", "startJob"}
    MovesJobs = FALSE
    MaxVersion = 2
    MaxSegments = 2
    MaxRuns = 2
    MaxOutages = 1
SPECIFICATION Spec
INVARIANTS
    RowsTellTheTruth
    RuntimeMatchesRows
PROPERTIES
    StartupHeals
CHECK_DEADLOCK FALSE
