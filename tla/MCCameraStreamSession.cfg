CONSTANTS
    Threads = {t1, t2}
    Loop = loop
    Verdicts = {"h264", "down"}
    MaxForgotten = 1
    HealthEnabled = TRUE
    StatusSink = TRUE
SPECIFICATION Spec
INVARIANTS
    TypeOK
    RunningIsServed
    NothingIsForgotten
    OneHealthProbe
SYMMETRY Symmetry
