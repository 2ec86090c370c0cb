CONSTANTS
    Threads = {t1, t2}
    Loop = loop
    Verdicts = {"h264", "auth", "down"}
    MaxForgotten = 1
    HealthEnabled = TRUE
    StatusSink = FALSE
SPECIFICATION Spec
PROPERTIES
    StopIsFinal
