CONSTANTS
    Threads = {t1}
    Loop = loop
    Verdicts = {"h264", "h265", "unsupported", "auth", "down"}
    MaxForgotten = 1
    HealthEnabled = TRUE
    StatusSink = FALSE
SPECIFICATION FairSpec
PROPERTIES
    AuthErrorComesToRest
    StreamRecovers
    DeletedGoesDown
