SPECIFICATION PlaybackSpec
CONSTANTS
    Viewers = {v1}
    Spans <- MCSpans
    Gop = 2
    Window = 2
    Shortest = 1
    Slack = 0
    Mute = {2}
    MaxNow = 8
    MaxSeeks = 1
INVARIANTS
    FeederIsSound
PROPERTIES
    PushedPlaceIsCurrent
    JumpStartsWithKey
    
CHECK_DEADLOCK FALSE
