SPECIFICATION ViewersSpec
CONSTANTS
    Web = {w1}
    Moq = {m1}
    Addresses = {a1}
    H265 = {a1}
    First = a1
    MaxMade = 3
INVARIANTS
    ConnectionsAreShared
PROPERTIES
    NotPulledAway
    LeaverIsCollected
    DeadSourceIsLeft
CHECK_DEADLOCK FALSE
