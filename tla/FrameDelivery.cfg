SPECIFICATION Spec
CONSTANTS
    Bridges = {coder, b1}
    Wires = {w1}
    Coder = coder
    CameraOnly = {coder, b1}
    Codec = "h265"
    Gop = 2
    FrameSize = 2
    SocketRoom = 3
    MaxFrames = 3
INVARIANTS
    DeliveryIsSound
PROPERTIES
    ClosedIsNotWritten
    DeliveryEnds
    FramesArrive
CHECK_DEADLOCK FALSE
