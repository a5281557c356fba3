SPECIFICATION FairSpec
CONSTANTS
    OneTimer = TRUE
    TakeTurns = TRUE
    FrameLen = {2, 3}
    MinLen = 2
    Frames = 3
    Sends = 3
    Gap = 1
    FrameGap = 6
    Latency = 1
    Delimit = 3
    InterPacket = 5
    Hold = 1
    PacketTime = 3
    TimerRange = 4
INVARIANTS
    WholeFrames
    PinReleased
PROPERTIES
    FramesDelivered
CHECK_DEADLOCK FALSE
