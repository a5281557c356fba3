SPECIFICATION Spec
CONSTANTS
    OneTimer = FALSE
    TakeTurns = FALSE
    FrameLen = {1, 3}
    MinLen = 2
    Frames = 2
    Sends = 2
    Gap = 1
    FrameGap = 6
    Latency = 3
    Delimit = 3
    InterPacket = 5
    Hold = 1
    PacketTime = 2
    TimerRange = 9
INVARIANTS
    
    
    PinReleased
CHECK_DEADLOCK FALSE
