SPECIFICATION Spec
CONSTANTS
    Frames <- MCFrames
    HeadLen = 2
    Size = 8
    MsgMax = 9
    Inflight = 2
    ConnBound = 2
INVARIANTS BufferOK Reassembled OnlyLastMessageHeld
CHECK_DEADLOCK FALSE
