SPECIFICATION Spec
CONSTANTS
    Type = {main, sub}
    LastSecond = 1
    RingSize = 1
    ChanSize = 1
    CallBound = 3
    BreakBound = 1
INVARIANTS TypeOK FreshFrames
PROPERTIES Settles StopReturns
CHECK_DEADLOCK FALSE
