SPECIFICATION PlaybackSpec
CONSTANTS
    Size = 16
    DataSize = 4
    HeadSize = 1
    Word = 1024
    Frames <- PlaybackFrames
    StateFrame <- MCStateFrame
    DropCount = 1
    BufLimits = {}
    LapBound = 2
    None = None
INVARIANTS Accounting NeverLapped
PROPERTIES LosslessWhileRunning WriterReleased
CHECK_DEADLOCK FALSE
