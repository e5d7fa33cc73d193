SPECIFICATION LiveSpec
CONSTANTS
    Size = 10
    DataSize = 2
    HeadSize = 1
    Word = 1024
    Frames <- LiveFrames
    StateFrame <- MCStateFrame
    DropCount = 1
    BufLimits = {0, 2}
    LapBound = 2
    None = None
INVARIANTS TypeOK InBounds ReaderAligned Accounting QueueBound
PROPERTIES GopIntact RefinesFrameQueue BacklogMoves
CHECK_DEADLOCK FALSE
