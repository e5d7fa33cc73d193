SPECIFICATION Spec
CONSTANTS
    SecondOf <- MCSecondOf
    Values <- MCValues
    ChanSize = 2
    MaxAsk = 2
    MaxBreak = 2
INVARIANTS TypeOK RequestKept
PROPERTIES Contiguous MediaWhenRunning EndIsFinal PlaybackEnds
CHECK_DEADLOCK FALSE
