SPECIFICATION Spec
CONSTANTS
    NOut = 2
    CallBound = 4
    BreakBound = 2
INVARIANTS OwnAnswer
PROPERTIES Applied
CHECK_DEADLOCK FALSE
