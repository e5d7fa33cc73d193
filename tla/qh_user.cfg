SPECIFICATION Spec
CONSTANTS
    Caller = {c1, c2, c3}
    UserSize = 2
    None = None
INVARIANTS TypeOK SessionIntact NoUseAfterFree CallbackInSession FullIsTrue
PROPERTY StopReturns
