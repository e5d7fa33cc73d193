SPECIFICATION Spec
CONSTANTS
    Caller = {c1, c2}
    UserSize = 2
    None = None
INVARIANT StartReturnsZero
