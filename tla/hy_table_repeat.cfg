SPECIFICATION Spec
CONSTANTS
    Slots = 2
    Info = {a, b, c}
    Channel = {ch0}
    NoInfo = NoInfo
INVARIANTS RepeatIsTrue
