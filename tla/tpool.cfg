SPECIFICATION Spec
CONSTANTS
    Thread = {t1, t2, t3}
    Work = {w1, w2, w3, w4}
    WorkSize = 2
    LifeBound = 2
    None = None
INVARIANTS TypeOK Conservation NoLostWakeup StoppedIsQuiet
PROPERTIES AcceptedRuns StopReturns
CHECK_DEADLOCK FALSE
