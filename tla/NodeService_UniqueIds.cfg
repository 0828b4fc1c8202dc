\* One property of Issue checked for a violation.
CONSTANTS
    Threads = {t1, t2}
    NodeIds = {n1, n2}
    NoValue = NoValue
    InitialClockSeq = 0
    MaxTime = 3
    MaxIds = 4
    MaxRestarts = 0
    ClockMayRegress = FALSE
SPECIFICATION Spec
INVARIANT UniqueIds
CHECK_DEADLOCK FALSE
