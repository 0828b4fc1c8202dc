\* One property of Issue checked for a violation.
CONSTANTS
    Threads = {t1}
    NodeIds = {n1, n2}
    NoValue = NoValue
    InitialClockSeq = 0
    MaxTime = 3
    MaxIds = 4
    MaxRestarts = 0
    ClockMayRegress = TRUE
SPECIFICATION Spec
INVARIANT IdsStrictlyIncreasing
CHECK_DEADLOCK FALSE
