\* One property the code is expected to keep, checked for a violation.
CONSTANTS
    Keys <- MCKeys
    WatchPrefixes <- MCWatchPrefixes
    Vals = {v1, v2}
    NoValue = NoValue
    Setters = {s1, s2}
    Watchers = {w1}
    NoWatch = NoWatch
    Unseen = Unseen
SPECIFICATION Spec
INVARIANT WatchersConverge
CHECK_DEADLOCK FALSE
