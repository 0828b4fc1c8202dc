\* Two concurrent Set calls, one matching and one non-matching key, against
\* a watch that may be cancelled, stop from its callback, or be released by
\* Destroy.  One watch keeps the liveness check small.  The model stops once every
\* bounded caller has returned, so terminal states are not deadlocks.
CONSTANTS
    Keys <- MCKeys
    WatchPrefixes <- MCWatchPrefixes
    Vals = {v1}
    NoValue = NoValue
    Setters = {s1, s2}
    Watchers = {w1}
    NoWatch = NoWatch
    Unseen = Unseen
SPECIFICATION Spec
INVARIANT TypeOK
INVARIANT ChangeDeliveredToLiveWatches
PROPERTY EverySetReturns
PROPERTY WatchesReleasedOnDestroy
CHECK_DEADLOCK FALSE
