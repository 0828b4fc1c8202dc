\* A command racing a stop: its call can be aborted after the daemon ran it.
CONSTANTS
    Clients = {c1, c2}
    Commands = {"config", "storage", "stop"}
    StoreOpenTimeout = TRUE
    MaxStarts = 0
    JobNames = {j1}
    NoArg = NoArg
    MaxJobs = 0
    MaxQueries = 0
    DefaultCommand = TRUE
SPECIFICATION Spec
INVARIANT AtMostOnce
CHECK_DEADLOCK FALSE
