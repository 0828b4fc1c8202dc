\* Two CLI processes running any pair of commands against a daemon that is
\* serving or down, may be started once, and whose store open times out
\* (badger, the default open-timeout of one second).  The application
\* registers up to two jobs under one name; a console user types up to two
\* queries.
CONSTANTS
    Clients = {c1, c2}
    Commands = {"config", "configRead", "storage", "console", "cert", "manager", "stop", "restart", "status", "job", "unknown", "none"}
    StoreOpenTimeout = TRUE
    MaxStarts = 1
    JobNames = {j1}
    NoArg = NoArg
    MaxJobs = 2
    MaxQueries = 2
    DefaultCommand = TRUE
SPECIFICATION Spec
INVARIANT TypeOK
INVARIANT AnswerShownBeforePrompt
PROPERTY EveryCommandReturns
PROPERTY JobsImplementRegistry
PROPERTY StopEndsDaemon
CHECK_DEADLOCK FALSE
