\* A restart racing a config command, with a store whose open times out (badger).
CONSTANTS
    Clients = {c1, c2}
    Commands = {"restart", "config"}
    StoreOpenTimeout = TRUE
    MaxStarts = 0
    JobNames = {j1}
    NoArg = NoArg
    MaxJobs = 0
    MaxQueries = 0
    DefaultCommand = TRUE
SPECIFICATION Spec
PROPERTY RestartResumesService
CHECK_DEADLOCK FALSE
