\* The bounds of AuthorizationGate.cfg, with a Get on the store that may
\* return an error (an I/O error of the backing store at boot).  The
\* bounded operator stops acting, so terminal states are expected.
CONSTANTS
    Secrets = {k1, k2}
    BootKeys = {b1, b2}
    NoValue = NoValue
    Encrypted = TRUE
    MaxTokens = 3
    MaxStarts = 3
    MaxSetups = 2
    Anonymous = Anonymous
    Missing = Missing
    StoreReadFails = TRUE
SPECIFICATION Spec
INVARIANT PrintedTokensAccepted
CHECK_DEADLOCK FALSE
