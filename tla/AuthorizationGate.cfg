\* Two possible secrets and boot keys, an encrypted (badger) store, three
\* daemon starts, two setup runs and three tokens issued on request,
\* one request at a time on the daemon.  Reads of the store succeed; a set
\* may fail.  The bounded operator stops acting, so terminal states are
\* expected.
CONSTANTS
    Secrets = {k1, k2}
    BootKeys = {b1, b2}
    NoValue = NoValue
    Encrypted = TRUE
    MaxTokens = 3
    MaxStarts = 3
    MaxSetups = 2
    Anonymous = Anonymous
    Missing = Missing
    StoreReadFails = FALSE
SPECIFICATION Spec
INVARIANT TypeOK
INVARIANT PrintedTokensAccepted
INVARIANT AdminOnlyGranted
CHECK_DEADLOCK FALSE
