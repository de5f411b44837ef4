SPECIFICATION FairSpec
CONSTANTS
    Caller = {c1, c2}
    Peer = c1
    NoKeys = NoKeys
    TTL = 2
    Age = {0, 1}
    RetryDelay = 1
    UnknownDelay = 2
    FetchTime = 1
    MaxTime = 3
    MaxLease = 2
    MaxLeases = 2
INVARIANTS
    OneFetchAtATime
PROPERTIES
    StaleKeysAreRefused
    UnknownRefreshesAreSpaced
    VerificationsReturn
    RunOutIsFinal
    LeasesAreEnforced
CHECK_DEADLOCK FALSE
