SPECIFICATION FairSpec
CONSTANTS
    Request = {r1}
    NoRequest = NoRequest
    Size = {1, 2}
    FatalSize = 2
    MaxQueuedBytes = 3
    MaxAggregate = 4
INVARIANTS
    BytesAreAccounted
    RequestsAreAnsweredOnce
    FatalComesLast
PROPERTIES
    LeavingEnds
CHECK_DEADLOCK FALSE
