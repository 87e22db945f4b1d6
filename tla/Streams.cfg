SPECIFICATION StFairSpec
CONSTANTS
    c1 = c1
    c2 = c2
    Channels = {c1, c2}
    Accesses = {"read", "write"}
    SBufSize = 2
    PBufSize = 2
    MaxBytes <- MCMaxBytes
    MaxRequests = 2
    MaxConnects = 1
INVARIANTS
    ReadersInOrder
    WritersInOrder
    NothingLeft
PROPERTY
    RequestsAnswered
CHECK_DEADLOCK FALSE
