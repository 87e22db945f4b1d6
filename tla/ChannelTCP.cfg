SPECIFICATION ChFairSpec
CONSTANTS
    BufSize = 4
    MaxBufSize = 8
    Inputs <- MCInputs
    MaxUsers = 1
    MaxWrites = 1
    MaxObufs = 1
INVARIANTS
    StreamIntact
    MessagesCounted
    LocksBalance
PROPERTY EofDeletes
CHECK_DEADLOCK FALSE
