SPECIFICATION ChSpec
CONSTANTS
    BufSize = 6
    MaxBufSize = 6
    Inputs <- MCCutShort
    MaxUsers = 0
    MaxWrites = 0
    MaxObufs = 1
INVARIANT LongMessageAlone
CHECK_DEADLOCK FALSE
