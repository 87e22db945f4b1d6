SPECIFICATION FairSpec
CONSTANTS
    Threads = {t1, t2}
    Callbacks = {a}
    ExitCb = exitCb
    NoCb = noCb
    Pool <- MCPool1
    Heap <- MCHeap
    ExitNode <- MCExit
    NoNode <- MCNull
    Main = main
    BatchLimit = 2
    Delays = {1}
    MaxClock = 2
    MaxPending = 2
INVARIANTS
    QueuesIntact
    CancelHandshake
PROPERTIES
    NeverEarly
    PerThreadOrder
    ExitDrains
    EveryEventRuns
    CancelReturns
CHECK_DEADLOCK FALSE
